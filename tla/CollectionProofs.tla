-------------------------- MODULE CollectionProofs --------------------------
(***************************************************************************)
(* What holds of a collection for every value of its constants.  First     *)
(* type correctness, whatever fails; and, when a failing append leaves no  *)
(* record behind, that the maps, the index, the counter and the log stay   *)
(* consistent and the log always replays.                                  *)
(*                                                                         *)
(* Then the refinement: when, besides, LoadState runs only on a fresh      *)
(* collection and stops lose nothing of the log, the collection implements *)
(* the vector store of module VectorStore.  It rests on one invariant:     *)
(* memory serves what the part of the log that it has seen says, so that   *)
(* the documents are at every moment a function of the log alone.          *)
(***************************************************************************)
EXTENDS Collection, TLAPS

-----------------------------------------------------------------------------
(* Go maps                                                                 *)

(* f is a map with keys in S and values in T.                              *)
IsMap(f, S, T) == f \in [DOMAIN f -> T] /\ DOMAIN f \subseteq S

LEMMA EmptyMap ==
    ASSUME NEW S, NEW T
    PROVE  IsMap(Empty, S, T) /\ DOMAIN Empty = {}
BY DEF IsMap, Empty

LEMMA PutMap ==
    ASSUME NEW S, NEW T, NEW f, IsMap(f, S, T), NEW k \in S, NEW v \in T
    PROVE  IsMap(Put(f, k, v), S, T)
BY DEF IsMap, Put

LEMMA DropMap ==
    ASSUME NEW S, NEW T, NEW f, IsMap(f, S, T), NEW k
    PROVE  IsMap(Drop(f, k), S, T)
BY DEF IsMap, Drop

LEMMA PutValues ==
    ASSUME NEW f, NEW k, NEW v
    PROVE  /\ DOMAIN Put(f, k, v) = DOMAIN f \cup {k}
           /\ Put(f, k, v)[k] = v
           /\ \A x \in DOMAIN f : x # k => Put(f, k, v)[x] = f[x]
BY DEF Put

LEMMA PutNew ==
    ASSUME NEW f, NEW k, NEW v, k \notin DOMAIN f
    PROVE  /\ DOMAIN Put(f, k, v) = DOMAIN f \cup {k}
           /\ Put(f, k, v)[k] = v
           /\ \A x \in DOMAIN f : Put(f, k, v)[x] = f[x]
BY DEF Put

LEMMA DropValues ==
    ASSUME NEW f, NEW k
    PROVE  /\ DOMAIN Drop(f, k) = DOMAIN f \ {k}
           /\ \A x \in DOMAIN f : x # k => Drop(f, k)[x] = f[x]
BY DEF Drop

-----------------------------------------------------------------------------
(* Type correctness                                                        *)

ValueTypes ==
    /\ phase \in {"down", "loading", "reloading", "ready", "closed"}
    /\ cursor \in Nat /\ idCounter \in Nat /\ stops \in Nat /\ faults \in Nat
    /\ used \subseteq ExternalIDs
    /\ acked \subseteq used /\ deleted \subseteq used /\ unsure \subseteq used

MapTypes ==
    /\ IsMap(extToInt, ExternalIDs, Nat \ {0})
    /\ IsMap(intToExt, Nat \ {0}, ExternalIDs)
    /\ IsMap(payload, ExternalIDs, Items \cup {JSON(i) : i \in Items})
    /\ IsMap(index, Nat \ {0}, {Unit(i) : i \in Items})

(* Only drawn ids get into the log, and from there or from an insert into  *)
(* memory: without this the histories need not be sets of drawn ids.       *)
IdsDrawn ==
    /\ \A p \in DOMAIN log : log[p].ext \in used
    /\ DOMAIN extToInt \subseteq used

TypeInv == log \in Seq(Record) /\ ValueTypes /\ MapTypes /\ IdsDrawn

LEMMA TypeInvOK == TypeInv => TypeOK
BY DEF TypeInv, ValueTypes, MapTypes, IsMap, TypeOK

(* The records that are written are records.                               *)
LEMMA NewRecord ==
    ASSUME NEW e \in ExternalIDs, NEW i \in Nat \ {0}, NEW item \in Items
    PROVE  /\ InsertRecord(e, i, item) \in Record
           /\ InsertRecord(e, i, item).op = "insert"
           /\ InsertRecord(e, i, item).ext = e
           /\ InsertRecord(e, i, item).int = i
BY DEF InsertRecord, Record

LEMMA NewDelete ==
    ASSUME NEW e \in ExternalIDs, NEW i \in Nat \ {0}
    PROVE  /\ DeleteRecord(e, i) \in Record
           /\ DeleteRecord(e, i).op = "delete"
           /\ DeleteRecord(e, i).ext = e
           /\ DeleteRecord(e, i).int = i
BY DEF DeleteRecord, Record

LEMMA RecordFields ==
    ASSUME NEW r \in Record
    PROVE  /\ r.ext \in ExternalIDs /\ r.int \in Nat \ {0}
           /\ r.op \in {"insert", "delete"}
           /\ r.op = "insert" => /\ Unit(r.raw) \in {Unit(i) : i \in Items}
                                 /\ r.meta \in {JSON(i) : i \in Items}
BY DEF Record

(* What an append and a lost tail do to a log.                             *)
LEMMA AppendLog ==
    ASSUME NEW s \in Seq(Record), NEW r \in Record
    PROVE  /\ Append(s, r) \in Seq(Record)
           /\ DOMAIN Append(s, r) = DOMAIN s \cup {Len(s) + 1}
           /\ Len(s) + 1 \notin DOMAIN s
           /\ Append(s, r)[Len(s) + 1] = r
           /\ \A p \in DOMAIN s : Append(s, r)[p] = s[p]
OBVIOUS

LEMMA CutLog ==
    ASSUME NEW s \in Seq(Record), NEW n \in 0 .. Len(s)
    PROVE  /\ SubSeq(s, 1, n) \in Seq(Record)
           /\ DOMAIN SubSeq(s, 1, n) \subseteq DOMAIN s
           /\ \A p \in DOMAIN SubSeq(s, 1, n) : SubSeq(s, 1, n)[p] = s[p]
OBVIOUS

LEMMA Next_internalID == TypeInv => internalID \in Nat \ {0}
BY DEF TypeInv, ValueTypes, internalID

LEMMA TypeInit == Init => TypeInv
<1> SUFFICES ASSUME Init PROVE TypeInv
  OBVIOUS
<1>1. log \in Seq(Record) /\ ValueTypes
  BY DEF Init, ValueTypes
<1>2. MapTypes /\ IdsDrawn
  BY EmptyMap DEF Init, MapTypes, IdsDrawn
<1> QED
  BY <1>1, <1>2 DEF TypeInv

LEMMA LogGrows ==
    ASSUME TypeInv, NEW r \in Record, r.ext \in used', used \subseteq used',
           log' = Append(log, r)
    PROVE  log' \in Seq(Record) /\ \A p \in DOMAIN log' : log'[p].ext \in used'
<1>1. log \in Seq(Record) /\ \A p \in DOMAIN log : log[p].ext \in used
  BY DEF TypeInv, IdsDrawn
<1> QED
  BY <1>1, AppendLog

LEMMA LogStays ==
    ASSUME TypeInv, used \subseteq used', log' = log
    PROVE  log' \in Seq(Record) /\ \A p \in DOMAIN log' : log'[p].ext \in used'
BY DEF TypeInv, IdsDrawn

LEMMA FaultyLog ==
    ASSUME TypeInv, NEW r \in Record, r.ext \in used', used \subseteq used',
           Faulty(r)
    PROVE  /\ log' \in Seq(Record)
           /\ \A p \in DOMAIN log' : log'[p].ext \in used'
           /\ faults' \in Nat
<1>1. log' = log \/ log' = Append(log, r)
  BY DEF Faulty
<1>2. faults' \in Nat
  BY DEF Faulty, TypeInv, ValueTypes
<1> QED
  BY <1>1, <1>2, LogGrows, LogStays

(* Steps that leave memory as it is, clear it, put a document in or drop   *)
(* one.                                                                    *)
MapsFollow == MapTypes' /\ DOMAIN extToInt' \subseteq used'

LEMMA MemoryStays ==
    ASSUME TypeInv, used \subseteq used', UNCHANGED memory
    PROVE  MapsFollow
BY DEF TypeInv, IdsDrawn, MapTypes, MapsFollow, memory, maps

LEMMA MemoryCleared ==
    ASSUME extToInt' = Empty, intToExt' = Empty, payload' = Empty, index' = Empty
    PROVE  MapsFollow
BY EmptyMap DEF MapTypes, MapsFollow

LEMMA DocumentPut ==
    ASSUME TypeInv, used \subseteq used',
           NEW e \in ExternalIDs, e \in used', NEW i \in Nat \ {0},
           NEW v \in {Unit(j) : j \in Items},
           NEW p \in Items \cup {JSON(j) : j \in Items},
           index' = Put(index, i, v), extToInt' = Put(extToInt, e, i),
           intToExt' = Put(intToExt, i, e), payload' = Put(payload, e, p)
    PROVE  MapsFollow
<1>1. MapTypes /\ DOMAIN extToInt \subseteq used
  BY DEF TypeInv, IdsDrawn
<1>2. /\ IsMap(extToInt', ExternalIDs, Nat \ {0})
      /\ IsMap(intToExt', Nat \ {0}, ExternalIDs)
  BY <1>1, PutMap DEF MapTypes
<1>3. /\ IsMap(payload', ExternalIDs, Items \cup {JSON(j) : j \in Items})
      /\ IsMap(index', Nat \ {0}, {Unit(j) : j \in Items})
  BY <1>1, PutMap DEF MapTypes
<1>4. DOMAIN extToInt' = DOMAIN extToInt \cup {e}
  BY PutValues
<1> QED
  BY <1>1, <1>2, <1>3, <1>4 DEF MapTypes, MapsFollow

LEMMA DocumentDropped ==
    ASSUME TypeInv, used \subseteq used', NEW e, NEW i, DropDocument(e, i)
    PROVE  MapsFollow
<1>1. MapTypes /\ DOMAIN extToInt \subseteq used
  BY DEF TypeInv, IdsDrawn
<1>2. /\ IsMap(extToInt', ExternalIDs, Nat \ {0})
      /\ IsMap(intToExt', Nat \ {0}, ExternalIDs)
  BY <1>1, DropMap DEF MapTypes, DropDocument
<1>3. /\ IsMap(payload', ExternalIDs, Items \cup {JSON(j) : j \in Items})
      /\ IsMap(index', Nat \ {0}, {Unit(j) : j \in Items})
  BY <1>1, DropMap DEF MapTypes, DropDocument
<1>4. DOMAIN extToInt' = DOMAIN extToInt \ {e}
  BY DropValues DEF DropDocument
<1> QED
  BY <1>1, <1>2, <1>3, <1>4 DEF MapTypes, MapsFollow

(* The parts of TypeInv after a step.                                      *)
LEMMA TypeParts ==
    ASSUME log' \in Seq(Record), \A p \in DOMAIN log' : log'[p].ext \in used',
           MapsFollow, ValueTypes'
    PROVE  TypeInv'
BY DEF TypeInv, IdsDrawn, MapsFollow

LEMMA TypeStep == TypeInv /\ [Next]_vars => TypeInv'
<1> SUFFICES ASSUME TypeInv, [Next]_vars PROVE TypeInv'
  OBVIOUS
<1>a. ValueTypes /\ MapTypes /\ log \in Seq(Record) /\ IdsDrawn
  BY DEF TypeInv
<1>b. internalID \in Nat \ {0}
  BY Next_internalID
<1>c. \A e \in DOMAIN extToInt :
        e \in ExternalIDs /\ e \in used /\ extToInt[e] \in Nat \ {0}
  BY <1>a DEF MapTypes, IsMap, IdsDrawn
<1>1. ASSUME NEW e \in ExternalIDs, NEW item \in Items, InsertOK(e, item)
      PROVE  TypeInv'
  <2>1. used' = used \cup {e} /\ e \in used'
    BY <1>1 DEF InsertOK, Draw
  <2>2. log' \in Seq(Record) /\ \A p \in DOMAIN log' : log'[p].ext \in used'
    <3>1. /\ InsertRecord(e, internalID, item) \in Record
          /\ InsertRecord(e, internalID, item).ext \in used'
      BY <1>b, <2>1, NewRecord
    <3>2. log' = Append(log, InsertRecord(e, internalID, item))
      BY <1>1 DEF InsertOK
    <3> QED
      BY <2>1, <3>1, <3>2, LogGrows
  <2>3. MapsFollow
    BY <1>1, <1>b, <2>1, DocumentPut DEF InsertOK
  <2>4. ValueTypes'
    BY <1>a, <1>b, <1>1, <2>1 DEF InsertOK, ValueTypes
  <2> QED
    BY <2>2, <2>3, <2>4, TypeParts
<1>2. ASSUME NEW e \in ExternalIDs, NEW item \in Items, InsertFails(e, item)
      PROVE  TypeInv'
  <2>1. used' = used \cup {e} /\ e \in used'
    BY <1>2 DEF InsertFails, Draw
  <2>2. /\ log' \in Seq(Record) /\ \A p \in DOMAIN log' : log'[p].ext \in used'
        /\ faults' \in Nat
    BY <1>2, <1>b, <2>1, NewRecord, FaultyLog DEF InsertFails
  <2>3. MapsFollow
    BY <1>2, <2>1, MemoryStays DEF InsertFails
  <2>4. ValueTypes'
    BY <1>a, <1>2, <2>1, <2>2 DEF InsertFails, ValueTypes, memory
  <2> QED
    BY <2>2, <2>3, <2>4, TypeParts
<1>3. ASSUME NEW e \in ExternalIDs, NEW item \in Items,
             InsertCompensated(e, item)
      PROVE  TypeInv'
  <2> DEFINE ins == InsertRecord(e, internalID, item)
             del == DeleteRecord(e, internalID)
  <2>1. used' = used \cup {e} /\ e \in used'
    BY <1>3 DEF InsertCompensated, Draw
  <2>2. ins \in Record /\ ins.ext = e /\ del \in Record /\ del.ext = e
    BY <1>b, NewRecord, NewDelete
  <2>3. log' = Append(Append(log, ins), del) \/ log' = Append(log, ins)
    BY <1>3 DEF InsertCompensated
  <2>4. /\ Append(log, ins) \in Seq(Record)
        /\ \A p \in DOMAIN Append(log, ins) : Append(log, ins)[p].ext \in used'
    BY <1>a, <2>1, <2>2, AppendLog DEF IdsDrawn
  <2>5. log' \in Seq(Record) /\ \A p \in DOMAIN log' : log'[p].ext \in used'
    <3> HIDE DEF ins, del
    <3>1. CASE log' = Append(log, ins)
      BY <2>4, <3>1
    <3>2. CASE log' = Append(Append(log, ins), del)
      <4> DEFINE s == Append(log, ins)
      <4>1. s \in Seq(Record) /\ \A p \in DOMAIN s : s[p].ext \in used'
        BY <2>4
      <4> HIDE DEF s
      <4>2. log' = Append(s, del)
        BY <3>2 DEF s
      <4> QED BY <2>1, <2>2, <4>1, <4>2, AppendLog
    <3> QED BY <2>3, <3>1, <3>2
  <2>6. MapsFollow
    BY <1>3, <2>1, MemoryStays DEF InsertCompensated
  <2>7. ValueTypes'
    BY <1>a, <1>3, <2>1 DEF InsertCompensated, ValueTypes, memory
  <2> QED
    BY <2>5, <2>6, <2>7, TypeParts
<1>4. ASSUME NEW e \in ExternalIDs, NEW item \in Items, StopInInsert(e, item)
      PROVE  TypeInv'
  <2>1. used' = used \cup {e} /\ e \in used'
    BY <1>4 DEF StopInInsert, Draw
  <2>2. log' \in Seq(Record) /\ \A p \in DOMAIN log' : log'[p].ext \in used'
    <3>1. /\ InsertRecord(e, internalID, item) \in Record
          /\ InsertRecord(e, internalID, item).ext \in used'
      BY <1>b, <2>1, NewRecord
    <3>2. log' = Append(log, InsertRecord(e, internalID, item))
      BY <1>4 DEF StopInInsert
    <3> QED
      BY <2>1, <3>1, <3>2, LogGrows
  <2>3. MapsFollow
    BY <1>4, MemoryCleared DEF StopInInsert, Forget
  <2>4. ValueTypes'
    BY <1>a, <1>4, <2>1 DEF StopInInsert, Forget, ValueTypes
  <2> QED
    BY <2>2, <2>3, <2>4, TypeParts
<1>5. ASSUME NEW e \in ExternalIDs, InsertClosed(e)
      PROVE  TypeInv'
  <2>1. used' = used \cup {e}
    BY <1>5 DEF InsertClosed, Draw
  <2>2. log' \in Seq(Record) /\ \A p \in DOMAIN log' : log'[p].ext \in used'
    BY <1>5, <2>1, LogStays DEF InsertClosed
  <2>3. MapsFollow
    BY <1>5, <2>1, MemoryStays DEF InsertClosed
  <2>4. ValueTypes'
    BY <1>a, <1>5, <2>1 DEF InsertClosed, ValueTypes, memory, history
  <2> QED
    BY <2>2, <2>3, <2>4, TypeParts
<1>6. ASSUME NEW e \in ExternalIDs, DeleteOK(e)
      PROVE  TypeInv'
  <2>1. e \in used /\ extToInt[e] \in Nat \ {0} /\ used' = used
    BY <1>c, <1>6 DEF DeleteOK
  <2>2. log' \in Seq(Record) /\ \A p \in DOMAIN log' : log'[p].ext \in used'
    BY <1>6, <2>1, NewDelete, LogGrows DEF DeleteOK
  <2>3. MapsFollow
    BY <1>6, <2>1, DocumentDropped DEF DeleteOK
  <2>4. ValueTypes'
    BY <1>a, <1>6, <2>1 DEF DeleteOK, ValueTypes
  <2> QED
    BY <2>2, <2>3, <2>4, TypeParts
<1>7. ASSUME NEW e \in ExternalIDs, DeleteFails(e)
      PROVE  TypeInv'
  <2>1. e \in used /\ extToInt[e] \in Nat \ {0} /\ used' = used
    BY <1>c, <1>7 DEF DeleteFails
  <2>2. /\ log' \in Seq(Record) /\ \A p \in DOMAIN log' : log'[p].ext \in used'
        /\ faults' \in Nat
    BY <1>7, <2>1, NewDelete, FaultyLog DEF DeleteFails
  <2>3. MapsFollow
    BY <1>7, <2>1, MemoryStays DEF DeleteFails
  <2>4. ValueTypes'
    BY <1>a, <1>7, <2>1, <2>2 DEF DeleteFails, ValueTypes, memory
  <2> QED
    BY <2>2, <2>3, <2>4, TypeParts
<1>8. ASSUME NEW e \in ExternalIDs, StopInDelete(e)
      PROVE  TypeInv'
  <2>1. e \in used /\ extToInt[e] \in Nat \ {0} /\ used' = used
    BY <1>c, <1>8 DEF StopInDelete
  <2>2. log' \in Seq(Record) /\ \A p \in DOMAIN log' : log'[p].ext \in used'
    BY <1>8, <2>1, NewDelete, LogGrows DEF StopInDelete
  <2>3. MapsFollow
    BY <1>8, MemoryCleared DEF StopInDelete, Forget
  <2>4. ValueTypes'
    BY <1>a, <1>8, <2>1 DEF StopInDelete, Forget, ValueTypes
  <2> QED
    BY <2>2, <2>3, <2>4, TypeParts
<1>9. ASSUME \/ OpenCollection \/ LoadDone \/ Close \/ UNCHANGED vars
      PROVE  TypeInv'
  <2>1. UNCHANGED <<log, memory, used, history, stops, faults>>
    BY <1>9 DEF OpenCollection, LoadDone, Close, vars
  <2>2. log' \in Seq(Record) /\ \A p \in DOMAIN log' : log'[p].ext \in used'
    BY <2>1, LogStays
  <2>3. MapsFollow
    BY <2>1, MemoryStays
  <2>4. ValueTypes'
    BY <1>a, <1>9, <2>1
       DEF OpenCollection, LoadDone, Close, vars, ValueTypes, memory, history
  <2> QED
    BY <2>2, <2>3, <2>4, TypeParts
<1>10. ASSUME Reload
       PROVE  TypeInv'
  <2>1. log' \in Seq(Record) /\ \A p \in DOMAIN log' : log'[p].ext \in used'
    BY <1>10, LogStays DEF Reload
  <2>2. MapsFollow
    BY <1>a, <1>10, EmptyMap DEF Reload, MapsFollow, MapTypes
  <2>3. ValueTypes'
    BY <1>a, <1>10 DEF Reload, ValueTypes, history
  <2> QED
    BY <2>1, <2>2, <2>3, TypeParts
<1>d. Replaying => /\ record \in Record /\ record.ext \in used
                   /\ cursor + 1 \in DOMAIN log
  <2>1. Replaying => cursor + 1 \in DOMAIN log
    BY <1>a DEF Replaying, ValueTypes
  <2> QED
    BY <1>a, <2>1 DEF record, IdsDrawn
<1>11. ASSUME ReplayInsert
       PROVE  TypeInv'
  <2>1. /\ record \in Record /\ record.ext \in used /\ record.op = "insert"
        /\ used' = used
    BY <1>d, <1>11 DEF ReplayInsert
  <2>2. /\ record.ext \in ExternalIDs /\ record.int \in Nat \ {0}
        /\ Unit(record.raw) \in {Unit(i) : i \in Items}
        /\ record.meta \in {JSON(i) : i \in Items}
    BY <2>1, RecordFields
  <2>3. log' \in Seq(Record) /\ \A p \in DOMAIN log' : log'[p].ext \in used'
    BY <1>11, LogStays DEF ReplayInsert
  <2>4. MapsFollow
    BY <1>11, <2>1, <2>2, DocumentPut DEF ReplayInsert
  <2>5. ValueTypes'
    BY <1>a, <1>11, <2>2 DEF ReplayInsert, ValueTypes, Bump, history
  <2> QED
    BY <2>3, <2>4, <2>5, TypeParts
<1>12. ASSUME ReplayDelete
       PROVE  TypeInv'
  <2>1. record \in Record /\ record.int \in Nat \ {0} /\ used' = used
    BY <1>d, <1>12, RecordFields DEF ReplayDelete
  <2>2. log' \in Seq(Record) /\ \A p \in DOMAIN log' : log'[p].ext \in used'
    BY <1>12, LogStays DEF ReplayDelete
  <2>3. MapsFollow
    BY <1>12, <2>1, DocumentDropped DEF ReplayDelete
  <2>4. ValueTypes'
    BY <1>a, <1>12, <2>1 DEF ReplayDelete, ValueTypes, Bump, history
  <2> QED
    BY <2>2, <2>3, <2>4, TypeParts
<1>13. ASSUME ReplayCollides
       PROVE  TypeInv'
  <2>1. log' \in Seq(Record) /\ \A p \in DOMAIN log' : log'[p].ext \in used'
    BY <1>13, LogStays DEF ReplayCollides
  <2>2. UNCHANGED memory => MapsFollow
    BY <1>13, MemoryStays DEF ReplayCollides
  <2>3. MapsFollow
    BY <1>13, <2>2, MemoryCleared DEF ReplayCollides
  <2>4. ValueTypes'
    BY <1>a, <1>13 DEF ReplayCollides, ValueTypes, memory, history
  <2> QED
    BY <2>1, <2>3, <2>4, TypeParts
<1>14. ASSUME Stop
       PROVE  TypeInv'
  <2>1. log' = log \/ \E n \in 0 .. Len(log) : log' = SubSeq(log, 1, n)
    BY <1>14 DEF Stop
  <2>2. log' \in Seq(Record) /\ \A p \in DOMAIN log' : log'[p].ext \in used'
    <3>1. used' = used
      BY <1>14 DEF Stop
    <3>2. CASE log' = log
      BY <3>1, <3>2, LogStays
    <3>3. ASSUME NEW n \in 0 .. Len(log), log' = SubSeq(log, 1, n)
          PROVE  /\ log' \in Seq(Record)
                 /\ \A p \in DOMAIN log' : log'[p].ext \in used'
      BY <1>a, <3>1, <3>3, CutLog DEF IdsDrawn
    <3> QED
      BY <2>1, <3>2, <3>3
  <2>3. MapsFollow
    BY <1>14, MemoryCleared DEF Stop, Forget
  <2>4. ValueTypes'
    BY <1>a, <1>14 DEF Stop, Forget, ValueTypes
  <2> QED
    BY <2>2, <2>3, <2>4, TypeParts
<1> QED
  BY <1>1, <1>2, <1>3, <1>4, <1>5, <1>6, <1>7, <1>8, <1>9, <1>10, <1>11,
     <1>12, <1>13, <1>14 DEF Next, ClientStep, LoadStep

(* Whatever an append leaves behind, a stop loses or a reload repeats, the *)
(* collection's memory and log hold values of their types: internal ids    *)
(* start at 1, and only ids that were drawn are ever stored or recorded.   *)
THEOREM TypeCorrect == Spec => []TypeOK
<1>1. Init => TypeInv
  BY TypeInit
<1>2. TypeInv /\ [Next]_vars => TypeInv'
  BY TypeStep
<1>3. TypeInv => TypeOK
  BY TypeInvOK
<1> QED
  BY <1>1, <1>2, <1>3, PTL DEF Spec

-----------------------------------------------------------------------------
(* Consistency                                                             *)

(* The faults this needs: a failed append left no record, and LoadState    *)
(* runs only on a fresh collection.                                        *)
CleanFaults == LogFaults \subseteq {"absent"} /\ ~AllowReload

(* What memory serves was inserted by a record it has seen.  Neither       *)
(* MapsAgree nor CounterCoversLog is inductive without it: it is what ties *)
(* the ids in memory to the ids in the log.                                *)
InsertSeen ==
    \A e \in DOMAIN extToInt :
        \E p \in Seen : log[p].op = "insert" /\ log[p].ext = e
                      /\ log[p].int = extToInt[e]

PhaseOK ==
    /\ phase # "reloading"
    /\ phase = "loading" => cursor <= Len(log)
    /\ phase = "down" =>
         DOMAIN extToInt = {} /\ DOMAIN intToExt = {}
         /\ DOMAIN payload = {} /\ DOMAIN index = {}

Consistent == IdsUnique /\ MapsAgree /\ CounterCoversLog /\ InsertSeen /\ PhaseOK

LEMMA ConsistentInit == Init => Consistent
<1> SUFFICES ASSUME Init PROVE Consistent
  OBVIOUS
<1>1. DOMAIN extToInt = {} /\ DOMAIN intToExt = {}
      /\ DOMAIN payload = {} /\ DOMAIN index = {}
  BY DEF Init, Empty
<1>2. DOMAIN log = {} /\ Seen = {} /\ phase = "down"
  BY DEF Init, Seen
<1> QED
  BY <1>1, <1>2
     DEF Consistent, IdsUnique, MapsAgree, CounterCoversLog, InsertSeen, PhaseOK

(* Every id in memory is that of an insert record memory has seen.         *)
LEMMA SeenInserts ==
    ASSUME TypeInv, Consistent
    PROVE  /\ Seen \subseteq DOMAIN log
           /\ \A p \in DOMAIN log : log[p] \in Record /\ log[p].int \in Nat \ {0}
           /\ \A i \in DOMAIN intToExt :
                \E p \in Seen : log[p].op = "insert" /\ log[p].int = i
                              /\ log[p].ext = intToExt[i]
<1>1. \A p \in DOMAIN log : log[p] \in Record /\ log[p].int \in Nat \ {0}
  BY RecordFields DEF TypeInv
<1>2. Seen \subseteq DOMAIN log
  BY DEF TypeInv, ValueTypes, Consistent, PhaseOK, Seen
<1>3. ASSUME NEW i \in DOMAIN intToExt
      PROVE  \E p \in Seen : log[p].op = "insert" /\ log[p].int = i
                           /\ log[p].ext = intToExt[i]
  <2>1. intToExt[i] \in DOMAIN extToInt /\ extToInt[intToExt[i]] = i
    BY <1>3 DEF Consistent, MapsAgree
  <2> QED
    BY <2>1 DEF Consistent, InsertSeen
<1> QED
  BY <1>1, <1>2, <1>3

(* The id that the next insert takes is in no record and not in memory.    *)
LEMMA FreshInternalID ==
    ASSUME TypeInv, Consistent, phase = "ready"
    PROVE  /\ \A p \in DOMAIN log : log[p].int # internalID
           /\ internalID \notin DOMAIN intToExt
           /\ internalID \notin DOMAIN index
<1>1. Seen = DOMAIN log
  BY DEF Seen
<1>2. \A p \in DOMAIN log : log[p].int # internalID
  BY <1>1, SeenInserts
     DEF Consistent, CounterCoversLog, TypeInv, ValueTypes, internalID
<1>3. internalID \notin DOMAIN intToExt
  BY <1>1, <1>2, SeenInserts
<1> QED
  BY <1>2, <1>3 DEF Consistent, MapsAgree

LEMMA FreshExternalID ==
    ASSUME TypeInv, NEW e, e \notin used
    PROVE  e \notin DOMAIN extToInt /\ \A p \in DOMAIN log : log[p].ext # e
BY DEF TypeInv, IdsDrawn

(* The record to be replayed next: an insert's ids are new to memory, a    *)
(* delete's are paired there or both absent.                               *)
LEMMA NextRecord ==
    ASSUME TypeInv, Consistent, Replaying
    PROVE  /\ phase = "loading"
           /\ cursor + 1 \in DOMAIN log /\ cursor + 1 \notin Seen
           /\ record.op = "insert" =>
                record.ext \notin DOMAIN extToInt /\ record.int \notin DOMAIN intToExt
           /\ \/ /\ record.ext \in DOMAIN extToInt
                 /\ extToInt[record.ext] = record.int
              \/ /\ record.ext \notin DOMAIN extToInt
                 /\ record.int \notin DOMAIN intToExt
<1>1. phase = "loading"
  BY DEF Consistent, PhaseOK, Replaying
<1>2. cursor + 1 \in DOMAIN log /\ cursor + 1 \notin Seen
  BY <1>1 DEF TypeInv, ValueTypes, Replaying, Seen
<1>3. IdsUnique /\ InsertSeen
  BY DEF Consistent
<1> DEFINE c == cursor + 1
<1>4. record = log[c]
  BY DEF record
<1>5. record.op = "insert" =>
        record.ext \notin DOMAIN extToInt /\ record.int \notin DOMAIN intToExt
  <2> SUFFICES ASSUME log[c].op = "insert"
               PROVE  /\ log[c].ext \notin DOMAIN extToInt
                      /\ log[c].int \notin DOMAIN intToExt
    BY <1>4
  <2> HIDE DEF c
  <2>1. c \in DOMAIN log /\ c \notin Seen
    BY <1>2 DEF c
  <2>2. log[c].ext \notin DOMAIN extToInt
    BY <1>3, <2>1, SeenInserts DEF InsertSeen, IdsUnique
  <2>3. log[c].int \notin DOMAIN intToExt
    BY <1>3, <2>1, SeenInserts DEF IdsUnique
  <2> QED
    BY <2>2, <2>3
<1>6. \/ record.ext \in DOMAIN extToInt /\ extToInt[record.ext] = record.int
      \/ record.ext \notin DOMAIN extToInt /\ record.int \notin DOMAIN intToExt
  <2> HIDE DEF c
  <2>1. c \in DOMAIN log
    BY <1>2 DEF c
  <2>2. CASE log[c].ext \in DOMAIN extToInt
    <3>1. PICK p \in Seen : log[p].ext = log[c].ext
                           /\ log[p].int = extToInt[log[c].ext]
      BY <1>3, <2>2 DEF InsertSeen
    <3>2. p \in DOMAIN log
      BY <3>1, SeenInserts
    <3>3. log[p].int = log[c].int
      BY <1>3, <2>1, <3>1, <3>2 DEF IdsUnique
    <3> QED
      BY <1>4, <2>2, <3>1, <3>3
  <2>3. CASE log[c].ext \notin DOMAIN extToInt
    <3>1. SUFFICES ASSUME log[c].int \in DOMAIN intToExt PROVE FALSE
      BY <1>4, <2>3
    <3>2. PICK p \in Seen : log[p].int = log[c].int
                           /\ log[p].ext = intToExt[log[c].int]
      BY <3>1, SeenInserts
    <3>3. p \in DOMAIN log
      BY <3>2, SeenInserts
    <3>4. log[p].ext = log[c].ext
      BY <1>3, <2>1, <3>2, <3>3 DEF IdsUnique
    <3>5. intToExt[log[c].int] \in DOMAIN extToInt
      BY <3>1 DEF Consistent, MapsAgree
    <3> QED
      BY <2>3, <3>2, <3>4, <3>5
  <2> QED
    BY <2>2, <2>3
<1> QED
  BY <1>1, <1>2, <1>5, <1>6

-----------------------------------------------------------------------------
(* What the steps do to the parts                                          *)

LEMMA UniqueGrows ==
    ASSUME log \in Seq(Record), IdsUnique, NEW r \in Record,
           log' = Append(log, r),
           \/ \A p \in DOMAIN log : log[p].ext # r.ext /\ log[p].int # r.int
           \/ /\ r.op = "delete"
              /\ \E p \in DOMAIN log : log[p].ext = r.ext /\ log[p].int = r.int
    PROVE  IdsUnique'
<1> DEFINE n == Len(log) + 1
<1>1. /\ DOMAIN log' = DOMAIN log \cup {n} /\ n \notin DOMAIN log
      /\ log'[n] = r /\ \A p \in DOMAIN log : log'[p] = log[p]
  BY AppendLog
<1> HIDE DEF n
<1>2. \A p \in DOMAIN log : (log[p].int = r.int) <=> (log[p].ext = r.ext)
  BY DEF IdsUnique
<1>3. \A p, q \in DOMAIN log' :
        (log'[p].int = log'[q].int) <=> (log'[p].ext = log'[q].ext)
  BY <1>1, <1>2 DEF IdsUnique
<1>4. r.op = "insert" => \A p \in DOMAIN log : log[p].ext # r.ext
  OBVIOUS
<1>5. ASSUME NEW p \in DOMAIN log', NEW q \in DOMAIN log',
             log'[p].op = "insert", log'[q].op = "insert",
             log'[p].ext = log'[q].ext
      PROVE  p = q
  <2>1. CASE p \in DOMAIN log /\ q \in DOMAIN log
    BY <1>1, <1>5, <2>1 DEF IdsUnique
  <2>2. CASE p = n \/ q = n
    BY <1>1, <1>4, <1>5, <2>2
  <2> QED
    BY <1>1, <2>1, <2>2
<1> QED
  BY <1>3, <1>5 DEF IdsUnique

LEMMA UniqueShrinks ==
    ASSUME log \in Seq(Record), IdsUnique,
           log' = log \/ \E n \in 0 .. Len(log) : log' = SubSeq(log, 1, n)
    PROVE  IdsUnique'
<1>1. DOMAIN log' \subseteq DOMAIN log /\ \A p \in DOMAIN log' : log'[p] = log[p]
  BY CutLog
<1> QED
  BY <1>1 DEF IdsUnique

LEMMA AgreePut ==
    ASSUME MapsAgree, NEW e, NEW i, NEW v, NEW w,
           e \notin DOMAIN extToInt, i \notin DOMAIN intToExt,
           index' = Put(index, i, v), extToInt' = Put(extToInt, e, i),
           intToExt' = Put(intToExt, i, e), payload' = Put(payload, e, w)
    PROVE  MapsAgree'
<1>1. /\ DOMAIN index' = DOMAIN index \cup {i}
      /\ DOMAIN payload' = DOMAIN payload \cup {e}
  BY PutValues
<1>2. /\ DOMAIN extToInt' = DOMAIN extToInt \cup {e} /\ extToInt'[e] = i
      /\ \A x \in DOMAIN extToInt : extToInt'[x] = extToInt[x]
  BY DEF Put
<1>3. /\ DOMAIN intToExt' = DOMAIN intToExt \cup {i} /\ intToExt'[i] = e
      /\ \A x \in DOMAIN intToExt : intToExt'[x] = intToExt[x]
  BY DEF Put
<1> QED
  BY <1>1, <1>2, <1>3 DEF MapsAgree

LEMMA AgreeDrop ==
    ASSUME MapsAgree, NEW e, NEW i, DropDocument(e, i),
           \/ e \in DOMAIN extToInt /\ extToInt[e] = i
           \/ e \notin DOMAIN extToInt /\ i \notin DOMAIN intToExt
    PROVE  MapsAgree'
<1>d. /\ index' = Drop(index, i) /\ payload' = Drop(payload, e)
      /\ extToInt' = Drop(extToInt, e) /\ intToExt' = Drop(intToExt, i)
  BY DEF DropDocument
<1>1. DOMAIN index' = DOMAIN index \ {i} /\ DOMAIN payload' = DOMAIN payload \ {e}
  BY <1>d DEF Drop
<1>2. /\ DOMAIN extToInt' = DOMAIN extToInt \ {e}
      /\ \A x \in DOMAIN extToInt' : extToInt'[x] = extToInt[x]
  BY <1>d DEF Drop
<1>3. /\ DOMAIN intToExt' = DOMAIN intToExt \ {i}
      /\ \A x \in DOMAIN intToExt' : intToExt'[x] = intToExt[x]
  BY <1>d DEF Drop
<1> QED
  BY <1>1, <1>2, <1>3 DEF MapsAgree

(* A collection without memory is consistent with any log of unique ids.   *)
LEMMA ConsistentDown ==
    ASSUME IdsUnique', phase' = "down", extToInt' = Empty, intToExt' = Empty,
           payload' = Empty, index' = Empty
    PROVE  Consistent'
<1>1. /\ DOMAIN extToInt' = {} /\ DOMAIN intToExt' = {}
      /\ DOMAIN payload' = {} /\ DOMAIN index' = {}
  BY EmptyMap
<1>2. Seen' = {}
  BY DEF Seen
<1> QED
  BY <1>1, <1>2 DEF Consistent, MapsAgree, CounterCoversLog, InsertSeen, PhaseOK

(* Steps that change neither log nor memory, nor what memory has seen.     *)
LEMMA ConsistentStays ==
    ASSUME Consistent, UNCHANGED <<log, memory>>, Seen' = Seen, PhaseOK'
    PROVE  Consistent'
<1>1. UNCHANGED <<extToInt, intToExt, payload, index, idCounter>>
  BY DEF memory, maps
<1>2. IdsUnique' /\ MapsAgree'
  BY <1>1 DEF Consistent, IdsUnique, MapsAgree
<1>3. CounterCoversLog' /\ InsertSeen'
  BY <1>1 DEF Consistent, CounterCoversLog, InsertSeen
<1> QED
  BY <1>2, <1>3 DEF Consistent

(* An append by a collection in use: its memory has seen the record.       *)
LEMMA SeenGrows ==
    ASSUME TypeInv, phase = "ready", phase' = "ready", NEW r \in Record,
           log' = Append(log, r)
    PROVE  /\ Seen = DOMAIN log /\ Seen' = DOMAIN log \cup {Len(log) + 1}
           /\ log'[Len(log) + 1] = r /\ \A p \in DOMAIN log : log'[p] = log[p]
<1>1. log \in Seq(Record)
  BY DEF TypeInv
<1>2. Seen = DOMAIN log /\ Seen' = DOMAIN log'
  BY DEF Seen
<1> QED
  BY <1>1, <1>2, AppendLog

LEMMA ConsistentStep ==
    ASSUME CleanFaults, TypeInv, Consistent, [Next]_vars
    PROVE  Consistent'
<1>a. /\ IdsUnique /\ MapsAgree /\ CounterCoversLog /\ InsertSeen /\ PhaseOK
      /\ log \in Seq(Record) /\ idCounter \in Nat /\ cursor \in Nat
  BY DEF Consistent, TypeInv, ValueTypes
<1>b. internalID \in Nat \ {0}
  BY Next_internalID
<1>c. ASSUME NEW e \in DOMAIN extToInt
      PROVE  /\ e \in ExternalIDs /\ extToInt[e] \in Nat \ {0}
             /\ \E p \in DOMAIN log : log[p].ext = e /\ log[p].int = extToInt[e]
  <2>1. e \in ExternalIDs /\ extToInt[e] \in Nat \ {0}
    BY <1>c DEF TypeInv, MapTypes, IsMap
  <2>2. Seen \subseteq DOMAIN log
    BY SeenInserts
  <2> QED
    BY <1>a, <1>c, <2>1, <2>2 DEF InsertSeen
<1>d. ASSUME NEW r, Faulty(r)
      PROVE  log' = log
  BY <1>d DEF Faulty, CleanFaults
<1>1. ASSUME NEW e \in ExternalIDs, NEW item \in Items, InsertOK(e, item)
      PROVE  Consistent'
  <2> DEFINE r == InsertRecord(e, internalID, item)
             n == Len(log) + 1
  <2>1. r \in Record /\ r.op = "insert" /\ r.ext = e /\ r.int = internalID
    BY <1>b, NewRecord
  <2> HIDE DEF r
  <2>2. phase = "ready" /\ phase' = "ready" /\ e \notin used /\ log' = Append(log, r)
    BY <1>1 DEF InsertOK, Draw, r
  <2>3. /\ \A p \in DOMAIN log : log[p].int # internalID /\ log[p].ext # e
        /\ e \notin DOMAIN extToInt /\ internalID \notin DOMAIN intToExt
    BY <2>2, FreshInternalID, FreshExternalID
  <2>4. /\ Seen = DOMAIN log /\ Seen' = DOMAIN log \cup {n}
        /\ log'[n] = r /\ \A p \in DOMAIN log : log'[p] = log[p]
    BY <2>1, <2>2, SeenGrows
  <2> HIDE DEF n
  <2>5. IdsUnique'
    BY <1>a, <2>1, <2>2, <2>3, UniqueGrows
  <2>6. MapsAgree'
    BY <1>a, <1>1, <2>3, AgreePut DEF InsertOK
  <2>7. CounterCoversLog'
    <3>1. idCounter' = idCounter + 1
      BY <1>1 DEF InsertOK, internalID
    <3>2. \A p \in DOMAIN log : log[p].int <= idCounter + 1
      BY <1>a, <2>4, SeenInserts DEF CounterCoversLog
    <3>3. r.int <= idCounter + 1
      BY <1>a, <2>1 DEF internalID
    <3> QED
      BY <2>4, <3>1, <3>2, <3>3 DEF CounterCoversLog
  <2>8. InsertSeen'
    <3>1. /\ DOMAIN extToInt' = DOMAIN extToInt \cup {e} /\ extToInt'[e] = internalID
          /\ \A x \in DOMAIN extToInt : extToInt'[x] = extToInt[x]
      BY <1>1, <2>3 DEF InsertOK, Put
    <3> QED
      BY <1>a, <2>1, <2>4, <3>1 DEF InsertSeen
  <2>9. PhaseOK'
    BY <2>2 DEF PhaseOK
  <2> QED
    BY <2>5, <2>6, <2>7, <2>8, <2>9 DEF Consistent
<1>2. ASSUME NEW e \in ExternalIDs,
             \/ \E item \in Items : InsertFails(e, item)
             \/ InsertClosed(e) \/ DeleteFails(e)
      PROVE  Consistent'
  <2>1. UNCHANGED <<log, memory>>
    BY <1>2, <1>d DEF InsertFails, InsertClosed, DeleteFails
  <2>2. UNCHANGED <<phase, cursor, extToInt, intToExt, payload, index>>
    BY <1>2, <2>1
       DEF InsertFails, InsertClosed, DeleteFails, memory, maps
  <2>3. Seen' = Seen
    BY <2>1, <2>2 DEF Seen
  <2>4. PhaseOK'
    BY <1>a, <2>1, <2>2 DEF PhaseOK
  <2> QED
    BY <2>1, <2>3, <2>4, ConsistentStays
<1>3. ASSUME NEW e \in ExternalIDs, NEW item \in Items,
             InsertCompensated(e, item)
      PROVE  Consistent'
  BY <1>3, FreshInternalID DEF InsertCompensated
<1>4. ASSUME NEW e \in ExternalIDs, NEW item \in Items, StopInInsert(e, item)
      PROVE  Consistent'
  <2> DEFINE r == InsertRecord(e, internalID, item)
  <2>1. r \in Record /\ r.ext = e /\ r.int = internalID
    BY <1>b, NewRecord
  <2> HIDE DEF r
  <2>2. phase = "ready" /\ e \notin used /\ log' = Append(log, r)
    BY <1>4 DEF StopInInsert, Draw, r
  <2>3. \A p \in DOMAIN log : log[p].int # internalID /\ log[p].ext # e
    BY <2>2, FreshInternalID, FreshExternalID
  <2>4. IdsUnique'
    BY <1>a, <2>1, <2>2, <2>3, UniqueGrows
  <2> QED
    BY <1>4, <2>4, ConsistentDown DEF StopInInsert, Forget
<1>5. ASSUME NEW e \in ExternalIDs, DeleteOK(e)
      PROVE  Consistent'
  <2> DEFINE r == DeleteRecord(e, extToInt[e])
             n == Len(log) + 1
  <2>1. /\ extToInt[e] \in Nat \ {0}
        /\ \E p \in DOMAIN log : log[p].ext = e /\ log[p].int = extToInt[e]
    BY <1>c, <1>5 DEF DeleteOK
  <2>2. r \in Record /\ r.op = "delete" /\ r.ext = e /\ r.int = extToInt[e]
    BY <2>1, NewDelete
  <2> HIDE DEF r
  <2>3. phase = "ready" /\ phase' = "ready" /\ log' = Append(log, r)
    BY <1>5 DEF DeleteOK, r
  <2>4. /\ Seen = DOMAIN log /\ Seen' = DOMAIN log \cup {n}
        /\ log'[n] = r /\ \A p \in DOMAIN log : log'[p] = log[p]
    BY <2>2, <2>3, SeenGrows
  <2> HIDE DEF n
  <2>5. IdsUnique'
    BY <1>a, <2>1, <2>2, <2>3, UniqueGrows
  <2>6. MapsAgree'
    BY <1>a, <1>5, AgreeDrop DEF DeleteOK
  <2>7. CounterCoversLog'
    <3>1. idCounter' = idCounter
      BY <1>5 DEF DeleteOK
    <3>2. r.int <= idCounter
      BY <1>a, <2>1, <2>2, <2>4 DEF CounterCoversLog
    <3> QED
      BY <1>a, <2>4, <3>1, <3>2 DEF CounterCoversLog
  <2>8. InsertSeen'
    <3>1. /\ DOMAIN extToInt' \subseteq DOMAIN extToInt
          /\ \A x \in DOMAIN extToInt' : extToInt'[x] = extToInt[x]
      BY <1>5 DEF DeleteOK, DropDocument, Drop
    <3> QED
      BY <1>a, <2>4, <3>1 DEF InsertSeen
  <2>9. PhaseOK'
    BY <2>3 DEF PhaseOK
  <2> QED
    BY <2>5, <2>6, <2>7, <2>8, <2>9 DEF Consistent
<1>6. ASSUME NEW e \in ExternalIDs, StopInDelete(e)
      PROVE  Consistent'
  <2> DEFINE r == DeleteRecord(e, extToInt[e])
  <2>1. /\ extToInt[e] \in Nat \ {0}
        /\ \E p \in DOMAIN log : log[p].ext = e /\ log[p].int = extToInt[e]
    BY <1>c, <1>6 DEF StopInDelete
  <2>2. r \in Record /\ r.op = "delete" /\ r.ext = e /\ r.int = extToInt[e]
    BY <2>1, NewDelete
  <2> HIDE DEF r
  <2>3. log' = Append(log, r)
    BY <1>6 DEF StopInDelete, r
  <2>4. IdsUnique'
    BY <1>a, <2>1, <2>2, <2>3, UniqueGrows
  <2> QED
    BY <1>6, <2>4, ConsistentDown DEF StopInDelete, Forget
<1>7. ASSUME Stop
      PROVE  Consistent'
  <2>1. log' = log \/ \E n \in 0 .. Len(log) : log' = SubSeq(log, 1, n)
    BY <1>7 DEF Stop
  <2>2. IdsUnique'
    BY <1>a, <2>1, UniqueShrinks
  <2> QED
    BY <1>7, <2>2, ConsistentDown DEF Stop, Forget
<1>8. ASSUME Close \/ LoadDone
      PROVE  Consistent'
  <2>1. UNCHANGED <<log, memory>>
    BY <1>8 DEF Close, LoadDone
  <2>2. phase' \in {"ready", "closed"}
    BY <1>8 DEF Close, LoadDone
  <2>3. Seen = DOMAIN log
    BY <1>a, <1>8 DEF Close, LoadDone, Seen, PhaseOK
  <2>4. Seen' = Seen
    BY <2>1, <2>2, <2>3 DEF Seen
  <2>5. PhaseOK'
    BY <2>2 DEF PhaseOK
  <2> QED
    BY <2>1, <2>4, <2>5, ConsistentStays
<1>9. ASSUME OpenCollection
      PROVE  Consistent'
  <2>1. UNCHANGED <<log, memory>> /\ phase = "down" /\ phase' = "loading"
        /\ cursor' = 0
    BY <1>9 DEF OpenCollection
  <2>2. Seen = {} /\ Seen' = {}
    BY <2>1 DEF Seen
  <2>3. PhaseOK'
    BY <1>a, <2>1 DEF PhaseOK
  <2> QED
    BY <2>1, <2>2, <2>3, ConsistentStays
<1>10. ASSUME Reload
       PROVE  Consistent'
  BY <1>10 DEF Reload, CleanFaults
<1>e. Replaying => DOMAIN index = DOMAIN intToExt
  BY <1>a DEF MapsAgree
<1>11. ASSUME ReplayCollides
       PROVE  Consistent'
  BY <1>e, <1>11, NextRecord DEF ReplayCollides, Collides
<1>f. ASSUME Replaying, phase' = phase, log' = log, cursor' = cursor + 1,
             Bump(record.int)
      PROVE  /\ Seen' = Seen \cup {cursor + 1}
             /\ IdsUnique' /\ CounterCoversLog' /\ PhaseOK'
  <2>1. phase = "loading" /\ cursor + 1 \in DOMAIN log
    BY <1>f, NextRecord
  <2>2. Seen' = Seen \cup {cursor + 1}
    BY <1>a, <1>f, <2>1 DEF Seen
  <2>3. IdsUnique'
    BY <1>a, <1>f DEF IdsUnique
  <2>4. CounterCoversLog'
    <3>1. idCounter <= idCounter' /\ record.int <= idCounter' /\ idCounter' \in Nat
      BY <1>a, <1>f, <2>1, SeenInserts DEF Bump, record
    <3>2. \A p \in Seen : log[p].int <= idCounter'
      BY <1>a, <3>1, SeenInserts DEF CounterCoversLog
    <3> QED
      BY <1>f, <2>2, <3>1, <3>2 DEF CounterCoversLog, record
  <2>5. PhaseOK'
    BY <1>a, <1>f, <2>1 DEF PhaseOK
  <2> QED
    BY <2>2, <2>3, <2>4, <2>5
<1>12. ASSUME ReplayInsert
       PROVE  Consistent'
  <2>1. /\ record.ext \notin DOMAIN extToInt /\ record.int \notin DOMAIN intToExt
        /\ record.op = "insert"
    BY <1>12, NextRecord DEF ReplayInsert
  <2>2. /\ Seen' = Seen \cup {cursor + 1}
        /\ IdsUnique' /\ CounterCoversLog' /\ PhaseOK'
    BY <1>12, <1>f DEF ReplayInsert
  <2>3. MapsAgree'
    BY <1>a, <1>12, <2>1, AgreePut DEF ReplayInsert
  <2>4. InsertSeen'
    <3>1. /\ DOMAIN extToInt' = DOMAIN extToInt \cup {record.ext}
          /\ extToInt'[record.ext] = record.int
          /\ \A x \in DOMAIN extToInt : extToInt'[x] = extToInt[x]
      BY <1>12, <2>1 DEF ReplayInsert, Put
    <3>2. log' = log
      BY <1>12 DEF ReplayInsert
    <3> QED
      BY <1>a, <2>1, <2>2, <3>1, <3>2 DEF InsertSeen, record
  <2> QED
    BY <2>2, <2>3, <2>4 DEF Consistent
<1>13. ASSUME ReplayDelete
       PROVE  Consistent'
  <2>1. \/ /\ record.ext \in DOMAIN extToInt
           /\ extToInt[record.ext] = record.int
        \/ /\ record.ext \notin DOMAIN extToInt
           /\ record.int \notin DOMAIN intToExt
    BY <1>13, NextRecord DEF ReplayDelete
  <2>2. /\ Seen' = Seen \cup {cursor + 1}
        /\ IdsUnique' /\ CounterCoversLog' /\ PhaseOK'
    BY <1>13, <1>f DEF ReplayDelete
  <2>3. MapsAgree'
    BY <1>a, <1>13, <2>1, AgreeDrop DEF ReplayDelete
  <2>4. InsertSeen'
    <3>1. /\ DOMAIN extToInt' \subseteq DOMAIN extToInt
          /\ \A x \in DOMAIN extToInt' : extToInt'[x] = extToInt[x]
      BY <1>13 DEF ReplayDelete, DropDocument, Drop
    <3>2. log' = log
      BY <1>13 DEF ReplayDelete
    <3> QED
      BY <1>a, <2>2, <3>1, <3>2 DEF InsertSeen
  <2> QED
    BY <2>2, <2>3, <2>4 DEF Consistent
<1>14. ASSUME UNCHANGED vars
       PROVE  Consistent'
  <2>1. UNCHANGED <<log, memory>> /\ UNCHANGED <<phase, cursor>>
    BY <1>14 DEF vars
  <2>2. UNCHANGED <<extToInt, intToExt, payload, index>>
    BY <2>1 DEF memory, maps
  <2>3. Seen' = Seen /\ PhaseOK'
    BY <1>a, <2>1, <2>2 DEF Seen, PhaseOK
  <2> QED
    BY <2>1, <2>3, ConsistentStays
<1> QED
  BY <1>1, <1>2, <1>3, <1>4, <1>5, <1>6, <1>7, <1>8, <1>9, <1>10, <1>11,
     <1>12, <1>13, <1>14 DEF Next, ClientStep, LoadStep

LEMMA ConsistentOpens == TypeInv /\ Consistent => OpenSucceeds
<1> SUFFICES ASSUME TypeInv, Consistent, phase = "loading", cursor < Len(log)
             PROVE  ~Collides(record)
  BY DEF OpenSucceeds
<1>1. Replaying
  BY DEF Replaying
<1>2. DOMAIN index = DOMAIN intToExt
  BY DEF Consistent, MapsAgree
<1> QED
  BY <1>1, <1>2, NextRecord DEF Collides

LEMMA ConsistentAlways ==
    ASSUME CleanFaults
    PROVE  Spec => [](TypeInv /\ Consistent)
<1>1. Init => TypeInv /\ Consistent
  BY TypeInit, ConsistentInit
<1>2. TypeInv /\ Consistent /\ [Next]_vars => (TypeInv /\ Consistent)'
  BY TypeStep, ConsistentStep
<1> QED
  BY <1>1, <1>2, PTL DEF Spec

(* The four theorems below are about a collection whose failing appends    *)
(* leave no record and whose LoadState runs once, and hold wherever the    *)
(* process stops and however much of the log's end it loses.               *)

(* The maps and the index name the same documents under the same ids       *)
(* after every step of Insert, Delete, Close and the replay.               *)
THEOREM MapsStayAgreed ==
    ASSUME CleanFaults
    PROVE  Spec => []MapsAgree
<1>1. TypeInv /\ Consistent => MapsAgree
  BY DEF Consistent
<1> QED
  BY <1>1, ConsistentAlways, PTL

(* The id counter has reached every id in the log that memory has seen, so *)
(* the next Insert draws an id that no record carries (collection.go:139). *)
THEOREM CounterStaysAhead ==
    ASSUME CleanFaults
    PROVE  Spec => []CounterCoversLog
<1>1. TypeInv /\ Consistent => CounterCoversLog
  BY DEF Consistent
<1> QED
  BY <1>1, ConsistentAlways, PTL

(* Over the whole life of the log, across restarts, an internal id belongs *)
(* to one document and a document is inserted once.                        *)
THEOREM IdsStayUnique ==
    ASSUME CleanFaults
    PROVE  Spec => []IdsUnique
<1>1. TypeInv /\ Consistent => IdsUnique
  BY DEF Consistent
<1> QED
  BY <1>1, ConsistentAlways, PTL

(* LoadState never finds an insert of an id it has already replayed, which *)
(* is its one way to fail on a log that Recover returns (recovery.go:53).  *)
THEOREM ReplaySucceeds ==
    ASSUME CleanFaults
    PROVE  Spec => []OpenSucceeds
<1>1. TypeInv /\ Consistent => OpenSucceeds
  BY ConsistentOpens
<1> QED
  BY <1>1, ConsistentAlways, PTL

-----------------------------------------------------------------------------
(* What a log says                                                         *)

(* The inserts among the first n records that none of these deletes.       *)
Live(s, n) ==
    {p \in 1 .. n : /\ s[p].op = "insert"
                    /\ \A q \in p + 1 .. n :
                          s[q].op = "delete" => s[q].int # s[p].int}

(* Memory with these maps serves what the first n records of s say.        *)
Serves(s, n, ext, ind, pay) ==
    /\ DOMAIN ext = {s[p].ext : p \in Live(s, n)}
    /\ \A p \in Live(s, n) : /\ ext[s[p].ext] = s[p].int
                             /\ ind[s[p].int] = Unit(s[p].raw)
                             /\ Plain(pay[s[p].ext]) = s[p].meta

LEMMA LiveNone == \A s : Live(s, 0) = {}
BY DEF Live

(* An insert is live from its record on, a delete ends the life of those   *)
(* with its internal id; records before n + 1 are what they were.          *)
LEMMA LiveInsert ==
    ASSUME NEW s, NEW t, NEW n \in Nat, \A p \in 1 .. n : t[p] = s[p],
           t[n + 1].op = "insert"
    PROVE  Live(t, n + 1) = Live(s, n) \cup {n + 1}
<1>1. ASSUME NEW p \in Live(t, n + 1), p # n + 1
      PROVE  p \in Live(s, n)
  BY <1>1 DEF Live
<1>2. ASSUME NEW p \in Live(s, n)
      PROVE  p \in Live(t, n + 1)
  <2>1. /\ p \in 1 .. n /\ t[p] = s[p] /\ s[p].op = "insert"
        /\ \A q \in p + 1 .. n : s[q].op = "delete" => s[q].int # s[p].int
    BY <1>2 DEF Live
  <2>2. ASSUME NEW q \in p + 1 .. n + 1, t[q].op = "delete"
        PROVE  t[q].int # t[p].int
    <3>1. q \in p + 1 .. n /\ t[q] = s[q]
      BY <2>1, <2>2
    <3>. QED
      BY <2>1, <2>2, <3>1
  <2>. QED
    BY <2>1, <2>2 DEF Live
<1>3. n + 1 \in Live(t, n + 1)
  BY DEF Live
<1>. QED
  BY <1>1, <1>2, <1>3

LEMMA LiveDelete ==
    ASSUME NEW s, NEW t, NEW n \in Nat, \A p \in 1 .. n : t[p] = s[p],
           t[n + 1].op = "delete"
    PROVE  Live(t, n + 1) = {p \in Live(s, n) : s[p].int # t[n + 1].int}
<1>1. ASSUME NEW p \in Live(t, n + 1)
      PROVE  p \in Live(s, n) /\ s[p].int # t[n + 1].int
  <2>1. p \in 1 .. n + 1 /\ t[p].op = "insert"
        /\ \A q \in p + 1 .. n + 1 : t[q].op = "delete" => t[q].int # t[p].int
    BY <1>1 DEF Live
  <2>2. p \in 1 .. n /\ t[p] = s[p]
    BY <2>1
  <2>3. t[n + 1].int # s[p].int
    BY <2>1, <2>2
  <2>4. \A q \in p + 1 .. n : s[q].op = "delete" => s[q].int # s[p].int
    BY <2>1, <2>2
  <2>. QED
    BY <2>1, <2>2, <2>3, <2>4 DEF Live
<1>2. ASSUME NEW p \in Live(s, n), s[p].int # t[n + 1].int
      PROVE  p \in Live(t, n + 1)
  <2>1. /\ p \in 1 .. n /\ t[p] = s[p] /\ s[p].op = "insert"
        /\ \A q \in p + 1 .. n : s[q].op = "delete" => s[q].int # s[p].int
    BY <1>2 DEF Live
  <2>2. ASSUME NEW q \in p + 1 .. n + 1, t[q].op = "delete"
        PROVE  t[q].int # t[p].int
    <3>1. CASE q = n + 1
      BY <1>2, <2>1, <3>1
    <3>2. CASE q # n + 1
      <4>1. q \in p + 1 .. n /\ t[q] = s[q]
        BY <2>1, <3>2
      <4>. QED
        BY <2>1, <2>2, <4>1
    <3>. QED
      BY <3>1, <3>2
  <2>. QED
    BY <2>1, <2>2 DEF Live
<1>. QED
  BY <1>1, <1>2

-----------------------------------------------------------------------------
(* What the maps do                                                        *)

(* The maps of a memory: what is served has a payload and a vector.        *)
Covered(ext, ind, pay) ==
    \A x \in DOMAIN ext : x \in DOMAIN pay /\ ext[x] \in DOMAIN ind

LEMMA PutServes ==
    ASSUME NEW s, NEW t, NEW n \in Nat, NEW ext, NEW ind, NEW pay, NEW w,
           Serves(s, n, ext, ind, pay), Covered(ext, ind, pay),
           \A p \in 1 .. n : t[p] = s[p], t[n + 1].op = "insert",
           t[n + 1].ext \notin DOMAIN ext, t[n + 1].int \notin DOMAIN ind,
           Plain(w) = t[n + 1].meta
    PROVE  Serves(t, n + 1, Put(ext, t[n + 1].ext, t[n + 1].int),
                  Put(ind, t[n + 1].int, Unit(t[n + 1].raw)),
                  Put(pay, t[n + 1].ext, w))
<1> DEFINE r == t[n + 1]
           ext2 == Put(ext, r.ext, r.int)
           ind2 == Put(ind, r.int, Unit(r.raw))
           pay2 == Put(pay, r.ext, w)
<1>1. Live(t, n + 1) = Live(s, n) \cup {n + 1}
  BY LiveInsert
<1>2. \A p \in Live(s, n) : t[p] = s[p] /\ s[p].ext \in DOMAIN ext
  BY DEF Live, Serves
<1>3. DOMAIN ext2 = DOMAIN ext \cup {r.ext}
  BY DEF Put
<1>4. /\ ext2[r.ext] = r.int /\ ind2[r.int] = Unit(r.raw) /\ pay2[r.ext] = w
  BY DEF Put
<1>5. ASSUME NEW p \in Live(s, n)
      PROVE  /\ ext2[s[p].ext] = ext[s[p].ext]
             /\ ind2[s[p].int] = ind[s[p].int]
             /\ pay2[s[p].ext] = pay[s[p].ext]
  <2>1. /\ s[p].ext \in DOMAIN ext /\ s[p].ext \in DOMAIN pay
        /\ s[p].int \in DOMAIN ind
    BY <1>2, <1>5 DEF Serves, Covered
  <2>2. s[p].ext # r.ext /\ s[p].int # r.int
    BY <2>1
  <2>. QED
    BY <2>1, <2>2 DEF Put
<1>6. {t[p].ext : p \in Live(t, n + 1)} = {s[p].ext : p \in Live(s, n)} \cup {r.ext}
  BY <1>1, <1>2
<1>7. DOMAIN ext2 = {t[p].ext : p \in Live(t, n + 1)}
  BY <1>3, <1>6 DEF Serves
<1>8. ASSUME NEW p \in Live(t, n + 1)
      PROVE  /\ ext2[t[p].ext] = t[p].int
             /\ ind2[t[p].int] = Unit(t[p].raw)
             /\ Plain(pay2[t[p].ext]) = t[p].meta
  <2> HIDE DEF ext2, ind2, pay2
  <2>1. CASE p = n + 1
    BY <1>4, <2>1
  <2>2. CASE p \in Live(s, n)
    BY <1>2, <1>5, <2>2 DEF Serves
  <2>. QED
    BY <1>1, <2>1, <2>2
<1> HIDE DEF ext2, ind2, pay2
<1>9. Serves(t, n + 1, ext2, ind2, pay2)
  BY <1>7, <1>8 DEF Serves
<1>. QED
  BY <1>9 DEF ext2, ind2, pay2

(* The record of a delete names an id and its internal id, or neither is   *)
(* in memory.                                                              *)
LEMMA DropServes ==
    ASSUME NEW s, NEW t, NEW n \in Nat, NEW ext, NEW ind, NEW pay,
           Serves(s, n, ext, ind, pay), Covered(ext, ind, pay),
           \A p \in 1 .. n : t[p] = s[p], t[n + 1].op = "delete",
           \A x \in DOMAIN ext : ext[x] = t[n + 1].int <=> x = t[n + 1].ext
    PROVE  Serves(t, n + 1, Drop(ext, t[n + 1].ext), Drop(ind, t[n + 1].int),
                  Drop(pay, t[n + 1].ext))
<1> DEFINE r == t[n + 1]
           ext2 == Drop(ext, r.ext)
           ind2 == Drop(ind, r.int)
           pay2 == Drop(pay, r.ext)
<1>1. Live(t, n + 1) = {p \in Live(s, n) : s[p].int # r.int}
  BY LiveDelete
<1>2. \A p \in Live(s, n) : /\ t[p] = s[p] /\ s[p].ext \in DOMAIN ext
                            /\ s[p].int # r.int <=> s[p].ext # r.ext
  BY DEF Live, Serves
<1>3. ASSUME NEW p \in Live(s, n), s[p].int # r.int
      PROVE  /\ ext2[s[p].ext] = ext[s[p].ext]
             /\ ind2[s[p].int] = ind[s[p].int]
             /\ pay2[s[p].ext] = pay[s[p].ext]
  <2>1. /\ s[p].ext \in DOMAIN ext /\ s[p].ext \in DOMAIN pay
        /\ s[p].int \in DOMAIN ind /\ s[p].ext # r.ext
    BY <1>2, <1>3 DEF Serves, Covered
  <2>. QED
    BY <1>3, <2>1 DEF Drop
<1>4. DOMAIN ext2 = DOMAIN ext \ {r.ext}
  BY DEF Drop
<1> HIDE DEF r, ext2, ind2, pay2
<1>5. {t[p].ext : p \in Live(t, n + 1)} = {s[p].ext : p \in Live(s, n)} \ {r.ext}
  BY <1>1, <1>2
<1>6. DOMAIN ext2 = {t[p].ext : p \in Live(t, n + 1)}
  BY <1>4, <1>5 DEF Serves
<1>7. ASSUME NEW p \in Live(t, n + 1)
      PROVE  /\ ext2[t[p].ext] = t[p].int
             /\ ind2[t[p].int] = Unit(t[p].raw)
             /\ Plain(pay2[t[p].ext]) = t[p].meta
  BY <1>1, <1>2, <1>3 DEF Serves
<1>8. Serves(t, n + 1, ext2, ind2, pay2)
  BY <1>6, <1>7 DEF Serves
<1>. QED
  BY <1>8 DEF r, ext2, ind2, pay2

-----------------------------------------------------------------------------
(* Memory serves what it has seen of the log                               *)

(* The records of the log that memory has seen.                            *)
Depth == IF phase = "loading" THEN cursor
         ELSE IF phase \in {"ready", "closed"} THEN Len(log) ELSE 0

ServesSeen == Serves(log, Depth, extToInt, index, payload)

StoreInv == TypeInv /\ Consistent /\ ServesSeen

LEMMA CoveredNow == Consistent => Covered(extToInt, index, payload)
BY DEF Consistent, MapsAgree, Covered

LEMMA PlainPayload ==
    /\ \A i \in Items : Plain(i) = JSON(i)
    /\ \A m \in {JSON(i) : i \in Items} : Plain(m) = m
BY ItemAssumption DEF Plain

LEMMA ServesNothing ==
    ASSUME NEW s, NEW ext, NEW ind, NEW pay, DOMAIN ext = {}
    PROVE  Serves(s, 0, ext, ind, pay)
BY LiveNone DEF Serves

LEMMA ServesInit == Init => ServesSeen
<1>1. Init => DOMAIN extToInt = {} /\ Depth = 0
  BY DEF Init, Empty, Depth
<1>. QED
  BY <1>1, ServesNothing DEF ServesSeen

LEMMA ServesStep ==
    ASSUME CleanFaults, StoreInv, [Next]_vars
    PROVE  ServesSeen'
<1>a. /\ TypeInv /\ Consistent /\ ServesSeen
      /\ log \in Seq(Record) /\ cursor \in Nat /\ Len(log) \in Nat
      /\ Covered(extToInt, index, payload)
  BY CoveredNow DEF StoreInv, TypeInv, ValueTypes
<1>b. internalID \in Nat \ {0}
  BY <1>a, Next_internalID
<1>c. ASSUME NEW e \in DOMAIN extToInt
      PROVE  e \in ExternalIDs /\ extToInt[e] \in Nat \ {0}
  BY <1>a, <1>c DEF TypeInv, MapTypes, IsMap
<1>d. ASSUME NEW r, Faulty(r)
      PROVE  log' = log
  BY <1>d DEF Faulty, CleanFaults
<1>e. ASSUME phase' = "down", extToInt' = Empty
      PROVE  ServesSeen'
  <2>1. Depth' = 0 /\ DOMAIN extToInt' = {}
    BY <1>e, EmptyMap DEF Depth
  <2>. QED
    BY <2>1, ServesNothing DEF ServesSeen
<1>f. ASSUME UNCHANGED <<log, memory>>, Depth' = Depth
      PROVE  ServesSeen'
  BY <1>a, <1>f DEF ServesSeen, memory, maps
<1>g. ASSUME NEW e \in DOMAIN extToInt, NEW i, extToInt[e] = i
      PROVE  \A x \in DOMAIN extToInt : extToInt[x] = i <=> x = e
  BY <1>a, <1>g DEF Consistent, MapsAgree
<1>h. ASSUME phase = "ready", phase' = "ready", NEW r \in Record,
             log' = Append(log, r)
      PROVE  /\ Depth = Len(log) /\ Depth' = Len(log) + 1
             /\ log'[Len(log) + 1] = r
             /\ \A p \in 1 .. Len(log) : log'[p] = log[p]
  BY <1>a, <1>h DEF Depth
<1>1. ASSUME NEW e \in ExternalIDs, NEW item \in Items, InsertOK(e, item)
      PROVE  ServesSeen'
  <2> DEFINE r == InsertRecord(e, internalID, item)
             n == Len(log)
  <2>1. /\ r \in Record /\ r.op = "insert" /\ r.ext = e /\ r.int = internalID
        /\ r.raw = item /\ r.meta = JSON(item)
    BY <1>b, NewRecord DEF InsertRecord
  <2> HIDE DEF r
  <2>2. phase = "ready" /\ phase' = "ready" /\ e \notin used /\ log' = Append(log, r)
    BY <1>1 DEF InsertOK, Draw, r
  <2>3. /\ Depth = n /\ Depth' = n + 1 /\ log'[n + 1] = r
        /\ \A p \in 1 .. n : log'[p] = log[p]
    BY <1>h, <2>1, <2>2
  <2>4. e \notin DOMAIN extToInt /\ internalID \notin DOMAIN index
    BY <1>a, <2>2, FreshInternalID, FreshExternalID
  <2>5. n \in Nat /\ Serves(log, n, extToInt, index, payload)
    BY <1>a, <2>3 DEF ServesSeen
  <2> HIDE DEF n
  <2>6. Serves(log', n + 1, Put(extToInt, e, internalID),
               Put(index, internalID, Unit(item)), Put(payload, e, item))
    <3> DEFINE t == log'
    <3>1. /\ \A p \in 1 .. n : t[p] = log[p]
          /\ t[n + 1] = r
      BY <2>3
    <3> HIDE DEF t
    <3>2. Plain(item) = t[n + 1].meta
      BY <2>1, <3>1, PlainPayload
    <3>3. Serves(t, n + 1, Put(extToInt, t[n + 1].ext, t[n + 1].int),
                 Put(index, t[n + 1].int, Unit(t[n + 1].raw)),
                 Put(payload, t[n + 1].ext, item))
      BY <1>a, <2>1, <2>4, <2>5, <3>1, <3>2, PutServes
    <3>. QED
      BY <2>1, <3>1, <3>3 DEF t
  <2>. QED
    BY <1>1, <2>3, <2>6 DEF InsertOK, ServesSeen
<1>2. ASSUME NEW e \in ExternalIDs,
             \/ \E item \in Items : InsertFails(e, item)
             \/ InsertClosed(e) \/ DeleteFails(e)
      PROVE  ServesSeen'
  <2>1. UNCHANGED <<log, memory>> /\ UNCHANGED <<phase, cursor>>
    BY <1>2, <1>d DEF InsertFails, InsertClosed, DeleteFails
  <2>. QED
    BY <1>f, <2>1 DEF Depth
<1>3. ASSUME NEW e \in ExternalIDs, NEW item \in Items,
             InsertCompensated(e, item)
      PROVE  FALSE
  BY <1>3, <1>a, FreshInternalID DEF InsertCompensated
<1>4. ASSUME NEW e \in ExternalIDs, DeleteOK(e)
      PROVE  ServesSeen'
  <2> DEFINE r == DeleteRecord(e, extToInt[e])
             n == Len(log)
  <2>1. r \in Record /\ r.op = "delete" /\ r.ext = e /\ r.int = extToInt[e]
    BY <1>4, <1>c, NewDelete DEF DeleteOK
  <2> HIDE DEF r
  <2>2. phase = "ready" /\ phase' = "ready" /\ log' = Append(log, r)
    BY <1>4 DEF DeleteOK, r
  <2>3. /\ Depth = n /\ Depth' = n + 1 /\ log'[n + 1] = r
        /\ \A p \in 1 .. n : log'[p] = log[p]
    BY <1>h, <2>1, <2>2
  <2>4. \A x \in DOMAIN extToInt : extToInt[x] = r.int <=> x = r.ext
    BY <1>4, <1>g, <2>1 DEF DeleteOK
  <2>5. n \in Nat /\ Serves(log, n, extToInt, index, payload)
    BY <1>a, <2>3 DEF ServesSeen
  <2> HIDE DEF n
  <2>6. Serves(log', n + 1, Drop(extToInt, e), Drop(index, extToInt[e]),
               Drop(payload, e))
    <3> DEFINE t == log'
    <3>1. /\ \A p \in 1 .. n : t[p] = log[p]
          /\ t[n + 1] = r
      BY <2>3
    <3> HIDE DEF t
    <3>2. Serves(t, n + 1, Drop(extToInt, t[n + 1].ext),
                 Drop(index, t[n + 1].int), Drop(payload, t[n + 1].ext))
      BY <1>a, <2>1, <2>4, <2>5, <3>1, DropServes
    <3>. QED
      BY <2>1, <3>1, <3>2 DEF t
  <2>. QED
    BY <1>4, <2>3, <2>6 DEF DeleteOK, DropDocument, ServesSeen
<1>5. ASSUME \/ \E e \in ExternalIDs : \/ \E item \in Items : StopInInsert(e, item)
                                       \/ StopInDelete(e)
             \/ Stop
      PROVE  ServesSeen'
  <2>1. Forget
    BY <1>5 DEF StopInInsert, StopInDelete, Stop
  <2>. QED
    BY <1>e, <2>1 DEF Forget
<1>6. ASSUME Close \/ LoadDone \/ OpenCollection \/ UNCHANGED vars
      PROVE  ServesSeen'
  <2>1. UNCHANGED <<log, memory>>
    BY <1>6 DEF Close, LoadDone, OpenCollection, vars
  <2>2. Depth' = Depth
    BY <1>a, <1>6
       DEF Close, LoadDone, OpenCollection, vars, Depth, Consistent, PhaseOK
  <2>. QED
    BY <1>f, <2>1, <2>2
<1>7. ASSUME Reload
      PROVE  FALSE
  BY <1>7 DEF Reload, CleanFaults
<1>8. ASSUME ReplayCollides
      PROVE  FALSE
  <2>1. DOMAIN index = DOMAIN intToExt
    BY <1>a DEF Consistent, MapsAgree
  <2>. QED
    BY <1>8, <1>a, <2>1, NextRecord DEF ReplayCollides, Collides
<1>i. ASSUME Replaying, phase' = phase, cursor' = cursor + 1
      PROVE  /\ Depth = cursor /\ Depth' = cursor + 1
             /\ Serves(log, cursor, extToInt, index, payload)
  <2>1. phase = "loading"
    BY <1>i, <1>a, NextRecord
  <2>. QED
    BY <1>i, <1>a, <2>1 DEF Depth, ServesSeen
<1>9. ASSUME ReplayInsert
      PROVE  ServesSeen'
  <2>1. /\ Depth = cursor /\ Depth' = cursor + 1 /\ log' = log
        /\ Serves(log, cursor, extToInt, index, payload)
    BY <1>9, <1>i DEF ReplayInsert
  <2>2. /\ record.op = "insert" /\ record.int \notin DOMAIN index
        /\ record.ext \notin DOMAIN extToInt /\ cursor + 1 \in DOMAIN log
    BY <1>9, <1>a, NextRecord DEF ReplayInsert, Collides
  <2>3. Plain(record.meta) = record.meta
    BY <1>a, <2>2, RecordFields, PlainPayload DEF record
  <2>4. Serves(log, cursor + 1, Put(extToInt, record.ext, record.int),
               Put(index, record.int, Unit(record.raw)),
               Put(payload, record.ext, record.meta))
    BY <1>a, <2>1, <2>2, <2>3, PutServes DEF record
  <2>. QED
    BY <1>9, <2>1, <2>4 DEF ReplayInsert, ServesSeen
<1>10. ASSUME ReplayDelete
       PROVE  ServesSeen'
  <2>1. /\ Depth = cursor /\ Depth' = cursor + 1 /\ log' = log
        /\ Serves(log, cursor, extToInt, index, payload)
    BY <1>10, <1>i DEF ReplayDelete
  <2>2. /\ record.op = "delete"
        /\ \A x \in DOMAIN extToInt :
              extToInt[x] = record.int <=> x = record.ext
    <3>1. CASE /\ record.ext \in DOMAIN extToInt
               /\ extToInt[record.ext] = record.int
      BY <1>10, <1>g, <3>1 DEF ReplayDelete
    <3>2. CASE /\ record.ext \notin DOMAIN extToInt
               /\ record.int \notin DOMAIN intToExt
      BY <1>10, <1>a, <3>2 DEF ReplayDelete, Consistent, MapsAgree
    <3>. QED
      BY <1>10, <1>a, <3>1, <3>2, NextRecord DEF ReplayDelete
  <2>3. Serves(log, cursor + 1, Drop(extToInt, record.ext),
               Drop(index, record.int), Drop(payload, record.ext))
    BY <1>a, <2>1, <2>2, DropServes DEF record
  <2>. QED
    BY <1>10, <2>1, <2>3 DEF ReplayDelete, DropDocument, ServesSeen
<1>. QED
  BY <1>1, <1>2, <1>3, <1>4, <1>5, <1>6, <1>7, <1>8, <1>9, <1>10
     DEF Next, ClientStep, LoadStep

-----------------------------------------------------------------------------
(* The documents as a function of the log                                  *)

Entry(r) == [vector |-> Unit(r.raw), payload |-> r.meta]

LiveIds(s) == {s[p].ext : p \in Live(s, Len(s))}

(* The documents of a log: the entry of the live insert of each id.        *)
Documents(s) ==
    [e \in LiveIds(s) |->
        Entry(s[CHOOSE p \in Live(s, Len(s)) : s[p].ext = e])]

(* No id has two live inserts.                                             *)
OneEach(s) ==
    \A p, q \in Live(s, Len(s)) : s[p].ext = s[q].ext => p = q

LEMMA DocumentsAre ==
    ASSUME NEW s, OneEach(s)
    PROVE  /\ DOMAIN Documents(s) = LiveIds(s)
           /\ \A p \in Live(s, Len(s)) :
                 s[p].ext \in LiveIds(s) /\ Documents(s)[s[p].ext] = Entry(s[p])
<1>1. ASSUME NEW p \in Live(s, Len(s))
      PROVE  s[p].ext \in LiveIds(s) /\ Documents(s)[s[p].ext] = Entry(s[p])
  <2> DEFINE c == CHOOSE q \in Live(s, Len(s)) : s[q].ext = s[p].ext
  <2>1. c \in Live(s, Len(s)) /\ s[c].ext = s[p].ext
    BY <1>1
  <2>2. c = p
    BY <1>1, <2>1 DEF OneEach
  <2>. QED
    BY <1>1, <2>2 DEF Documents, LiveIds
<1>. QED
  BY <1>1 DEF Documents

(* A map is the documents when it has their ids and their entries.         *)
LEMMA DocumentsUnique ==
    ASSUME NEW s, OneEach(s), NEW f, f = [e \in DOMAIN f |-> f[e]],
           DOMAIN f = LiveIds(s),
           \A p \in Live(s, Len(s)) : f[s[p].ext] = Entry(s[p])
    PROVE  f = Documents(s)
<1>1. ASSUME NEW e \in LiveIds(s)
      PROVE  f[e] = Documents(s)[e]
  <2>1. PICK p \in Live(s, Len(s)) : s[p].ext = e
    BY <1>1 DEF LiveIds
  <2>. QED
    BY <2>1, DocumentsAre
<1>2. Documents(s) = [e \in LiveIds(s) |-> Documents(s)[e]]
  BY DEF Documents
<1>. QED
  BY <1>1, <1>2

LEMMA DocumentsInsert ==
    ASSUME NEW s \in Seq(Record), NEW r \in Record, r.op = "insert",
           OneEach(s), OneEach(Append(s, r)), r.ext \notin LiveIds(s)
    PROVE  Documents(Append(s, r)) =
              [x \in DOMAIN Documents(s) \cup {r.ext} |->
                  IF x = r.ext THEN Entry(r) ELSE Documents(s)[x]]
<1> DEFINE t == Append(s, r)
           n == Len(s)
<1>1. /\ n \in Nat /\ Len(t) = n + 1 /\ t[n + 1] = r
      /\ \A p \in 1 .. n : t[p] = s[p]
  OBVIOUS
<1> HIDE DEF t
<1> HIDE DEF n
<1>2. Live(t, Len(t)) = Live(s, n) \cup {n + 1}
  <2>1. t[n + 1].op = "insert"
    BY <1>1
  <2>2. Live(t, n + 1) = Live(s, n) \cup {n + 1}
    BY <1>1, <2>1, LiveInsert
  <2>. QED
    BY <1>1, <2>2
<1>3. \A p \in Live(s, n) : t[p] = s[p] /\ s[p].ext # r.ext
  BY <1>1 DEF Live, LiveIds, n
<1>4. /\ DOMAIN Documents(s) = {s[p].ext : p \in Live(s, n)}
      /\ \A p \in Live(s, n) : /\ s[p].ext \in DOMAIN Documents(s)
                               /\ Documents(s)[s[p].ext] = Entry(s[p])
  BY DocumentsAre DEF LiveIds, n
<1> DEFINE f == [x \in DOMAIN Documents(s) \cup {r.ext} |->
                  IF x = r.ext THEN Entry(r) ELSE Documents(s)[x]]
<1>5. DOMAIN f = LiveIds(t)
  BY <1>1, <1>2, <1>3, <1>4 DEF LiveIds
<1>6. \A p \in Live(t, Len(t)) : f[t[p].ext] = Entry(t[p])
  BY <1>1, <1>2, <1>3, <1>4
<1>7. f = [e \in DOMAIN f |-> f[e]]
  OBVIOUS
<1> HIDE DEF f
<1>8. f = Documents(t)
  BY <1>5, <1>6, <1>7, DocumentsUnique DEF t
<1>. QED
  BY <1>8 DEF t, f

LEMMA DocumentsDelete ==
    ASSUME NEW s \in Seq(Record), NEW r \in Record, r.op = "delete",
           OneEach(s), OneEach(Append(s, r)),
           \A p \in Live(s, Len(s)) : s[p].int = r.int <=> s[p].ext = r.ext
    PROVE  Documents(Append(s, r)) =
              [x \in DOMAIN Documents(s) \ {r.ext} |-> Documents(s)[x]]
<1> DEFINE t == Append(s, r)
           n == Len(s)
<1>1. /\ n \in Nat /\ Len(t) = n + 1 /\ t[n + 1] = r
      /\ \A p \in 1 .. n : t[p] = s[p]
  OBVIOUS
<1> HIDE DEF t
<1>2. Live(t, Len(t)) = {p \in Live(s, n) : s[p].int # r.int}
  BY <1>1, LiveDelete
<1>3. \A p \in Live(s, n) : /\ t[p] = s[p]
                            /\ s[p].int # r.int <=> s[p].ext # r.ext
  BY <1>1 DEF Live
<1> HIDE DEF n
<1>4. /\ DOMAIN Documents(s) = {s[p].ext : p \in Live(s, n)}
      /\ \A p \in Live(s, n) : /\ s[p].ext \in DOMAIN Documents(s)
                               /\ Documents(s)[s[p].ext] = Entry(s[p])
  BY DocumentsAre DEF LiveIds, n
<1> DEFINE f == [x \in DOMAIN Documents(s) \ {r.ext} |-> Documents(s)[x]]
<1>5. DOMAIN f = LiveIds(t)
  BY <1>2, <1>3, <1>4 DEF LiveIds
<1>6. \A p \in Live(t, Len(t)) : f[t[p].ext] = Entry(t[p])
  BY <1>2, <1>3, <1>4
<1>7. f = [e \in DOMAIN f |-> f[e]]
  OBVIOUS
<1> HIDE DEF f
<1>8. f = Documents(t)
  BY <1>5, <1>6, <1>7, DocumentsUnique DEF t
<1>. QED
  BY <1>8 DEF t, f

(* The module's own Logged and Served are these documents.                 *)
LEMMA OneEachNow == IdsUnique /\ log \in Seq(Record) => OneEach(log)
BY DEF IdsUnique, OneEach, Live

LEMMA LoggedDocuments == log \in Seq(Record) => Logged = Documents(log)
<1> SUFFICES ASSUME log \in Seq(Record) PROVE Logged = Documents(log)
  OBVIOUS
<1>1. LivePositions = Live(log, Len(log))
  BY DEF LivePositions, Live
<1>. QED
  BY <1>1 DEF Logged, Documents, LiveIds, Entry

LEMMA ServedDocuments ==
    ASSUME StoreInv, phase \in {"ready", "closed"}
    PROVE  Served = Documents(log)
<1>1. /\ OneEach(log) /\ Serves(log, Len(log), extToInt, index, payload)
  BY OneEachNow DEF StoreInv, TypeInv, Consistent, ServesSeen, Depth
<1> DEFINE f == [e \in DOMAIN extToInt |->
                    [vector  |-> index[extToInt[e]], payload |-> Plain(payload[e])]]
<1>2. DOMAIN extToInt = LiveIds(log)
  BY <1>1 DEF Serves, LiveIds
<1>3. \A p \in Live(log, Len(log)) : f[log[p].ext] = Entry(log[p])
  BY <1>1 DEF Serves, Entry
<1>4. f = [e \in DOMAIN f |-> f[e]] /\ DOMAIN f = LiveIds(log)
  BY <1>2
<1> HIDE DEF f
<1>5. f = Documents(log)
  BY <1>1, <1>3, <1>4, DocumentsUnique
<1>. QED
  BY <1>5 DEF Served, f

(* What the refinement maps the store's documents to.                      *)
docs == IF phase \in {"ready", "closed"} THEN Served ELSE Logged

LEMMA DocsAre == StoreInv => docs = Documents(log)
BY LoggedDocuments, ServedDocuments DEF docs, StoreInv, TypeInv

-----------------------------------------------------------------------------
(* The refinement                                                          *)

LEMMA StoreInit == Init => StoreInv /\ Store!Init
<1> SUFFICES ASSUME Init PROVE StoreInv /\ Store!Init
  OBVIOUS
<1>1. StoreInv
  BY TypeInit, ConsistentInit, ServesInit DEF StoreInv
<1>2. log = <<>> /\ used = {} /\ phase = "down"
  BY DEF Init
<1>3. LivePositions = {}
  BY <1>2 DEF LivePositions
<1>4. Logged = [x \in {} |-> {}]
  BY <1>3 DEF Logged
<1>. QED
  BY <1>1, <1>2, <1>4 DEF Store!Init

LEMMA StoreInvStep ==
    ASSUME CleanFaults, StoreInv, [Next]_vars
    PROVE  StoreInv'
BY TypeStep, ConsistentStep, ServesStep DEF StoreInv

(* What a step does to the documents is what it does to the log.           *)
LEMMA DocsNow ==
    StoreInv => /\ docs = Documents(log) /\ OneEach(log)
                /\ log \in Seq(Record)
BY DocsAre, OneEachNow DEF StoreInv, TypeInv, Consistent

LEMMA DocsStep ==
    ASSUME StoreInv, StoreInv'
    PROVE  /\ docs = Documents(log) /\ docs' = Documents(log')
           /\ OneEach(log) /\ OneEach(log')
           /\ log \in Seq(Record)
<1>1. (docs = Documents(log) /\ OneEach(log) /\ log \in Seq(Record))'
  BY DocsNow, PTL
<1>. QED
  BY <1>1, DocsNow

LEMMA InsertMaps ==
    ASSUME StoreInv, StoreInv', NEW e \in ExternalIDs, NEW item \in Items,
           Draw(e), log' = Append(log, InsertRecord(e, internalID, item))
    PROVE  Store!Insert(e, Document(item))
<1> DEFINE r == InsertRecord(e, internalID, item)
<1>1. r \in Record /\ r.op = "insert" /\ r.ext = e
  BY Next_internalID, NewRecord DEF StoreInv
<1>2. Entry(r) = Document(item)
  BY DEF InsertRecord, Entry, Document
<1> HIDE DEF r
<1>3. log' = Append(log, r) /\ e \notin used /\ used' = used \cup {e}
  BY DEF r, Draw
<1>4. \A p \in DOMAIN log : log[p].ext # e
  BY <1>3, FreshExternalID DEF StoreInv
<1>5. e \notin LiveIds(log)
  BY <1>4, DocsStep DEF LiveIds, Live
<1>6. docs' = [x \in DOMAIN docs \cup {e} |->
                  IF x = e THEN Document(item) ELSE docs[x]]
  <2>1. Documents(Append(log, r)) =
           [x \in DOMAIN Documents(log) \cup {r.ext} |->
               IF x = r.ext THEN Entry(r) ELSE Documents(log)[x]]
    BY <1>1, <1>3, <1>5, DocsStep, DocumentsInsert
  <2>. QED
    BY <1>1, <1>2, <1>3, <2>1, DocsStep
<1>. QED
  BY <1>3, <1>6 DEF Store!Insert, Store!With, docs

LEMMA DeleteMaps ==
    ASSUME StoreInv, StoreInv', NEW e \in ExternalIDs, phase = "ready",
           e \in DOMAIN extToInt, used' = used,
           log' = Append(log, DeleteRecord(e, extToInt[e]))
    PROVE  Store!Delete(e)
<1> DEFINE r == DeleteRecord(e, extToInt[e])
<1>1. r \in Record /\ r.op = "delete" /\ r.ext = e /\ r.int = extToInt[e]
  BY NewDelete DEF StoreInv, TypeInv, MapTypes, IsMap
<1> HIDE DEF r
<1>2. log' = Append(log, r)
  BY DEF r
<1>3. PICK p \in Seen : log[p].ext = e /\ log[p].int = extToInt[e]
  BY DEF StoreInv, Consistent, InsertSeen
<1>4. p \in DOMAIN log
  BY SeenInserts DEF StoreInv
<1>5. \A q \in Live(log, Len(log)) : log[q].int = r.int <=> log[q].ext = r.ext
  <2>1. \A q \in DOMAIN log : log[q].int = r.int <=> log[q].ext = r.ext
    BY <1>1, <1>3, <1>4 DEF StoreInv, Consistent, IdsUnique
  <2>. QED
    BY <2>1, DocsStep DEF Live
<1>6. docs' = [x \in DOMAIN docs \ {e} |-> docs[x]]
  <2>1. docs' = Documents(Append(log, r)) /\ docs = Documents(log)
    BY <1>2, DocsStep
  <2>2. OneEach(log) /\ OneEach(Append(log, r)) /\ log \in Seq(Record)
    BY <1>2, DocsStep
  <2>3. Documents(Append(log, r)) =
           [x \in DOMAIN Documents(log) \ {r.ext} |-> Documents(log)[x]]
    BY <1>1, <1>5, <2>2, DocumentsDelete
  <2>. QED
    BY <1>1, <2>1, <2>3
<1>7. e \in DOMAIN docs
  BY DEF docs, Served
<1>. QED
  BY <1>6, <1>7 DEF Store!Delete, Store!Without, docs

LEMMA StoreStep ==
    ASSUME CleanFaults, ~LossyStop, StoreInv, [Next]_vars
    PROVE  [Store!Next]_<<docs, used>>
<1>a. StoreInv'
  BY StoreInvStep
<1>b. ASSUME NEW r, Faulty(r)
      PROVE  log' = log
  BY <1>b DEF Faulty, CleanFaults
<1>c. ASSUME log' = log
      PROVE  docs' = docs
  BY <1>a, <1>c, DocsStep
<1>d. ASSUME NEW e \in ExternalIDs, NEW item \in Items,
             Store!Insert(e, Document(item))
      PROVE  Store!Next
  BY <1>d DEF Store!Next
<1>1. ASSUME NEW e \in ExternalIDs, NEW item \in Items,
             InsertOK(e, item) \/ StopInInsert(e, item)
      PROVE  Store!Next
  BY <1>a, <1>d, <1>1, InsertMaps DEF InsertOK, StopInInsert
<1>2. ASSUME NEW e \in ExternalIDs,
             InsertClosed(e) \/ \E item \in Items : InsertFails(e, item)
      PROVE  Store!Next
  <2>1. log' = log /\ Draw(e)
    BY <1>2, <1>b DEF InsertClosed, InsertFails
  <2>2. docs' = docs
    BY <1>c, <2>1
  <2>. QED
    BY <2>1, <2>2 DEF Draw, Store!Next, Store!FailInsert, docs
<1>3. ASSUME NEW e \in ExternalIDs, DeleteOK(e) \/ StopInDelete(e)
      PROVE  Store!Next
  <2>1. Store!Delete(e)
    BY <1>a, <1>3, DeleteMaps DEF DeleteOK, StopInDelete
  <2>. QED
    BY <2>1 DEF Store!Next
<1>4. ASSUME NEW e \in ExternalIDs, NEW item \in Items, InsertCompensated(e, item)
      PROVE  FALSE
  BY <1>4, FreshInternalID DEF InsertCompensated, StoreInv
<1>5. ASSUME \/ \E e \in ExternalIDs : DeleteFails(e)
             \/ LoadStep \/ Close \/ Stop \/ UNCHANGED vars
      PROVE  UNCHANGED <<docs, used>>
  <2>1. log' = log /\ used' = used
    BY <1>5, <1>b
       DEF DeleteFails, LoadStep, OpenCollection, Reload, ReplayInsert,
           ReplayDelete, ReplayCollides, LoadDone, Close, Stop, vars
  <2>. QED
    BY <1>c, <2>1
<1>. QED
  BY <1>1, <1>2, <1>3, <1>4, <1>5 DEF Next, ClientStep

(* When a failing append leaves no record, LoadState runs only on a fresh  *)
(* collection and a stop loses nothing of the log: wherever the process    *)
(* stops, a client sees a map of documents that only its own Inserts and   *)
(* Deletes change, an Insert that fails uses up an id and nothing else,    *)
(* and one that is cut off has happened or has not.                        *)
THEOREM Implements ==
    ASSUME CleanFaults, ~LossyStop
    PROVE  Spec => ImplementsStore
<1>1. Init => StoreInv /\ Store!Init
  BY StoreInit
<1>2. StoreInv /\ [Next]_vars => StoreInv'
  BY StoreInvStep
<1>3. StoreInv /\ [Next]_vars => [Store!Next]_<<docs, used>>
  BY StoreStep
<1>. QED
  BY <1>1, <1>2, <1>3, PTL DEF Spec, ImplementsStore, Store!Spec, docs

=============================================================================
