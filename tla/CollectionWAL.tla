---------------------------- MODULE CollectionWAL ----------------------------
(***************************************************************************)
(* A collection on its log of segment files: modules WAL and Collection    *)
(* put together.  Insert and Delete hold c.mu while the append that they   *)
(* call runs step by step, change memory when it returns nil, and are cut  *)
(* off with it when the process dies.  OpenCollection replays what Recover *)
(* makes of the segments.                                                  *)
(*                                                                         *)
(* The machine keeps its power here, so that what was written stays, and   *)
(* backgroundSync is left out, which changes nothing but what a power      *)
(* failure may take.                                                       *)
(*                                                                         *)
(* A definition named Bug_X stands before X: X with a plausible bug, used  *)
(* to see that a property notices it.                                      *)
(***************************************************************************)
EXTENDS Naturals, Sequences, FiniteSets

CONSTANTS
    ExternalIDs, Items,                          \* as in Collection
    SyncPolicy, MaxSegmentSize, InsertSizes, DeleteSize,      \* as in WAL
    CrashPoints, IOErrors, MaxSegments, MaxAppends, MaxStops, MaxErrors

(* As in WAL and in Collection.                                            *)
ASSUME LogAssumption ==
    /\ SyncPolicy \in {"SyncAlways", "SyncEverySec", "SyncOS"}
    /\ MaxSegmentSize \in Nat
    /\ DeleteSize \in Nat /\ DeleteSize >= 3
    /\ InsertSizes \subseteq Nat /\ \A n \in InsertSizes : n >= 3
    /\ CrashPoints \subseteq
         {"idle", "first", "rotate", "create", "header", "write", "tear", "sync"}
    /\ IOErrors \subseteq {"close", "create", "header", "write", "sync"}
    /\ MaxSegments \in Nat \ {0}
    /\ MaxAppends \in Nat /\ MaxStops \in Nat /\ MaxErrors \in Nat
ASSUME ItemAssumption == \A i, j \in Items : i # <<"json", j>>

VARIABLES
    disk, walPhase, lsn, segID, active, currentSize, file, stage, rec,
    returned, promised, appends, walStops, errors,            \* of the log
    phase, cursor, idCounter, extToInt, intToExt, payload, index,
    used, acked, deleted, unsure, stops, faults,              \* of the collection
    contents    \* what each append was to write, in the order of the appends

walVars  == <<disk, walPhase, lsn, segID, active, currentSize, file, stage, rec,
              returned, promised, appends, walStops, errors>>
memory   == <<idCounter, extToInt, intToExt, payload, index>>
colVars  == <<phase, cursor, memory, used, acked, deleted, unsure, stops, faults>>
vars     == <<walVars, colVars, contents>>

Wal == INSTANCE WAL WITH
    PowerLoss <- FALSE, phase <- walPhase, acked <- returned, stops <- walStops

(* The record of the append that holds wal.mu is no part of the log yet.   *)
InFlight(x) == stage = "sync" /\ x[2].rec.tag = rec.tag

(* What Recover returns: the records of the segments, in order; of these   *)
(* the one that i - 1 others come before is the i-th.                      *)
Found       == {x \in Wal!Recovered : ~InFlight(x)}
Place(x, S) == Cardinality({y \in S : Wal!Before(y, x)}) + 1
Only(S)     == CHOOSE x \in S : TRUE
Nth(i, S)   == Only({x \in S : Place(x, S) = i})
Log == [i \in 1 .. Cardinality(Found) |-> contents[Nth(i, Found)[2].rec.tag]]

(* An append that fails leaves no record, or, when the fsync behind its    *)
(* write is what failed, leaves it.                                        *)
AppendFaults ==
    {"absent"} \cup (IF SyncPolicy = "SyncAlways" /\ "sync" \in IOErrors
                     THEN {"present"} ELSE {})

Col == INSTANCE Collection WITH
    log <- Log, LogFaults <- AppendFaults, AllowReload <- FALSE,
    LossyStop <- FALSE, MaxLog <- MaxAppends, MaxFaults <- MaxAppends

Init ==
    /\ Wal!Init
    /\ phase = "down" /\ cursor = 0
    /\ idCounter = 0 /\ extToInt = Col!Empty /\ intToExt = Col!Empty
    /\ payload = Col!Empty /\ index = Col!Empty
    /\ used = {} /\ acked = {} /\ deleted = {} /\ unsure = {}
    /\ stops = 0 /\ faults = 0
    /\ contents = <<>>

-----------------------------------------------------------------------------
(* Insert and Delete up to the call of the log.  Validation is left out.   *)

Serving == phase \in {"ready", "closed"}

Insert(e, item) ==
    /\ Serving /\ e \notin used
    /\ Wal!AppendInsert
    /\ contents' = Append(contents, Col!InsertRecord(e, Col!internalID, item))
    /\ UNCHANGED colVars

Delete(e) ==
    /\ Serving /\ e \in DOMAIN extToInt
    /\ Wal!AppendDelete
    /\ contents' = Append(contents, Col!DeleteRecord(e, extToInt[e]))
    /\ UNCHANGED colVars

op     == contents[rec.tag]
Draw   == used' = IF op.op = "insert" THEN used \cup {op.ext} ELSE used

-----------------------------------------------------------------------------
(* The append goes on, and returns nil or an error.                        *)

AppendStep ==
    /\ Wal!CallStep /\ stage' # "idle"
    /\ UNCHANGED <<colVars, contents>>

Bug_Finish ==   \* the counter is not counted up
    /\ IF op.op = "insert"
       THEN /\ index' = Col!Put(index, op.int, Col!Unit(op.raw))
            /\ extToInt' = Col!Put(extToInt, op.ext, op.int)
            /\ intToExt' = Col!Put(intToExt, op.int, op.ext)
            /\ payload' = Col!Put(payload, op.ext, op.raw)
            /\ acked' = acked \cup {op.ext} /\ UNCHANGED <<idCounter, deleted>>
       ELSE /\ Col!DropDocument(op.ext, op.int)
            /\ deleted' = deleted \cup {op.ext} /\ UNCHANGED <<idCounter, acked>>
(* The rest of Insert and of Delete.  That index.Add never refuses the id  *)
(* here is checked: Collection allows no such step.                        *)
Finish ==
    \/ /\ op.op = "insert"
       /\ index' = Col!Put(index, op.int, Col!Unit(op.raw))
       /\ idCounter' = op.int
       /\ extToInt' = Col!Put(extToInt, op.ext, op.int)
       /\ intToExt' = Col!Put(intToExt, op.int, op.ext)
       /\ payload' = Col!Put(payload, op.ext, op.raw)
       /\ acked' = acked \cup {op.ext} /\ UNCHANGED deleted
    \/ /\ op.op = "delete"
       /\ Col!DropDocument(op.ext, op.int)
       /\ deleted' = deleted \cup {op.ext} /\ UNCHANGED <<idCounter, acked>>

AppendReturnsNil ==
    /\ Wal!CallStep /\ stage' = "idle" /\ returned' # returned
    /\ Finish /\ Draw
    /\ UNCHANGED <<phase, cursor, unsure, stops, faults, contents>>

Bug_AppendFails ==   \* the error is taken for a success
    /\ Wal!CallStep /\ stage' = "idle" /\ returned' = returned
    /\ Finish /\ Draw
    /\ UNCHANGED <<phase, cursor, unsure, stops, faults, contents>>
AppendFails ==
    /\ Wal!CallStep /\ stage' = "idle" /\ returned' = returned
    /\ Draw
    /\ IF phase = "ready"
       THEN unsure' = unsure \cup {op.ext} /\ faults' = faults + 1
       ELSE UNCHANGED <<unsure, faults>>
    /\ UNCHANGED <<phase, cursor, memory, acked, deleted, stops, contents>>

-----------------------------------------------------------------------------
(* Close, and the death of the process at any point of a call.             *)

Close ==
    /\ phase = "ready" /\ Wal!Close
    /\ phase' = "closed"
    /\ UNCHANGED <<cursor, memory, used, acked, deleted, unsure, stops, faults,
                   contents>>

ForgetMemory ==
    /\ phase' = "down" /\ cursor' = 0 /\ idCounter' = 0
    /\ extToInt' = Col!Empty /\ intToExt' = Col!Empty
    /\ payload' = Col!Empty /\ index' = Col!Empty

Stop ==
    /\ Wal!Stop
    /\ IF phase = "down" THEN UNCHANGED <<phase, cursor, memory, stops>>
                         ELSE ForgetMemory /\ stops' = stops + 1
    /\ IF stage = "sync" THEN Draw /\ unsure' = unsure \cup {op.ext}
                         ELSE UNCHANGED <<used, unsure>>
    /\ UNCHANGED <<acked, deleted, faults, contents>>

-----------------------------------------------------------------------------
(* OpenCollection: NewWAL, Recover, and the replay of what it returned.    *)

LoadState ==
    IF walPhase' = "ready" THEN phase' = "loading" ELSE UNCHANGED phase

Open ==
    /\ Wal!OpenExisting \/ Wal!CreateFirst \/ Wal!FirstHeader \/ Wal!Recover
    /\ LoadState
    /\ UNCHANGED <<cursor, memory, used, acked, deleted, unsure, stops, faults,
                   contents>>

Replay ==
    /\ UNCHANGED <<walVars, contents>>
    /\ Col!ReplayInsert \/ Col!ReplayDelete \/ Col!LoadDone

(* LoadState fails: OpenCollection closes the log, and has nothing.        *)
ReplayCollides ==
    /\ Col!Replaying /\ Col!Collides(Col!record)
    /\ disk' = [disk EXCEPT ![active] = Wal!Synced(@)] /\ walPhase' = "down"
    /\ Wal!Forget
    /\ UNCHANGED <<appends, walStops, errors, contents>>
    /\ Col!ReplayCollides

Next ==
    \/ \E e \in ExternalIDs : \/ \E item \in Items : Insert(e, item)
                              \/ Delete(e)
    \/ AppendStep \/ AppendReturnsNil \/ AppendFails
    \/ Close \/ Stop
    \/ Open \/ Replay \/ ReplayCollides

Spec == Init /\ [][Next]_vars

-----------------------------------------------------------------------------
(* Properties *)

(* Both parts hold values the program could hold, and an append is in      *)
(* progress exactly where contents says what it writes.                    *)
TypeOK == /\ Wal!TypeOK
          /\ Col!TypeOK
          /\ Len(contents) = appends
          /\ stage # "idle" => rec.tag = appends /\ Serving

(* On its segments a collection behaves as Collection says one does on a   *)
(* log that is a sequence: whatever rotates, fails or stops, between       *)
(* whichever file operations, a record is in the log as a whole and in its *)
(* place, or not at all, and memory follows it.                            *)
ImplementsCollection == Col!Spec

(* What was acknowledged is in the segments at all times, while they are   *)
(* closed, half rotated or unreadable, too: an insert is there and not     *)
(* cancelled, a deleted document is gone for good.                         *)
AckedOnDisk ==
    LET live == DOMAIN Col!Logged
    IN  acked \ (deleted \cup unsure) \subseteq live /\ deleted \cap live = {}
=============================================================================
