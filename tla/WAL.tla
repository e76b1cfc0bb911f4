-------------------------------- MODULE WAL --------------------------------
(***************************************************************************)
(* The segmented write-ahead log of internal/store/wal: one process that   *)
(* appends records under wal.mu, rotates segments, fsyncs according to its *)
(* SyncPolicy, stops at any point, and is reopened by NewWAL followed by   *)
(* Recover, as collection.OpenCollection does.                             *)
(*                                                                         *)
(* Sizes are counted in cells of 16 bytes: a segment header is one cell, a *)
(* record header two, the shortest record (36 bytes) three.  A segment     *)
(* file is its size and the set of the chunks that were written to it; a   *)
(* chunk is a record, whole (n = rec.size) or torn (n < rec.size).         *)
(*                                                                         *)
(* A definition named Bug_X stands before X: X with a plausible bug, used  *)
(* to see that a property notices it.                                      *)
(***************************************************************************)
EXTENDS Naturals, FiniteSets

CONSTANTS
    SyncPolicy,     \* "SyncAlways", "SyncEverySec" or "SyncOS"
    MaxSegmentSize, \* maxSegmentFileSize, in cells
    InsertSizes,    \* sizes of the insert records the client may write
    DeleteSize,     \* size of a delete record
    CrashPoints,    \* the points of a call at which the process may die
    PowerLoss,      \* TRUE: unsynced file tails may be lost when it stops
    IOErrors,       \* the file operations that may return an error
    MaxSegments,    \* bound on the segment ids
    MaxAppends,     \* bound on the append calls
    MaxStops,       \* bound on the stops of the process
    MaxErrors       \* bound on the injected I/O errors

SegmentHeaderSize == 1
RecordHeaderSize  == 2
MinRecordSize     == 3

ASSUME PolicyAssumption ==
    SyncPolicy \in {"SyncAlways", "SyncEverySec", "SyncOS"}
ASSUME SizeAssumption ==
    /\ MaxSegmentSize \in Nat
    /\ DeleteSize \in Nat /\ DeleteSize >= MinRecordSize
    /\ InsertSizes \subseteq Nat
    /\ \A n \in InsertSizes : n >= MinRecordSize
ASSUME FaultAssumption ==
    /\ CrashPoints \subseteq
         {"idle", "first", "rotate", "create", "header", "write", "tear", "sync"}
    /\ PowerLoss \in BOOLEAN
    /\ IOErrors \subseteq {"close", "create", "header", "write", "sync"}
ASSUME BoundAssumption ==
    /\ MaxSegments \in Nat \ {0}
    /\ MaxAppends \in Nat /\ MaxStops \in Nat /\ MaxErrors \in Nat

VARIABLES
    disk,        \* the segment files, by segment id
    phase,       \* off, down, opening, opened, ready or closed
    lsn,         \* wal.lsn
    segID,       \* wal.segID
    active,      \* wal.activeSegment.segID
    currentSize, \* wal.activeSegment.currentSize
    file,        \* wal.activeSegment.file: open, closed or nil
    stage,       \* where the append that holds wal.mu is; idle: nobody holds it
    rec,         \* the record of that append
    acked,       \* history: tags of the appends that returned no error
    promised,    \* history: tags the code has told its caller are on the disk
    appends, stops, errors   \* counters, for the bounds

walVars  == <<phase, lsn, segID, active, currentSize, file>>
callVars == <<stage, rec>>
history  == <<acked, promised>>
counters == <<appends, stops, errors>>
vars     == <<disk, walVars, callVars, history, counters>>

-----------------------------------------------------------------------------
(* Data *)

SegIDs == 1 .. MaxSegments
Sizes  == InsertSizes \cup {DeleteSize}
Record == [tag : Nat, lsn : Nat, op : {"insert", "delete"}, size : Nat]
Chunk  == [at : Nat, n : Nat, rec : Record]
File   == [exists : BOOLEAN, readOnly : BOOLEAN, size : Nat, synced : Nat,
           chunks : SUBSET Chunk]

NoRecord == [tag |-> 0, lsn |-> 0, op |-> "delete", size |-> 0]
NoFile   == [exists |-> FALSE, readOnly |-> FALSE, size |-> 0, synced |-> 0,
             chunks |-> {}]

(* Creation, the segment header, and the seal of a full segment.           *)
Bug_Created(f) == [f EXCEPT !.exists = TRUE, !.readOnly = TRUE]   \* mode 0444
Created(f) == [f EXCEPT !.exists = TRUE]
Headed(f)  == [f EXCEPT !.size = @ + SegmentHeaderSize]
Sealed(f)  == [f EXCEPT !.readOnly = TRUE]

(* The first n cells of record r written at the end of f (O_APPEND).       *)
Write(f, r, n) ==
    [f EXCEPT !.size = @ + n,
              !.chunks = @ \cup (IF n = 0 THEN {}
                                 ELSE {[at |-> f.size, n |-> n, rec |-> r]})]

(* f after a successful fsync, and f cut at offset c by a power failure.   *)
Synced(f) == [f EXCEPT !.synced = f.size]

CutChunk(k, c) == IF k.at + k.n <= c THEN k ELSE [k EXCEPT !.n = c - k.at]
Cut(f, c) ==
    [f EXCEPT !.size = c,
              !.chunks = {CutChunk(k, c) : k \in {x \in f.chunks : x.at < c}}]

-----------------------------------------------------------------------------
(* Reading a segment back *)

Torn(f) == {k \in f.chunks : k.n < k.rec.size}

(* The records before the first torn one: where a scan gets by itself.     *)
WholePrefix(f) == {k \in f.chunks : \A t \in Torn(f) : k.at < t.at}

FirstTorn(f) == CHOOSE t \in Torn(f) : \A u \in Torn(f) : t.at <= u.at

(* At the first torn record the scan stops without an error when the file  *)
(* ends inside that record; otherwise it takes the bytes that were written *)
(* after it for the rest of it, and the header or the checksum is wrong.   *)
Bug_EndsInside(f, t) ==
    IF t.n < RecordHeaderSize THEN f.size - t.at < RecordHeaderSize ELSE FALSE
EndsInside(f, t) ==
    LET left == f.size - t.at
    IN  IF t.n < RecordHeaderSize THEN left < RecordHeaderSize
                                  ELSE left < t.rec.size

HeaderAccepted(r) == r.size <= MaxSegmentSize

Bug_ScanOK(f) == f.size > SegmentHeaderSize /\ Torn(f) = {}
ScanOK(f) ==
    /\ f.size >= SegmentHeaderSize
    /\ \A k \in WholePrefix(f) : HeaderAccepted(k.rec)
    /\ Torn(f) # {} =>
         LET t == FirstTorn(f)
         IN  /\ EndsInside(f, t)
             /\ t.n >= RecordHeaderSize => HeaderAccepted(t.rec)

Segments == {s \in SegIDs : disk[s].exists}
IsLatest(s) == s \in Segments /\ \A t \in Segments : t <= s

(* Recover: one segment that does not scan fails it as a whole.            *)
RecoverOK == \A s \in Segments : ScanOK(disk[s])
Recovered == UNION {{s} \X WholePrefix(disk[s]) : s \in Segments}

(* The order in which Recover returns them.                                *)
Bug_Before(x, y) == x[1] > y[1] \/ (x[1] = y[1] /\ x[2].at < y[2].at)
Before(x, y) == x[1] < y[1] \/ (x[1] = y[1] /\ x[2].at < y[2].at)

(* The LSN in the last record header that a walk over the file can read.   *)
(* Neither magic nor checksum is looked at; a record torn behind its       *)
(* header counts.  (When more bytes follow a torn record the walk reads    *)
(* whatever they hold, but then Recover fails and no append uses the LSN.) *)
Bug_GetLatestLSN(f) == 0   \* numbering starts over after a restart
GetLatestLSN(f) ==
    LET seen == WholePrefix(f) \cup
                {t \in Torn(f) : t = FirstTorn(f) /\ t.n >= RecordHeaderSize}
        Last(k) == \A j \in seen : j.at <= k.at
    IN  IF \E k \in seen : Last(k) THEN (CHOOSE k \in seen : Last(k)).rec.lsn
                                   ELSE 0

-----------------------------------------------------------------------------
(* Initially: no directory, nothing running.                               *)

Init ==
    /\ disk = [s \in SegIDs |-> NoFile]
    /\ phase = "down"
    /\ lsn = 0 /\ segID = 0 /\ active = 0 /\ currentSize = 0 /\ file = "nil"
    /\ stage = "idle" /\ rec = NoRecord
    /\ acked = {} /\ promised = {}
    /\ appends = 0 /\ stops = 0 /\ errors = 0

(* An injected error of file operation e.                                  *)
Fails(e) == e \in IOErrors /\ errors < MaxErrors /\ errors' = errors + 1

(* The append returns an error to its caller, or nil.                      *)
ReturnError == stage' = "idle" /\ UNCHANGED <<rec, history>>
ReturnNil ==
    /\ stage' = "idle" /\ UNCHANGED rec
    /\ acked' = acked \cup {rec.tag}
    /\ promised' = IF SyncPolicy = "SyncAlways" THEN promised \cup {rec.tag}
                                                ELSE promised

-----------------------------------------------------------------------------
(* AppendInsert and AppendDelete, step by step; wal.mu is held throughout. *)

Bug_NeedsRotation(size) == currentSize > MaxSegmentSize
NeedsRotation(size) == size + currentSize > MaxSegmentSize

BeginAppend(op, size) ==
    /\ phase \in {"ready", "closed"} /\ stage = "idle"
    /\ appends < MaxAppends
    /\ appends' = appends + 1
    /\ lsn' = lsn + 1
    /\ rec' = [tag |-> appends + 1, lsn |-> lsn + 1, op |-> op, size |-> size]
    /\ stage' = IF NeedsRotation(size) THEN "rotate" ELSE "write"
    /\ UNCHANGED <<disk, phase, segID, active, currentSize, file, history,
                   stops, errors>>

AppendInsert == \E n \in InsertSizes : BeginAppend("insert", n)
AppendDelete == BeginAppend("delete", DeleteSize)

(* rotateSegment: Chmod and Close of the full segment.  A file that an     *)
(* earlier failure or Close() left unusable makes it fail here.            *)
SealSegment ==
    /\ stage = "rotate" /\ file = "open" /\ segID < MaxSegments
    /\ disk' = [disk EXCEPT ![active] = Sealed(@)]
    /\ file' = "closed"
    /\ \/ /\ segID' = segID + 1 /\ stage' = "create"
          /\ UNCHANGED <<rec, history, errors>>
       \/ Fails("close") /\ ReturnError /\ UNCHANGED segID
    /\ UNCHANGED <<phase, lsn, active, currentSize, appends, stops>>

SealUnusable ==
    /\ stage = "rotate" /\ file # "open"
    /\ ReturnError
    /\ UNCHANGED <<disk, walVars, counters>>

(* rotateSegment: createSegment for the next id.                           *)
CreateSegment ==
    /\ stage = "create"
    /\ \/ /\ disk' = [disk EXCEPT ![segID] = Created(@)]
          /\ stage' = "header" /\ UNCHANGED <<rec, history, errors>>
       \/ Fails("create") /\ ReturnError /\ UNCHANGED disk
    /\ UNCHANGED <<walVars, appends, stops>>

(* rotateSegment: the new segment's header, then the swap of activeSegment.*)
WriteSegmentHeader ==
    /\ stage = "header"
    /\ \/ /\ disk' = [disk EXCEPT ![segID] = Headed(@)]
          /\ active' = segID /\ currentSize' = SegmentHeaderSize
          /\ file' = "open" /\ stage' = "write"
          /\ UNCHANGED <<rec, history, errors>>
       \/ /\ Fails("header") /\ ReturnError
          /\ UNCHANGED <<disk, active, currentSize, file>>
    /\ UNCHANGED <<phase, lsn, segID, appends, stops>>

(* segment.append: a write that fails may leave its first n cells in the   *)
(* file, and currentSize does not count them.                              *)
WriteRecord ==
    /\ stage = "write" /\ file = "open"
    /\ \/ /\ disk' = [disk EXCEPT ![active] = Write(@, rec, rec.size)]
          /\ currentSize' = currentSize + rec.size
          /\ IF SyncPolicy = "SyncAlways"
             THEN stage' = "sync" /\ UNCHANGED <<rec, history>>
             ELSE ReturnNil
          /\ UNCHANGED errors
       \/ /\ Fails("write") /\ ReturnError
          /\ \E n \in 0 .. rec.size - 1 :
                disk' = [disk EXCEPT ![active] = Write(@, rec, n)]
          /\ UNCHANGED currentSize
    /\ UNCHANGED <<phase, lsn, segID, active, file, appends, stops>>

WriteUnusable ==
    /\ stage = "write" /\ file # "open"
    /\ ReturnError
    /\ UNCHANGED <<disk, walVars, counters>>

Bug_SyncRecord ==   \* the fsync's error is dropped
    /\ stage = "sync"
    /\ \/ disk' = [disk EXCEPT ![active] = Synced(@)] /\ UNCHANGED errors
       \/ Fails("sync") /\ UNCHANGED disk
    /\ ReturnNil
    /\ UNCHANGED <<walVars, appends, stops>>
SyncRecord ==
    /\ stage = "sync"
    /\ \/ /\ disk' = [disk EXCEPT ![active] = Synced(@)]
          /\ ReturnNil /\ UNCHANGED errors
       \/ Fails("sync") /\ ReturnError /\ UNCHANGED disk
    /\ UNCHANGED <<walVars, appends, stops>>

CallStep == \/ SealSegment \/ SealUnusable \/ CreateSegment
            \/ WriteSegmentHeader \/ WriteRecord \/ WriteUnusable \/ SyncRecord

-----------------------------------------------------------------------------
(* backgroundSync at a tick (its fsync's error is dropped), and Close.     *)

Bug_BackgroundSync ==   \* keeps to the segment it was started with
    /\ SyncPolicy = "SyncEverySec"
    /\ phase \in {"opened", "ready"} /\ stage = "idle" /\ file = "open"
    /\ disk' = [disk EXCEPT ![1] = Synced(@)]
    /\ UNCHANGED <<walVars, callVars, history, counters>>
BackgroundSync ==
    /\ SyncPolicy = "SyncEverySec"
    /\ phase \in {"opened", "ready"} /\ stage = "idle" /\ file = "open"
    /\ disk' = [disk EXCEPT ![active] = Synced(@)]
    /\ UNCHANGED <<walVars, callVars, history, counters>>

Bug_Close ==   \* promises the appends that failed, too
    /\ phase = "ready" /\ stage = "idle" /\ file = "open"
    /\ phase' = "closed" /\ file' = "nil"
    /\ disk' = [disk EXCEPT ![active] = Synced(@)]
    /\ promised' = promised \cup 1 .. appends
    /\ UNCHANGED <<lsn, segID, active, currentSize, acked, callVars, counters>>
(* "Sync to disk before closing to ensure no data is lost": a Close that   *)
(* returns nil promises every record acknowledged so far.                  *)
Close ==
    /\ phase = "ready" /\ stage = "idle"
    /\ phase' = "closed" /\ file' = "nil"
    /\ \/ /\ file = "open"
          /\ disk' = [disk EXCEPT ![active] = Synced(@)]
          /\ promised' = promised \cup acked /\ UNCHANGED <<acked, errors>>
       \/ /\ file = "open" /\ Fails("sync") /\ UNCHANGED <<disk, history>>
       \/ /\ file = "closed" /\ UNCHANGED <<disk, history, errors>>
    /\ UNCHANGED <<lsn, segID, active, currentSize, callVars, appends, stops>>

-----------------------------------------------------------------------------
(* The process stops, alone or with the machine's power.                   *)

Forget ==
    /\ lsn' = 0 /\ segID' = 0 /\ active' = 0 /\ currentSize' = 0
    /\ file' = "nil" /\ stage' = "idle" /\ rec' = NoRecord
    /\ UNCHANGED history

StopsTo(point) ==
    /\ phase \notin {"off", "down"}
    /\ point \in CrashPoints /\ stops < MaxStops
    /\ stops' = stops + 1
    /\ phase' \in {"down"} \cup IF PowerLoss THEN {"off"} ELSE {}
    /\ Forget
    /\ UNCHANGED <<appends, errors>>

Stop ==
    /\ StopsTo(IF phase = "opening" THEN "first" ELSE stage)
    /\ UNCHANGED disk

(* The process dies inside write(2): a torn record.                        *)
StopInWrite ==
    /\ stage = "write" /\ file = "open"
    /\ StopsTo("tear")
    /\ \E n \in 1 .. rec.size - 1 :
          disk' = [disk EXCEPT ![active] = Write(@, rec, n)]

(* While the power is off each file is cut somewhere behind its last       *)
(* fsync; what is left of it when the power returns is on the disk.        *)
LoseTail(s) ==
    /\ phase = "off" /\ s \in Segments
    /\ \E c \in disk[s].synced .. disk[s].size :
          /\ c < disk[s].size
          /\ disk' = [disk EXCEPT ![s] = Cut(@, c)]
    /\ UNCHANGED <<walVars, callVars, history, counters>>

PowerOn ==
    /\ phase = "off" /\ phase' = "down"
    /\ disk' = [s \in SegIDs |-> Synced(disk[s])]
    /\ UNCHANGED <<lsn, segID, active, currentSize, file, callVars, history,
                   counters>>

-----------------------------------------------------------------------------
(* NewWAL, in its two cases, and the Recover that follows it.  Opening a   *)
(* sealed (read-only) segment for writing is refused: NewWAL fails and     *)
(* nothing changes, however often it is called.                            *)

OpenExisting ==
    /\ phase = "down"
    /\ \E s \in Segments :
          /\ IsLatest(s) /\ ~disk[s].readOnly
          /\ segID' = s /\ active' = s
          /\ currentSize' = disk[s].size
          /\ lsn' = GetLatestLSN(disk[s])
    /\ phase' = "opened" /\ file' = "open"
    /\ UNCHANGED <<disk, callVars, history, counters>>

CreateFirst ==
    /\ phase = "down" /\ Segments = {}
    /\ \/ /\ disk' = [disk EXCEPT ![1] = Created(@)]
          /\ phase' = "opening" /\ UNCHANGED errors
       \/ Fails("create") /\ UNCHANGED <<disk, phase>>
    /\ UNCHANGED <<lsn, segID, active, currentSize, file, callVars, history,
                   appends, stops>>

FirstHeader ==
    /\ phase = "opening"
    /\ \/ /\ disk' = [disk EXCEPT ![1] = Headed(@)]
          /\ phase' = "ready" /\ file' = "open"
          /\ lsn' = 0 /\ segID' = 1 /\ active' = 1
          /\ currentSize' = SegmentHeaderSize
          /\ UNCHANGED errors
       \/ /\ Fails("header") /\ phase' = "down"
          /\ UNCHANGED <<disk, lsn, segID, active, currentSize, file>>
    /\ UNCHANGED <<callVars, history, appends, stops>>

(* LoadState reads the log before the collection accepts a call; when it   *)
(* cannot, OpenCollection closes the log, with an fsync, and returns.      *)
Recover ==
    /\ phase = "opened"
    /\ \/ /\ RecoverOK
          /\ phase' = "ready"
          /\ UNCHANGED <<disk, lsn, segID, active, currentSize, file, callVars,
                         history>>
       \/ /\ ~RecoverOK
          /\ phase' = "down" /\ disk' = [disk EXCEPT ![active] = Synced(@)]
          /\ Forget
    /\ UNCHANGED counters

-----------------------------------------------------------------------------

Next ==
    \/ AppendInsert \/ AppendDelete \/ CallStep
    \/ BackgroundSync \/ Close
    \/ Stop \/ StopInWrite \/ PowerOn \/ \E s \in SegIDs : LoseTail(s)
    \/ OpenExisting \/ CreateFirst \/ FirstHeader \/ Recover

Spec == Init /\ [][Next]_vars

(* A call that was begun runs on; the background goroutine gets wal.mu     *)
(* sooner or later even if appenders keep taking it (a Go mutex hands      *)
(* itself to a waiter that starved for a millisecond).                     *)
FairSpec == Spec /\ WF_vars(CallStep) /\ SF_vars(BackgroundSync)

-----------------------------------------------------------------------------
(* Properties *)

(* Every variable holds a value the program could hold.                    *)
TypeOK ==
    /\ disk \in [SegIDs -> File]
    /\ phase \in {"off", "down", "opening", "opened", "ready", "closed"}
    /\ lsn \in Nat /\ currentSize \in Nat
    /\ segID \in SegIDs \cup {0} /\ active \in SegIDs \cup {0}
    /\ file \in {"open", "closed", "nil"}
    /\ stage \in {"idle", "rotate", "create", "header", "write", "sync"}
    /\ rec \in Record
    /\ acked \subseteq Nat /\ promised \subseteq acked
    /\ appends \in Nat /\ stops \in Nat /\ errors \in Nat

OnDisk(t) ==
    \E s \in Segments : \E k \in disk[s].chunks :
        k.rec.tag = t /\ k.n = k.rec.size /\ k.at + k.n <= disk[s].synced

(* An append that returned nil under SyncAlways, or before a Close that    *)
(* returned nil (wal.go:344 "to ensure no data is lost"), has its whole    *)
(* record on stable storage from then on, whatever fails or stops later.   *)
PromisedDurable == \A t \in promised : OnDisk(t)

Tag(x) == x[2].rec.tag

(* Recover returns records in the order they were appended, none twice:    *)
(* rotation, failed writes, restarts and lost tails never reorder the log. *)
RecoveredInOrder ==
    \A x, y \in Recovered : Before(x, y) => Tag(x) < Tag(y)

(* Within one segment the LSNs of the records a scan returns ascend        *)
(* strictly, although each restart computes the next one from the file.    *)
SegmentLsnAscending ==
    \A s \in SegIDs : \A j, k \in WholePrefix(disk[s]) :
        j.at < k.at => j.rec.lsn < k.rec.lsn

(* Records read back in segment order carry strictly ascending LSNs        *)
(* (recovery_test.go:195).                                                 *)
LsnAscending ==
    \A x, y \in Recovered : Before(x, y) => x[2].rec.lsn < y[2].rec.lsn

(* A segment that holds two or more records never exceeds the maximum: the *)
(* size the roll-over test uses is the file's, also after a restart.       *)
SegmentBound ==
    \A s \in SegIDs : Cardinality(disk[s].chunks) >= 2 =>
        disk[s].size <= MaxSegmentSize

(* After any stop, a new process can append to the log it finds ("open     *)
(* existing segment file with highest segID", segment.go:71).              *)
ReopenAppends ==
    phase = "down" => \A s \in Segments : IsLatest(s) => ~disk[s].readOnly

(* After any stop, a new process can read the log it finds, so that what   *)
(* was completely written is not lost (recovery_test.go:147).              *)
ReopenScans == phase = "down" => RecoverOK

AckedRecovered == RecoverOK /\ acked \subseteq {Tag(x) : x \in Recovered}

(* ... and what it reads holds every acknowledged append.                  *)
RecoversEveryAck == phase = "down" => AckedRecovered

(* A torn record at the end of a segment (nothing appended behind it) is   *)
(* discarded and costs nothing that was acknowledged, wherever the process *)
(* died and whichever appends failed before (recovery_test.go:147).        *)
TearsOnlyAtEnds ==
    \A s \in Segments : \A t \in Torn(disk[s]) : t.at + t.n = disk[s].size
TornTailDiscarded ==
    (TearsOnlyAtEnds /\ \A s \in Segments : disk[s].size >= SegmentHeaderSize)
        => AckedRecovered

(* Under SyncEverySec every acknowledged record reaches the disk, unless   *)
(* its segment is sealed or the process stops first.                       *)
InSealed(t) ==
    \E s \in Segments : disk[s].readOnly /\ \E k \in disk[s].chunks : k.rec.tag = t
ActiveEventuallySynced ==
    \A t \in 1 .. MaxAppends :
        t \in acked ~> OnDisk(t) \/ InSealed(t) \/ phase \notin {"opened", "ready"}

(* ... and in a sealed segment, too (wal.go:362 "SyncEverySec fsync        *)
(* policy").                                                               *)
EveryAckSynced ==
    \A t \in 1 .. MaxAppends :
        t \in acked ~> OnDisk(t) \/ phase \notin {"opened", "ready"}
=============================================================================
