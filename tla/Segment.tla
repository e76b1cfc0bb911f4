------------------------------- MODULE Segment -------------------------------
(***************************************************************************)
(* One segment file, word by word: what the codec of internal/store/wal    *)
(* (record.go, payload_ops.go, decoder.go) writes into it, and what        *)
(* scanSegmentFile and getLatestLSN make of it after torn writes, lost     *)
(* tails and a damaged word.                                               *)
(*                                                                         *)
(* A word is 8 bytes with one field in it; the CRC and the length marks of *)
(* the payload get a word each, too.  The checksum is an ideal one: the    *)
(* sequence of the words it was computed over.  What a field's bytes look  *)
(* like when they are read as another field (which happens behind a torn   *)
(* record header) is defined by the operators As....                       *)
(*                                                                         *)
(* A definition named Bug_X stands before X: X with a plausible bug, used  *)
(* to see that a property notices it.                                      *)
(***************************************************************************)
EXTENDS Naturals, SequencesExt

CONSTANTS
    Payloads,    \* the payloads that are appended: InsertPayload, DeletePayload
    MaxSegment,  \* maxSegmentFileSize, in words
    LooksLikeOp, \* the record lengths whose lowest byte is 1, 2 or 3
    MaxRecords,  \* bound on the appends, whole or torn
    MaxTorn,     \* bound on the torn appends
    MaxCuts,     \* bound on the power failures that cut the file
    MaxDamage    \* bound on the damaged words

SegmentHeaderSize == 2
RecordHeaderSize  == 4
MinRecordLength   == RecordHeaderSize + 1

(* What the magic bytes read as an LSN are: more than any LSN there is.    *)
BigLsn == 1000

ASSUME BoundAssumption ==
    /\ MaxSegment \in Nat /\ MaxSegment >= SegmentHeaderSize /\ LooksLikeOp \subseteq Nat
    /\ MaxRecords \in 0 .. BigLsn - 1 /\ MaxTorn \in Nat /\ MaxCuts \in Nat
    /\ MaxDamage \in 0 .. 1

VARIABLES
    file,     \* the words of the segment file
    open,     \* TRUE: a process has the log open and may append
    lsn,      \* wal.lsn of that process
    chunks,   \* history: the appends that left words in the file, in order:
              \* where (at), how many words (n), and the record (rec)
    damaged,  \* history: the position of the damaged word, or 0
    torn, cuts   \* counters, for the bounds

vars == <<file, open, lsn, chunks, damaged, torn, cuts>>

Field(f, v) == [field |-> f, val |-> v]

-----------------------------------------------------------------------------
(* Payloads: length marks before every part of variable length.            *)

InsertPayload(ext, int, vec, meta) ==
    [op |-> 1, ext |-> ext, int |-> int, vec |-> vec, meta |-> meta]
DeletePayload(ext, int) == [op |-> 2, ext |-> ext, int |-> int]

ASSUME PayloadAssumption ==
    \A p \in Payloads :
        /\ p.ext \in Seq(Nat) /\ p.int \in Nat
        /\ \/ p = DeletePayload(p.ext, p.int)
           \/ /\ p = InsertPayload(p.ext, p.int, p.vec, p.meta)
              /\ p.vec \in Seq(Nat) /\ p.meta \in Seq(Nat)

Data(s) == [i \in DOMAIN s |-> Field("data", s[i])]
encodeInsert(p) ==
    Data(<<Len(p.ext)>> \o p.ext \o <<p.int>> \o <<Len(p.vec)>> \o p.vec
         \o <<Len(p.meta)>> \o p.meta)
encodeDelete(p) == Data(<<Len(p.ext)>> \o p.ext \o <<p.int>>)
encodePayload(p) == IF p.op = 1 THEN encodeInsert(p) ELSE encodeDelete(p)

Failed == [op |-> 0]

(* The part that starts with its length at o, and whether it is all there. *)
Part(s, o)  == SubSeq(s, o + 1, o + s[o])
Fits(s, o)  == o <= Len(s) /\ o + s[o] <= Len(s)

decodeInsert(s) ==
    IF ~Fits(s, 1) \/ s[1] + 2 > Len(s) THEN Failed
    ELSE LET v == 1 + s[1] + 2
         IN  IF ~Fits(s, v) THEN Failed
             ELSE LET m == v + s[v] + 1
                  IN  IF ~Fits(s, m) THEN Failed
                      ELSE InsertPayload(Part(s, 1), s[v - 1], Part(s, v), Part(s, m))
decodeDelete(s) ==
    IF ~Fits(s, 1) \/ s[1] + 2 > Len(s) THEN Failed
    ELSE DeletePayload(Part(s, 1), s[s[1] + 2])

-----------------------------------------------------------------------------
(* Records *)

checksum(words) == Field("crc", words)

(* The checksum covers the header and the payload.                         *)
encode(l, p) ==
    LET words  == encodePayload(p)
        length == RecordHeaderSize + Len(words) + 1
        body   == <<Field("magic", 1), Field("length", length), Field("lsn", l),
                    Field("op", p.op)>> \o words
    IN  Append(body, checksum(body))

encodeSegmentHeader == <<Field("magic", 1), Field("segid", 1)>>

(* A word read where another field should be.  The magic bytes read as a   *)
(* length exceed any segment; read as an operation type they are none.     *)
(* Operation type 0 stands for all the invalid ones.                       *)
AsMagic(w)  == IF w.field = "magic" THEN w.val = 1 ELSE FALSE
AsLength(w) == IF w.field = "length" THEN w.val ELSE MaxSegment + 1
AsOp(w)     == CASE w.field = "op"     -> w.val
                 [] w.field = "length" -> IF w.val \in LooksLikeOp THEN 1 ELSE 0
                 [] OTHER              -> 0
AsLsn(w)    == IF w.field = "lsn" THEN w.val ELSE BigLsn

decodeRecordHeader(o) ==
    /\ AsMagic(file[o])
    /\ AsOp(file[o + 3]) \in 1 .. 3   \* an update has no format yet
    /\ AsLength(file[o + 1]) >= MinRecordLength
    /\ AsLength(file[o + 1]) <= MaxSegment

Value(words) == [i \in DOMAIN words |-> words[i].val]

decodePayload(op, words) ==
    CASE op = 1 -> decodeInsert(Value(words))
      [] op = 2 -> decodeDelete(Value(words))
      [] OTHER  -> Failed

-----------------------------------------------------------------------------
(* Reading the file *)

Refused    == [ok |-> FALSE, records |-> <<>>]
Scanned(s) == [ok |-> TRUE, records |-> s]

HeaderTorn(o) == o + RecordHeaderSize - 1 > Len(file)

Bug_BodyTorn(o) == o + AsLength(file[o + 1]) > Len(file)
BodyTorn(o) == o + AsLength(file[o + 1]) - 1 > Len(file)

Bug_ChecksumOK(o, end) ==   \* of the payload alone
    LET stored == file[end].val
    IN  /\ file[end].field = "crc" /\ Len(stored) = end - o
        /\ \A i \in o + RecordHeaderSize .. end - 1 : stored[i - o + 1] = file[i]
ChecksumOK(o, end) == file[end] = checksum(SubSeq(file, o, end - 1))

(* scanSegmentFile, from the record at position o on.                      *)
scan[o \in Nat] ==
    IF o > Len(file) \/ HeaderTorn(o) THEN Scanned(<<>>)
    ELSE IF ~decodeRecordHeader(o) THEN Refused
    ELSE IF BodyTorn(o) THEN Scanned(<<>>)
    ELSE LET next == o + AsLength(file[o + 1])
             op   == AsOp(file[o + 3])
         IN  IF ~ChecksumOK(o, next - 1) THEN Refused
             ELSE LET p    == decodePayload(op, SubSeq(file, o + RecordHeaderSize, next - 2))
                      rest == scan[next]
                  IN  IF p = Failed \/ ~rest.ok THEN Refused
                      ELSE Scanned(<<[lsn |-> AsLsn(file[o + 2]), payload |-> p]>>
                                   \o rest.records)

Bug_SegmentHeaderOK == Len(file) >= SegmentHeaderSize
SegmentHeaderOK == Len(file) >= SegmentHeaderSize /\ AsMagic(file[1])
scanSegmentFile == IF SegmentHeaderOK THEN scan[SegmentHeaderSize + 1] ELSE Refused

(* The walk of getLatestLSN over the record headers: neither magic nor     *)
(* checksum is looked at.                                                  *)
walk[o \in Nat] ==
    IF o + RecordHeaderSize - 1 > Len(file) \/ AsLength(file[o + 1]) < MinRecordLength
    THEN <<>>
    ELSE <<AsLsn(file[o + 2])>> \o walk[o + AsLength(file[o + 1])]

Bug_getLatestLSN ==   \* the first one
    LET seen == walk[SegmentHeaderSize + 1]
    IN  IF seen = <<>> THEN 0 ELSE Head(seen)
getLatestLSN ==
    LET seen == walk[SegmentHeaderSize + 1]
    IN  IF seen = <<>> THEN 0 ELSE Last(seen)

-----------------------------------------------------------------------------

Init ==
    /\ file = encodeSegmentHeader
    /\ open = TRUE /\ lsn = 0
    /\ chunks = <<>> /\ damaged = 0 /\ torn = 0 /\ cuts = 0

(* A record that does not fit goes into the next segment.                  *)
Bug_Room(p) == Len(chunks) < MaxRecords /\ Len(file) < MaxSegment
Room(p) == /\ Len(chunks) < MaxRecords
           /\ Len(file) + Len(encode(lsn + 1, p)) <= MaxSegment

(* The first n words of a record at the end of the file.                   *)
Write(p, n) ==
    LET words == encode(lsn + 1, p)
    IN  /\ file' = file \o SubSeq(words, 1, n)
        /\ lsn' = lsn + 1
        /\ chunks' = IF n = 0 THEN chunks
                     ELSE Append(chunks, [at  |-> Len(file), n |-> n,
                                          rec |-> [lsn |-> lsn + 1, payload |-> p,
                                                   size |-> Len(words)]])

AppendRecord(p) ==
    /\ open /\ Room(p)
    /\ Write(p, Len(encode(lsn + 1, p)))
    /\ UNCHANGED <<open, damaged, torn, cuts>>

(* A write that fails midway, in a process that dies of it or goes on.     *)
TornAppend(p) ==
    /\ open /\ Room(p)
    /\ torn < MaxTorn /\ torn' = torn + 1
    /\ \E n \in 1 .. Len(encode(lsn + 1, p)) - 1 : Write(p, n)
    /\ open' \in BOOLEAN
    /\ UNCHANGED <<damaged, cuts>>

Stop ==
    /\ open /\ open' = FALSE
    /\ UNCHANGED <<file, lsn, chunks, damaged, torn, cuts>>

(* The power fails, and the file loses its end.                            *)
PowerLoss ==
    /\ ~open /\ cuts < MaxCuts /\ cuts' = cuts + 1
    /\ \E c \in 0 .. Len(file) - 1 :
          /\ file' = SubSeq(file, 1, c)
          /\ chunks' = [i \in 1 .. Cardinality({j \in DOMAIN chunks : chunks[j].at < c}) |->
                           IF chunks[i].at + chunks[i].n <= c THEN chunks[i]
                           ELSE [chunks[i] EXCEPT !.n = c - chunks[i].at]]
          /\ damaged' = IF damaged > c THEN 0 ELSE damaged
    /\ UNCHANGED <<open, lsn, torn>>

(* The values a damaged word may have instead of its own.                  *)
Damages(w) ==
    CASE w.field = "magic"  -> {0}
      [] w.field = "length" -> (0 .. MaxSegment + 1) \ {w.val}
      [] w.field = "op"     -> (0 .. 3) \ {w.val}
      [] w.field = "crc"    -> {<<>>}
      [] OTHER              -> {w.val + 1}

(* The disk gives a word back wrong, in a file nobody has open.            *)
Damage(p) ==
    /\ ~open /\ damaged = 0 /\ MaxDamage = 1
    /\ \E v \in Damages(file[p]) : file' = [file EXCEPT ![p].val = v]
    /\ damaged' = p
    /\ UNCHANGED <<open, lsn, chunks, torn, cuts>>

(* NewWAL takes the LSN from the file; Recover must accept the segment.    *)
Open ==
    /\ ~open /\ scanSegmentFile.ok
    /\ open' = TRUE /\ lsn' = getLatestLSN
    /\ UNCHANGED <<file, chunks, damaged, torn, cuts>>

Next == \/ \E p \in Payloads : AppendRecord(p) \/ TornAppend(p)
        \/ Stop \/ PowerLoss \/ Open
        \/ \E p \in DOMAIN file : Damage(p)

Spec == Init /\ [][Next]_vars

-----------------------------------------------------------------------------
(* Properties *)

(* Every variable holds a value the program could hold, and a segment of   *)
(* records that fit into one never grows beyond its maximum.               *)
TypeOK ==
    /\ \A i \in DOMAIN file :
          file[i].field \in {"magic", "segid", "length", "lsn", "op", "data", "crc"}
    /\ Len(file) <= MaxSegment
    /\ open \in BOOLEAN /\ lsn \in Nat
    /\ \A i \in DOMAIN chunks : /\ chunks[i].n \in 1 .. chunks[i].rec.size
                                /\ chunks[i].at + chunks[i].n <= Len(file)
    /\ damaged \in 0 .. Len(file) /\ torn \in Nat /\ cuts \in Nat

Whole(k) == k.n = k.rec.size
Plain(k) == [lsn |-> k.rec.lsn, payload |-> k.rec.payload]

(* The records that no torn one was written before.                        *)
Written ==
    LET whole == {m \in 0 .. Len(chunks) : \A i \in 1 .. m : Whole(chunks[i])}
    IN  [i \in 1 .. Max(whole) |-> Plain(chunks[i])]

(* Recovery never makes a record up: what a scan returns is a prefix of    *)
(* the records that were written, content, LSN and order, none of them     *)
(* torn or behind a torn one, whatever was lost or damaged before          *)
(* (DESIGN.md:59 "to detect disk corruption").                             *)
NoForgery == scanSegmentFile.ok => IsPrefix(scanSegmentFile.records, Written)

(* A file whose end alone is torn gives back every whole record, decoded   *)
(* to what was encoded (recovery_test.go:147).                             *)
TornTailOnly ==
    /\ damaged = 0 /\ Len(file) >= SegmentHeaderSize
    /\ \A i \in DOMAIN chunks : Whole(chunks[i]) \/ i = Len(chunks)
TornTailDiscarded == TornTailOnly => scanSegmentFile = Scanned(Written)

(* The word at p is in a record that a scan reaches, or in the segment's   *)
(* magic and version.                                                      *)
Reached(p) ==
    \/ p = 1
    \/ \E i \in DOMAIN chunks :
          /\ chunks[i].at < p /\ p <= chunks[i].at + chunks[i].n
          /\ \A j \in 1 .. i : Whole(chunks[j])

(* Of a record that was written, a damaged word is noticed wherever it is, *)
(* the length excepted, and the scan is refused (recovery_test.go:127).    *)
DamageRefused ==
    damaged # 0 /\ Reached(damaged) /\ file[damaged].field # "length"
        => ~scanSegmentFile.ok

(* The length, too.                                                        *)
LengthDamageRefused == damaged # 0 /\ Reached(damaged) => ~scanSegmentFile.ok

(* A process that opened an undamaged log goes on behind the LSN of every  *)
(* record a scan finds, and these ascend (recovery_test.go:195): the walk  *)
(* of getLatestLSN, which checks nothing, goes the way of the scan.        *)
LsnFresh ==
    open /\ damaged = 0 =>
        LET found == scanSegmentFile.records
        IN  /\ \A i \in DOMAIN found : found[i].lsn <= lsn
            /\ \A i, j \in DOMAIN found : i < j => found[i].lsn < found[j].lsn

-----------------------------------------------------------------------------
(* Module WAL takes a segment for a set of chunks and its size in cells of *)
(* two words.                                                              *)

AsFile ==
    [exists |-> TRUE, readOnly |-> FALSE, synced |-> 0, size |-> Len(file) \div 2,
     chunks |-> {[at  |-> chunks[i].at \div 2, n |-> chunks[i].n \div 2,
                  rec |-> [tag |-> i, lsn |-> chunks[i].rec.lsn, op |-> "insert",
                           size |-> chunks[i].rec.size \div 2]] : i \in DOMAIN chunks}]
InCells ==
    \A i \in DOMAIN chunks : chunks[i].n % 2 = 0 /\ chunks[i].rec.size % 2 = 0

(* Half a record header whose missing operation type the length of the     *)
(* next record happens to supply.                                          *)
Mixed ==
    \E i \in DOMAIN chunks : /\ chunks[i].n = 2 /\ i + 1 \in DOMAIN chunks
                             /\ chunks[i + 1].rec.size \in LooksLikeOp

W == INSTANCE WAL WITH
    SyncPolicy <- "SyncOS", MaxSegmentSize <- MaxSegment \div 2,
    InsertSizes <- {}, DeleteSize <- 3, CrashPoints <- {}, PowerLoss <- FALSE,
    IOErrors <- {}, MaxSegments <- 1, MaxAppends <- 0, MaxStops <- 0, MaxErrors <- 0,
    disk <- <<AsFile>>, phase <- "down", lsn <- lsn, segID <- 0, active <- 0,
    currentSize <- 0, file <- "nil", stage <- "idle", rec <- 0, acked <- {},
    promised <- {}, appends <- 0, stops <- 0, errors <- 0

(* What WAL says of such a segment is what the bytes say: whether a scan   *)
(* accepts it, which records it returns, and which LSN comes next.  Left   *)
(* out is the mixed header, which WAL takes for refused.                   *)
ChunksSuffice ==
    damaged = 0 /\ InCells /\ Len(file) % 2 = 0 /\ ~Mixed =>
        /\ W!ScanOK(AsFile) = scanSegmentFile.ok
        /\ scanSegmentFile.ok =>
              /\ Len(scanSegmentFile.records) = Cardinality(W!WholePrefix(AsFile))
              /\ W!GetLatestLSN(AsFile) = getLatestLSN
=============================================================================
