----------------------------- MODULE WALProofs -----------------------------
(***************************************************************************)
(* What holds of the write-ahead log for every value of its constants.     *)
(* First type correctness, and that under SyncAlways an acknowledged       *)
(* record is on stable storage whatever fails, stops or is lost            *)
(* afterwards.  Then what Recover can rely on when it reads the segment    *)
(* files back: the order of the records and their LSNs, the size of a      *)
(* segment, and under which faults nothing that was acknowledged is        *)
(* missing.                                                                *)
(***************************************************************************)
EXTENDS WAL, FiniteSetTheorems, TLAPS

-----------------------------------------------------------------------------
(* What one operation does to one file                                     *)

(* A file whose fsynced part lies inside it, and with no empty chunk.      *)
GoodFile == {f \in File : f.synced <= f.size /\ \A k \in f.chunks : k.n >= 1}

(* Chunk k of f is a whole record on stable storage.                       *)
Safe(f, k) == k \in f.chunks /\ k.n = k.rec.size /\ k.at + k.n <= f.synced

(* A step from f to g loses nothing that was safe in f.                    *)
Follows(f, g) ==
    /\ g \in GoodFile
    /\ f.exists => g.exists
    /\ \A k : Safe(f, k) => Safe(g, k)

(* What creation, header, seal and fsync change of a file.                 *)
LEMMA CreatedFile ==
    ASSUME NEW f \in File
    PROVE  /\ Created(f) \in File /\ Created(f).exists
           /\ Created(f).size = f.size /\ Created(f).synced = f.synced
           /\ Created(f).chunks = f.chunks
<1>1. Created(f) \in File
  BY DEF Created, File
<1>2. Created(f).exists = TRUE
  BY DEF Created, File
<1>3. /\ Created(f).size = f.size /\ Created(f).synced = f.synced
      /\ Created(f).chunks = f.chunks
  BY DEF Created, File
<1> QED
  BY <1>1, <1>2, <1>3

LEMMA HeadedFile ==
    ASSUME NEW f \in File
    PROVE  /\ Headed(f) \in File /\ (f.exists => Headed(f).exists)
           /\ Headed(f).size = f.size + 1 /\ Headed(f).synced = f.synced
           /\ Headed(f).chunks = f.chunks
<1>1. f.size + SegmentHeaderSize \in Nat
  BY DEF File, SegmentHeaderSize
<1>2. Headed(f) \in File
  BY <1>1 DEF Headed, File
<1>3. f.exists => Headed(f).exists
  BY DEF Headed, File
<1>4. Headed(f).size = f.size + SegmentHeaderSize
  BY DEF Headed, File
<1>5. Headed(f).synced = f.synced /\ Headed(f).chunks = f.chunks
  BY DEF Headed, File
<1> QED
  BY <1>2, <1>3, <1>4, <1>5 DEF SegmentHeaderSize

LEMMA SealedFile ==
    ASSUME NEW f \in File
    PROVE  /\ Sealed(f) \in File /\ (f.exists => Sealed(f).exists)
           /\ Sealed(f).size = f.size /\ Sealed(f).synced = f.synced
           /\ Sealed(f).chunks = f.chunks
<1>1. Sealed(f) \in File
  BY DEF Sealed, File
<1>2. f.exists => Sealed(f).exists
  BY DEF Sealed, File
<1>3. /\ Sealed(f).size = f.size /\ Sealed(f).synced = f.synced
      /\ Sealed(f).chunks = f.chunks
  BY DEF Sealed, File
<1> QED
  BY <1>1, <1>2, <1>3

LEMMA SyncedFile ==
    ASSUME NEW f \in File
    PROVE  /\ Synced(f) \in File /\ (f.exists => Synced(f).exists)
           /\ Synced(f).size = f.size /\ Synced(f).synced = f.size
           /\ Synced(f).chunks = f.chunks
BY DEF Synced, File

(* None of them loses anything that was safe.                              *)
LEMMA UpdateFollows ==
    ASSUME NEW f \in GoodFile
    PROVE  /\ Follows(f, f)
           /\ Follows(f, Created(f)) /\ Created(f).exists
           /\ Follows(f, Headed(f)) /\ Follows(f, Sealed(f))
           /\ Follows(f, Synced(f))
<1>0. /\ f \in File /\ f.synced <= f.size
      /\ f.size \in Nat /\ f.synced \in Nat
      /\ \A k \in f.chunks : k.n >= 1 /\ k.at \in Nat /\ k.n \in Nat
  BY DEF GoodFile, File, Chunk
<1>1. Follows(f, f)
  BY DEF Follows
<1>2. Follows(f, Created(f)) /\ Created(f).exists
  BY <1>0, CreatedFile DEF Follows, GoodFile, Safe
<1>3. Follows(f, Headed(f))
  BY <1>0, HeadedFile DEF Follows, GoodFile, Safe
<1>4. Follows(f, Sealed(f))
  BY <1>0, SealedFile DEF Follows, GoodFile, Safe
<1>5. Follows(f, Synced(f))
  BY <1>0, SyncedFile DEF Follows, GoodFile, Safe
<1> QED
  BY <1>1, <1>2, <1>3, <1>4, <1>5

(* A write, whole or partial, loses nothing; a whole record is then there, *)
(* and inside the file.                                                    *)
LEMMA WriteFollows ==
    ASSUME NEW f \in GoodFile, NEW r \in Record, NEW n \in Nat
    PROVE  /\ Follows(f, Write(f, r, n))
           /\ n # 0 => \E k \in Write(f, r, n).chunks :
                          /\ k.rec = r /\ k.n = n
                          /\ k.at + k.n <= Write(f, r, n).size
<1> DEFINE k0 == [at |-> f.size, n |-> n, rec |-> r]
           new == f.chunks \cup (IF n = 0 THEN {} ELSE {k0})
           g == Write(f, r, n)
<1>0. /\ f \in File /\ f.synced <= f.size
      /\ f.size \in Nat /\ f.synced \in Nat /\ f.chunks \in SUBSET Chunk
      /\ \A k \in f.chunks : k.n >= 1
  BY DEF GoodFile, File
<1>1. g = [f EXCEPT !.size = f.size + n, !.chunks = new]
  BY DEF Write
<1>2. k0 \in Chunk /\ k0.n = n /\ k0.at = f.size /\ k0.rec = r
  BY <1>0 DEF Chunk
<1>3. new \in SUBSET Chunk /\ \A k \in new : k.n >= 1
  BY <1>0, <1>2
<1>4. f.chunks \subseteq new /\ (n # 0 => k0 \in new)
  OBVIOUS
<1> HIDE DEF new, k0
<1>5. /\ g \in File /\ (f.exists => g.exists)
      /\ g.size = f.size + n /\ g.synced = f.synced /\ g.chunks = new
  <2>0. f.size + n \in Nat
    BY <1>0
  <2>1. g \in File
    BY <1>0, <1>1, <1>3, <2>0 DEF File
  <2>2. f.exists => g.exists
    BY <1>0, <1>1 DEF File
  <2>3. g.size = f.size + n /\ g.synced = f.synced /\ g.chunks = new
    BY <1>0, <1>1 DEF File
  <2> QED
    BY <2>1, <2>2, <2>3
<1> HIDE DEF g
<1>6. Follows(f, g)
  BY <1>0, <1>3, <1>4, <1>5 DEF Follows, GoodFile, Safe
<1>7. n # 0 => k0 \in g.chunks /\ k0.at + k0.n <= g.size
  BY <1>0, <1>2, <1>4, <1>5
<1> QED
  BY <1>2, <1>6, <1>7 DEF g

(* A power failure cuts a file behind its last fsync: nothing safe is lost.*)
LEMMA CutFollows ==
    ASSUME NEW f \in GoodFile, NEW c \in f.synced .. f.size
    PROVE  Follows(f, Cut(f, c))
<1> DEFINE kept == {x \in f.chunks : x.at < c}
           cut == {CutChunk(k, c) : k \in kept}
           g == Cut(f, c)
<1>0. /\ f \in File /\ f.synced <= f.size /\ c \in Nat /\ f.synced <= c
      /\ f.size \in Nat /\ f.synced \in Nat /\ f.chunks \in SUBSET Chunk
      /\ \A k \in f.chunks : k.n >= 1
  BY DEF GoodFile, File
<1>1. ASSUME NEW k \in kept
      PROVE  CutChunk(k, c) \in Chunk /\ CutChunk(k, c).n >= 1
  <2>1. k \in Chunk /\ k.at < c /\ k.n >= 1
    BY <1>0
  <2>2. k.at \in Nat /\ k.n \in Nat /\ k.rec \in Record
        /\ c - k.at \in Nat /\ c - k.at >= 1
    BY <1>0, <2>1 DEF Chunk
  <2>3. [k EXCEPT !.n = c - k.at] \in Chunk
        /\ [k EXCEPT !.n = c - k.at].n = c - k.at
    BY <2>1, <2>2 DEF Chunk
  <2> QED
    BY <2>1, <2>2, <2>3 DEF CutChunk
<1>2. cut \in SUBSET Chunk /\ \A k \in cut : k.n >= 1
  BY <1>1
<1>3. g = [f EXCEPT !.size = c, !.chunks = cut]
  BY DEF Cut
<1>4. ASSUME NEW k, Safe(f, k)
      PROVE  k \in cut
  <2>1. k \in f.chunks /\ k.n = k.rec.size /\ k.at + k.n <= f.synced
    BY <1>4 DEF Safe
  <2>2. k.at \in Nat /\ k.n \in Nat /\ k.n >= 1
    BY <1>0, <2>1 DEF Chunk
  <2>3. k.at + k.n <= c /\ k.at < c
    BY <1>0, <2>1, <2>2
  <2>4. k \in kept /\ CutChunk(k, c) = k
    BY <2>1, <2>3 DEF CutChunk
  <2> QED
    BY <2>4
<1> HIDE DEF cut
<1>5. /\ g \in File /\ (f.exists => g.exists)
      /\ g.size = c /\ g.synced = f.synced /\ g.chunks = cut
  <2>1. g \in File
    BY <1>0, <1>2, <1>3 DEF File
  <2>2. f.exists => g.exists
    BY <1>0, <1>3 DEF File
  <2>3. g.size = c /\ g.synced = f.synced /\ g.chunks = cut
    BY <1>0, <1>3 DEF File
  <2> QED
    BY <2>1, <2>2, <2>3
<1> HIDE DEF g
<1>6. Follows(f, g)
  BY <1>0, <1>2, <1>4, <1>5 DEF Follows, GoodFile, Safe
<1> QED
  BY <1>6 DEF g

(* The LSN found in a file is a number.                                    *)
LEMMA LatestLSNType ==
    ASSUME NEW f \in File
    PROVE  GetLatestLSN(f) \in Nat
<1> DEFINE seen == WholePrefix(f) \cup
                   {t \in Torn(f) : t = FirstTorn(f) /\ t.n >= RecordHeaderSize}
           Last(k) == \A j \in seen : j.at <= k.at
<1>1. \A k \in seen : k.rec.lsn \in Nat
  BY DEF WholePrefix, Torn, File, Chunk, Record
<1>2. CASE \E k \in seen : Last(k)
  <2>1. (CHOOSE k \in seen : Last(k)) \in seen
    BY <1>2
  <2> HIDE DEF seen
  <2>2. (CHOOSE k \in seen : Last(k)).rec.lsn \in Nat
    BY <1>1, <2>1
  <2> QED
    BY <1>2, <2>2 DEF GetLatestLSN, seen
<1>3. CASE ~ \E k \in seen : Last(k)
  BY <1>3 DEF GetLatestLSN
<1> QED
  BY <1>2, <1>3

-----------------------------------------------------------------------------
(* What one step does to the disk                                          *)

FilesOK == disk \in [SegIDs -> GoodFile]

(* What the steps of an append rely on: only a running log serves a call,  *)
(* and the files the next step touches exist.                              *)
CallOK ==
    /\ stage # "idle" => phase \in {"ready", "closed"} /\ rec.size >= 1
    /\ file = "open" => active \in SegIDs /\ disk[active].exists
    /\ stage \in {"create", "header"} => segID \in SegIDs
    /\ stage = "header" => disk[segID].exists
    /\ stage = "sync" => active \in SegIDs /\ disk[active].exists
    /\ phase = "opening" => disk[1].exists

TypeInv == TypeOK /\ FilesOK /\ CallOK

DiskFollows ==
    /\ disk' \in [SegIDs -> GoodFile]
    /\ \A s \in SegIDs : Follows(disk[s], disk'[s])

LEMMA OneFile ==
    ASSUME FilesOK, NEW s, NEW g, s \in SegIDs => Follows(disk[s], g),
           disk' = [disk EXCEPT ![s] = g]
    PROVE  DiskFollows
<1>1. ASSUME NEW t \in SegIDs
      PROVE  disk'[t] \in GoodFile /\ Follows(disk[t], disk'[t])
  <2>1. disk[t] \in GoodFile
    BY DEF FilesOK
  <2>2. Follows(disk[t], disk[t])
    BY <2>1, UpdateFollows
  <2>3. CASE t = s
    BY <2>3 DEF FilesOK, Follows
  <2>4. CASE t # s
    BY <2>1, <2>2, <2>4 DEF FilesOK
  <2> QED
    BY <2>3, <2>4
<1> QED
  BY <1>1 DEF FilesOK, DiskFollows

(* No step loses anything that was safe, whatever it is.                   *)
LEMMA DiskStep == TypeInv /\ [Next]_vars => DiskFollows
<1> SUFFICES ASSUME TypeInv, [Next]_vars PROVE DiskFollows
  OBVIOUS
<1>0. FilesOK /\ rec \in Record /\ rec.size \in Nat
  BY DEF TypeInv, TypeOK, Record
<1>1. \A s \in SegIDs : disk[s] \in GoodFile
  BY <1>0 DEF FilesOK
<1>2. CASE disk' = disk
  BY <1>0, <1>1, <1>2, UpdateFollows DEF FilesOK, DiskFollows
<1>3. ASSUME NEW s, disk' = [disk EXCEPT ![s] = Created(@)]
      PROVE  DiskFollows
  <2>1. s \in SegIDs => Follows(disk[s], Created(disk[s]))
    BY <1>1, UpdateFollows
  <2> QED
    BY <1>0, <1>3, <2>1, OneFile
<1>4. ASSUME NEW s, disk' = [disk EXCEPT ![s] = Headed(@)]
      PROVE  DiskFollows
  <2>1. s \in SegIDs => Follows(disk[s], Headed(disk[s]))
    BY <1>1, UpdateFollows
  <2> QED
    BY <1>0, <1>4, <2>1, OneFile
<1>5. ASSUME NEW s, disk' = [disk EXCEPT ![s] = Sealed(@)]
      PROVE  DiskFollows
  <2>1. s \in SegIDs => Follows(disk[s], Sealed(disk[s]))
    BY <1>1, UpdateFollows
  <2> QED
    BY <1>0, <1>5, <2>1, OneFile
<1>6. ASSUME NEW s, disk' = [disk EXCEPT ![s] = Synced(@)]
      PROVE  DiskFollows
  <2>1. s \in SegIDs => Follows(disk[s], Synced(disk[s]))
    BY <1>1, UpdateFollows
  <2> QED
    BY <1>0, <1>6, <2>1, OneFile
<1>7. ASSUME NEW s, NEW n \in Nat, disk' = [disk EXCEPT ![s] = Write(@, rec, n)]
      PROVE  DiskFollows
  <2>1. s \in SegIDs => Follows(disk[s], Write(disk[s], rec, n))
    BY <1>0, <1>1, WriteFollows
  <2> QED
    BY <1>0, <1>7, <2>1, OneFile
<1>8. ASSUME NEW s \in SegIDs, LoseTail(s)
      PROVE  DiskFollows
  <2>1. PICK c \in disk[s].synced .. disk[s].size :
          disk' = [disk EXCEPT ![s] = Cut(@, c)]
    BY <1>8 DEF LoseTail
  <2>2. Follows(disk[s], Cut(disk[s], c))
    BY <1>1, CutFollows
  <2> QED
    BY <1>0, <2>1, <2>2, OneFile
<1>9. CASE PowerOn
  BY <1>1, <1>9, UpdateFollows DEF PowerOn, DiskFollows, Follows
<1>10. CASE AppendInsert \/ AppendDelete
  BY <1>2, <1>10 DEF AppendInsert, AppendDelete, BeginAppend
<1>11. CASE SealSegment
  BY <1>5, <1>11 DEF SealSegment
<1>12. CASE SealUnusable \/ WriteUnusable
  BY <1>2, <1>12 DEF SealUnusable, WriteUnusable
<1>13. CASE CreateSegment
  BY <1>2, <1>3, <1>13 DEF CreateSegment
<1>14. CASE WriteSegmentHeader
  BY <1>2, <1>4, <1>14 DEF WriteSegmentHeader
<1>15. CASE WriteRecord
  <2>1. \A n \in 0 .. rec.size - 1 : n \in Nat
    OBVIOUS
  <2> QED
    BY <1>0, <1>7, <1>15, <2>1 DEF WriteRecord
<1>16. CASE SyncRecord
  BY <1>2, <1>6, <1>16 DEF SyncRecord
<1>17. CASE BackgroundSync
  BY <1>6, <1>17 DEF BackgroundSync
<1>18. CASE Close
  BY <1>2, <1>6, <1>18 DEF Close
<1>19. CASE Stop
  BY <1>2, <1>19 DEF Stop
<1>20. CASE StopInWrite
  <2>1. \A n \in 1 .. rec.size - 1 : n \in Nat
    OBVIOUS
  <2> QED
    BY <1>7, <1>20, <2>1 DEF StopInWrite
<1>21. CASE OpenExisting
  BY <1>2, <1>21 DEF OpenExisting
<1>22. CASE CreateFirst
  BY <1>2, <1>3, <1>22 DEF CreateFirst
<1>23. CASE FirstHeader
  BY <1>2, <1>4, <1>23 DEF FirstHeader
<1>24. CASE Recover
  BY <1>2, <1>6, <1>24 DEF Recover
<1>25. CASE UNCHANGED vars
  BY <1>2, <1>25 DEF vars
<1> QED
  BY <1>8, <1>9, <1>10, <1>11, <1>12, <1>13, <1>14, <1>15, <1>16, <1>17, <1>18,
     <1>19, <1>20, <1>21, <1>22, <1>23, <1>24, <1>25 DEF Next, CallStep

-----------------------------------------------------------------------------
(* Type correctness                                                        *)

LEMMA TypeInit == Init => TypeInv
<1> SUFFICES ASSUME Init PROVE TypeInv
  OBVIOUS
<1>1. NoFile \in GoodFile /\ NoFile \in File
  BY DEF NoFile, File, GoodFile
<1>2. NoRecord \in Record
  BY DEF NoRecord, Record
<1> QED
  BY <1>1, <1>2 DEF Init, TypeInv, TypeOK, FilesOK, CallOK

(* The variables other than disk, one step per action.                     *)
LEMMA TypeStep == TypeInv /\ [Next]_vars => TypeInv'
<1> SUFFICES ASSUME TypeInv, [Next]_vars PROVE TypeInv'
  OBVIOUS
<1>0. /\ disk \in [SegIDs -> File] /\ TypeOK /\ CallOK
      /\ 1 \in SegIDs /\ SegIDs \subseteq Nat
      /\ rec \in Record /\ rec.tag \in Nat /\ rec.size \in Nat
  BY BoundAssumption DEF TypeInv, TypeOK, SegIDs, Record
<1>d. /\ disk' \in [SegIDs -> File] /\ FilesOK'
      /\ \A s \in SegIDs : disk[s].exists => disk'[s].exists
  BY DiskStep DEF DiskFollows, Follows, FilesOK, GoodFile
<1>e. ASSUME NEW e, Fails(e) \/ UNCHANGED errors
      PROVE  errors' \in Nat
  BY <1>0, <1>e DEF Fails, TypeOK
<1>r. ASSUME ReturnError \/ ReturnNil \/ UNCHANGED <<rec, history>>
      PROVE  acked' \subseteq Nat /\ promised' \subseteq acked' /\ rec' = rec
  <2>1. CASE ReturnNil
    BY <1>0, <2>1 DEF ReturnNil, TypeOK
  <2>2. CASE ReturnError \/ UNCHANGED <<rec, history>>
    BY <1>0, <2>2 DEF ReturnError, history, TypeOK
  <2> QED
    BY <1>r, <2>1, <2>2
<1> SUFFICES TypeOK' /\ CallOK'
  BY <1>d DEF TypeInv
<1>1. CASE AppendInsert \/ AppendDelete
  <2>1. PICK op \in {"insert", "delete"}, size \in Nat :
          size >= 1 /\ BeginAppend(op, size)
    BY <1>1, SizeAssumption DEF AppendInsert, AppendDelete, MinRecordSize
  <2>2. rec' \in Record /\ rec'.size >= 1
    BY <1>0, <2>1 DEF BeginAppend, TypeOK, Record
  <2>3. stage' \in {"rotate", "write"}
    BY <2>1 DEF BeginAppend
  <2> QED
    BY <1>0, <1>d, <2>1, <2>2, <2>3 DEF BeginAppend, TypeOK, CallOK, history
<1>2. CASE SealSegment
  <2>1. segID + 1 \in SegIDs
    BY <1>0, <1>2, BoundAssumption DEF SealSegment, TypeOK, SegIDs
  <2>2. CASE segID' = segID + 1 /\ stage' = "create"
             /\ UNCHANGED <<rec, history, errors>>
    BY <1>0, <1>d, <1>2, <2>1, <2>2
       DEF SealSegment, TypeOK, CallOK, history
  <2>3. CASE Fails("close") /\ ReturnError /\ UNCHANGED segID
    BY <1>0, <1>d, <1>2, <2>3
       DEF SealSegment, Fails, ReturnError, TypeOK, CallOK, history
  <2> QED
    BY <1>2, <2>2, <2>3 DEF SealSegment
<1>3. CASE SealUnusable \/ WriteUnusable
  BY <1>0, <1>d, <1>3
     DEF SealUnusable, WriteUnusable, ReturnError, TypeOK, CallOK, walVars,
         history, counters
<1>4. CASE CreateSegment
  <2>1. stage' = "header" => disk'[segID].exists
    <3> SUFFICES ASSUME stage' = "header" PROVE disk'[segID].exists
      OBVIOUS
    <3>1. disk' = [disk EXCEPT ![segID] = Created(@)] /\ segID \in SegIDs
      BY <1>0, <1>4 DEF CreateSegment, ReturnError, CallOK
    <3>2. disk'[segID] = Created(disk[segID])
      BY <1>0, <3>1
    <3> QED
      BY <1>0, <3>1, <3>2, CreatedFile
  <2>2. errors' \in Nat
    BY <1>4, <1>e DEF CreateSegment
  <2>3. acked' \subseteq Nat /\ promised' \subseteq acked' /\ rec' = rec
    BY <1>4, <1>r DEF CreateSegment
  <2>4. stage = "create" /\ stage' \in {"idle", "header"}
        /\ UNCHANGED <<walVars, appends, stops>>
    BY <1>4 DEF CreateSegment, ReturnError
  <2> QED
    BY <1>0, <1>d, <2>1, <2>2, <2>3, <2>4 DEF TypeOK, CallOK, walVars
<1>5. CASE WriteSegmentHeader
  <2>1. errors' \in Nat
    BY <1>5, <1>e DEF WriteSegmentHeader
  <2>2. acked' \subseteq Nat /\ promised' \subseteq acked' /\ rec' = rec
    BY <1>5, <1>r DEF WriteSegmentHeader
  <2>3. /\ stage = "header" /\ stage' \in {"idle", "write"}
        /\ \/ UNCHANGED <<active, currentSize, file>>
           \/ active' = segID /\ currentSize' = SegmentHeaderSize
              /\ file' = "open"
        /\ UNCHANGED <<phase, lsn, segID, appends, stops>>
    BY <1>5 DEF WriteSegmentHeader, ReturnError
  <2> QED
    BY <1>0, <1>d, <2>1, <2>2, <2>3 DEF TypeOK, CallOK, SegmentHeaderSize
<1>6. CASE WriteRecord
  <2>1. errors' \in Nat
    BY <1>6, <1>e DEF WriteRecord
  <2>2. acked' \subseteq Nat /\ promised' \subseteq acked' /\ rec' = rec
    BY <1>6, <1>r DEF WriteRecord
  <2>3. /\ stage = "write" /\ file = "open" /\ stage' \in {"idle", "sync"}
        /\ currentSize' = currentSize \/ currentSize' = currentSize + rec.size
        /\ UNCHANGED <<phase, lsn, segID, active, file, appends, stops>>
    BY <1>6 DEF WriteRecord, ReturnError, ReturnNil
  <2> QED
    BY <1>0, <1>d, <2>1, <2>2, <2>3 DEF TypeOK, CallOK
<1>7. CASE SyncRecord
  <2>1. errors' \in Nat
    BY <1>7, <1>e DEF SyncRecord
  <2>2. acked' \subseteq Nat /\ promised' \subseteq acked' /\ rec' = rec
    BY <1>7, <1>r DEF SyncRecord
  <2>3. stage' = "idle" /\ UNCHANGED <<walVars, appends, stops>>
    BY <1>7 DEF SyncRecord, ReturnError, ReturnNil
  <2> QED
    BY <1>0, <1>d, <2>1, <2>2, <2>3 DEF TypeOK, CallOK, walVars
<1>8. CASE BackgroundSync
  BY <1>0, <1>d, <1>8
     DEF BackgroundSync, TypeOK, CallOK, walVars, callVars, history, counters
<1>9. CASE Close
  <2>1. errors' \in Nat
    BY <1>9, <1>e DEF Close
  <2>2. acked' = acked /\ promised' \in {promised, promised \cup acked}
    BY <1>9 DEF Close, history
  <2>3. /\ phase' = "closed" /\ file' = "nil"
        /\ stage = "idle" /\ stage' = "idle" /\ rec' = rec
        /\ UNCHANGED <<lsn, segID, active, currentSize, appends, stops>>
    BY <1>9 DEF Close, callVars
  <2> QED
    BY <1>0, <1>d, <2>1, <2>2, <2>3 DEF TypeOK, CallOK
<1>10. ASSUME NEW point, StopsTo(point)
       PROVE  TypeOK' /\ CallOK'
  <2>1. NoRecord \in Record
    BY DEF NoRecord, Record
  <2>2. phase' \in {"down", "off"}
    BY <1>10 DEF StopsTo
  <2> QED
    BY <1>0, <1>d, <1>10, <2>1, <2>2
       DEF StopsTo, Forget, TypeOK, CallOK, history
<1>11. CASE Stop \/ StopInWrite
  BY <1>10, <1>11 DEF Stop, StopInWrite
<1>12. CASE PowerOn
  BY <1>0, <1>d, <1>12
     DEF PowerOn, TypeOK, CallOK, walVars, callVars, history, counters
<1>13. ASSUME NEW s \in SegIDs, LoseTail(s)
       PROVE  TypeOK' /\ CallOK'
  BY <1>0, <1>d, <1>13
     DEF LoseTail, TypeOK, CallOK, walVars, callVars, history, counters
<1>14. CASE OpenExisting
  <2>1. PICK s \in Segments :
          /\ segID' = s /\ active' = s
          /\ currentSize' = disk[s].size /\ lsn' = GetLatestLSN(disk[s])
    BY <1>14 DEF OpenExisting
  <2>2. s \in SegIDs /\ disk[s].exists /\ disk[s] \in File
    BY <1>0 DEF Segments
  <2>3. lsn' \in Nat /\ currentSize' \in Nat
    BY <2>1, <2>2, LatestLSNType DEF File
  <2> QED
    BY <1>0, <1>d, <1>14, <2>1, <2>2, <2>3
       DEF OpenExisting, TypeOK, CallOK, callVars, history, counters
<1>15. CASE CreateFirst
  <2>1. phase' = "opening" => disk'[1].exists
    <3> SUFFICES ASSUME phase' = "opening" PROVE disk'[1].exists
      OBVIOUS
    <3>1. disk' = [disk EXCEPT ![1] = Created(@)]
      BY <1>15 DEF CreateFirst
    <3>2. disk'[1] = Created(disk[1])
      BY <1>0, <3>1
    <3> QED
      BY <1>0, <3>2, CreatedFile
  <2> QED
    BY <1>0, <1>d, <1>15, <2>1
       DEF CreateFirst, Fails, TypeOK, CallOK, callVars, history
<1>16. CASE FirstHeader
  BY <1>0, <1>d, <1>16
     DEF FirstHeader, Fails, TypeOK, CallOK, callVars, history,
         SegmentHeaderSize
<1>17. CASE Recover
  <2>1. NoRecord \in Record
    BY DEF NoRecord, Record
  <2>2. CASE RecoverOK
    BY <1>0, <1>d, <1>17, <2>2
       DEF Recover, TypeOK, CallOK, callVars, history, counters
  <2>3. CASE ~RecoverOK
    <3>1. UNCHANGED <<acked, promised, counters>>
      BY <1>17, <2>3 DEF Recover, Forget, history
    <3>2. Forget /\ phase' = "down"
      BY <1>17, <2>3 DEF Recover
    <3> QED
      BY <1>0, <1>d, <2>1, <3>1, <3>2 DEF Forget, TypeOK, CallOK, counters
  <2> QED
    BY <2>2, <2>3
<1>18. CASE UNCHANGED vars
  BY <1>0, <1>d, <1>18
     DEF vars, walVars, callVars, history, counters, TypeOK, CallOK
<1> QED
  BY <1>1, <1>2, <1>3, <1>4, <1>5, <1>6, <1>7, <1>8, <1>9, <1>11, <1>12, <1>13,
     <1>14, <1>15, <1>16, <1>17, <1>18 DEF Next, CallStep

(* Every variable always holds a value the program could hold.             *)
THEOREM TypeCorrect == Spec => []TypeOK
<1>1. Spec => []TypeInv
  BY TypeInit, TypeStep, PTL DEF Spec
<1> QED
  BY <1>1, PTL DEF TypeInv

-----------------------------------------------------------------------------
(* Durability under SyncAlways                                             *)

(* Between the write and its fsync the whole record is in the active file. *)
SyncOK ==
    stage = "sync" =>
        \E k \in disk[active].chunks :
            /\ k.rec = rec /\ k.n = rec.size
            /\ k.at + k.n <= disk[active].size

DurableInv == TypeInv /\ SyncOK /\ acked \subseteq promised /\ PromisedDurable

(* A tag that is on stable storage stays there.                            *)
LEMMA OnDiskStable ==
    ASSUME TypeInv, [Next]_vars, NEW t, OnDisk(t)
    PROVE  OnDisk(t)'
<1>1. PICK s \in SegIDs : /\ disk[s].exists
                          /\ \E k : Safe(disk[s], k) /\ k.rec.tag = t
  BY DEF OnDisk, Segments, Safe
<1>2. disk'[s].exists /\ \E k : Safe(disk'[s], k) /\ k.rec.tag = t
  BY <1>1, DiskStep DEF DiskFollows, Follows
<1> QED
  BY <1>2 DEF OnDisk, Segments, Safe

(* Nothing moves between a write and its fsync but the process stopping.   *)
LEMMA SyncStage ==
    ASSUME TypeInv, [Next]_vars, stage' = "sync"
    PROVE  WriteRecord \/ (stage = "sync" /\ UNCHANGED <<disk, active, rec>>)
<1>1. stage = "sync" => phase \in {"ready", "closed"}
  BY DEF TypeInv, CallOK
<1>2. CASE AppendInsert \/ AppendDelete
  BY <1>2 DEF AppendInsert, AppendDelete, BeginAppend
<1>3. CASE CallStep
  BY <1>3 DEF CallStep, SealSegment, SealUnusable, CreateSegment,
              WriteSegmentHeader, WriteUnusable, SyncRecord, ReturnError,
              ReturnNil
<1>4. CASE BackgroundSync \/ Close \/ Stop \/ StopInWrite
  BY <1>4 DEF BackgroundSync, Close, Stop, StopInWrite, StopsTo, Forget,
              callVars
<1>5. CASE PowerOn \/ \E s \in SegIDs : LoseTail(s)
  BY <1>1, <1>5 DEF PowerOn, LoseTail, callVars
<1>6. CASE OpenExisting \/ CreateFirst \/ FirstHeader \/ Recover
  BY <1>1, <1>6 DEF OpenExisting, CreateFirst, FirstHeader, Recover, Forget,
                    callVars
<1>7. CASE UNCHANGED vars
  BY <1>7 DEF vars, callVars, walVars
<1> QED
  BY <1>2, <1>3, <1>4, <1>5, <1>6, <1>7 DEF Next

LEMMA SyncStep == TypeInv /\ SyncOK /\ [Next]_vars => SyncOK'
<1> SUFFICES ASSUME TypeInv, SyncOK, [Next]_vars, stage' = "sync"
             PROVE  \E k \in disk'[active'].chunks :
                       /\ k.rec = rec' /\ k.n = rec'.size
                       /\ k.at + k.n <= disk'[active'].size
  BY DEF SyncOK
<1>1. CASE WriteRecord
  <2>1. /\ disk' = [disk EXCEPT ![active] = Write(@, rec, rec.size)]
        /\ active' = active /\ rec' = rec
        /\ stage = "write" /\ file = "open"
    BY <1>1 DEF WriteRecord, ReturnError, ReturnNil
  <2>2. /\ active \in SegIDs /\ disk[active] \in GoodFile
        /\ rec \in Record /\ rec.size \in Nat /\ rec.size # 0
    BY <2>1 DEF TypeInv, TypeOK, CallOK, FilesOK, Record
  <2>3. disk'[active] = Write(disk[active], rec, rec.size)
    BY <2>1, <2>2 DEF TypeInv, FilesOK
  <2> QED
    BY <2>1, <2>2, <2>3, WriteFollows
<1>2. CASE stage = "sync" /\ UNCHANGED <<disk, active, rec>>
  BY <1>2 DEF SyncOK
<1> QED
  BY <1>1, <1>2, SyncStage

(* Under SyncAlways only an fsync acknowledges, and it acknowledges only   *)
(* what it put on the disk.                                                *)
LEMMA DurableStep ==
    ASSUME SyncPolicy = "SyncAlways", DurableInv, [Next]_vars
    PROVE  DurableInv'
<1>1. TypeInv /\ TypeInv' /\ SyncOK'
  BY TypeStep, SyncStep DEF DurableInv
<1>2. ASSUME SyncRecord, ReturnNil, disk' = [disk EXCEPT ![active] = Synced(@)]
      PROVE  OnDisk(rec.tag)'
  <2>1. /\ active \in SegIDs /\ disk[active].exists
        /\ disk[active] \in GoodFile /\ disk[active] \in File
    BY <1>1, <1>2 DEF TypeInv, CallOK, FilesOK, SyncRecord, GoodFile
  <2>2. disk'[active] = Synced(disk[active])
    BY <1>1, <1>2, <2>1 DEF TypeInv, FilesOK
  <2>3. PICK k \in disk[active].chunks :
          /\ k.rec = rec /\ k.n = rec.size /\ k.at + k.n <= disk[active].size
    BY <1>2 DEF DurableInv, SyncOK, SyncRecord
  <2>4. /\ disk'[active].exists /\ k \in disk'[active].chunks
        /\ k.at + k.n <= disk'[active].synced
    BY <2>1, <2>2, <2>3, SyncedFile
  <2>5. rec' = rec
    BY <1>2 DEF ReturnNil
  <2> QED
    BY <2>5, <2>1, <2>3, <2>4 DEF OnDisk, Segments
<1>3. \A t \in promised : OnDisk(t)'
  BY <1>1, OnDiskStable DEF DurableInv, PromisedDurable
<1>4. \/ UNCHANGED history
      \/ acked' = acked /\ promised' = promised \cup acked
      \/ SyncRecord /\ ReturnNil
         /\ disk' = [disk EXCEPT ![active] = Synced(@)]
  <2>1. CASE AppendInsert \/ AppendDelete
    BY <2>1 DEF AppendInsert, AppendDelete, BeginAppend
  <2>2. CASE SealSegment \/ SealUnusable \/ CreateSegment
    BY <2>2 DEF SealSegment, SealUnusable, CreateSegment, ReturnError, history
  <2>3. CASE WriteSegmentHeader \/ WriteRecord \/ WriteUnusable
    BY <2>3 DEF WriteSegmentHeader, WriteRecord, WriteUnusable, ReturnError,
                history
  <2>4. CASE SyncRecord
    BY <2>4 DEF SyncRecord, ReturnError
  <2>5. CASE Close
    BY <2>5 DEF Close, history
  <2>6. CASE BackgroundSync \/ Stop \/ StopInWrite
    BY <2>6 DEF BackgroundSync, Stop, StopInWrite, StopsTo, Forget
  <2>7. CASE PowerOn \/ \E s \in SegIDs : LoseTail(s)
    BY <2>7 DEF PowerOn, LoseTail
  <2>8. CASE OpenExisting \/ CreateFirst \/ FirstHeader \/ Recover
    BY <2>8 DEF OpenExisting, CreateFirst, FirstHeader, Recover, Forget
  <2>9. CASE UNCHANGED vars
    BY <2>9 DEF vars, history
  <2> QED
    BY <2>1, <2>2, <2>3, <2>4, <2>5, <2>6, <2>7, <2>8, <2>9 DEF Next, CallStep
<1>5. acked' \subseteq promised' /\ \A t \in promised' : OnDisk(t)'
  <2>1. CASE UNCHANGED history
    BY <1>3, <2>1 DEF history, DurableInv
  <2>2. CASE acked' = acked /\ promised' = promised \cup acked
    BY <1>3, <2>2 DEF DurableInv
  <2>3. CASE SyncRecord /\ ReturnNil
             /\ disk' = [disk EXCEPT ![active] = Synced(@)]
    BY <1>2, <1>3, <2>3 DEF ReturnNil, DurableInv
  <2> QED
    BY <1>4, <2>1, <2>2, <2>3
<1> QED
  BY <1>1, <1>5 DEF DurableInv, PromisedDurable

(* Under SyncAlways whatever an append acknowledged, or a Close promised,  *)
(* is on stable storage for good: through failing writes, fsyncs, closes   *)
(* and rotations, process crashes, torn writes, power failures and         *)
(* restarts.  (Under SyncOS what a Close promised may be lost from sealed  *)
(* segments.)                                                              *)
THEOREM Durable ==
    ASSUME SyncPolicy = "SyncAlways"
    PROVE  Spec => []PromisedDurable
<1>1. Init => DurableInv
  BY TypeInit DEF Init, DurableInv, SyncOK, PromisedDurable
<1>2. DurableInv /\ [Next]_vars => DurableInv'
  BY DurableStep
<1>3. DurableInv => PromisedDurable
  BY DEF DurableInv
<1> QED
  BY <1>1, <1>2, <1>3, PTL DEF Spec

-----------------------------------------------------------------------------
(* The chunks of one file                                                  *)

(* Behind the header the chunks lie end to end and nothing else is there;  *)
(* a file that does not exist is empty.                                    *)
Layout(f) ==
    /\ \A k \in f.chunks : k.n <= k.rec.size /\ k.at + k.n <= f.size
    /\ \A j, k \in f.chunks :
          j = k \/ j.at + j.n <= k.at \/ k.at + k.n <= j.at
    /\ \A p \in Nat : SegmentHeaderSize <= p /\ p < f.size =>
          \E k \in f.chunks : k.at <= p /\ p < k.at + k.n
    /\ ~f.exists => f.size = 0 /\ f.chunks = {}

(* g holds what f held up to some offset.                                  *)
Prefix(f, g) ==
    /\ \A k \in g.chunks :
          \E j \in f.chunks : j.at = k.at /\ j.rec = k.rec /\ k.n <= j.n
    /\ \A k \in g.chunks : \A j \in f.chunks : j.at < k.at =>
          \E i \in g.chunks : i.at = j.at /\ i.rec = j.rec /\ i.n <= j.n

LEMMA GoodFields ==
    ASSUME NEW f \in GoodFile
    PROVE  /\ f \in File /\ f.size \in Nat /\ f.synced \in Nat
           /\ f.synced <= f.size
           /\ \A k \in f.chunks :
                 /\ k.at \in Nat /\ k.n \in Nat /\ k.n >= 1 /\ k.rec \in Record
                 /\ k.rec.tag \in Nat /\ k.rec.lsn \in Nat /\ k.rec.size \in Nat
BY DEF GoodFile, File, Chunk, Record

LEMMA SamePrefix ==
    ASSUME NEW f \in GoodFile, NEW g, g.chunks = f.chunks
    PROVE  Prefix(f, g)
BY GoodFields DEF Prefix

LEMMA SameLayout ==
    ASSUME NEW f, NEW g, Layout(f), g.chunks = f.chunks, g.size = f.size,
           f.exists => g.exists
    PROVE  Layout(g)
BY DEF Layout

(* What existed goes on to exist, and nothing but creation makes a file.   *)
LEMMA SameExists ==
    ASSUME NEW f \in File
    PROVE  /\ Headed(f).exists = f.exists /\ Sealed(f).exists = f.exists
           /\ Synced(f).exists = f.exists
           /\ \A r, n : Write(f, r, n).exists = f.exists
           /\ \A c : Cut(f, c).exists = f.exists
<1>1. Headed(f).exists = f.exists /\ Sealed(f).exists = f.exists
  BY DEF Headed, Sealed, File
<1>2. Synced(f).exists = f.exists
  BY DEF Synced, File
<1>3. \A r, n : Write(f, r, n).exists = f.exists
  BY DEF Write, File
<1>4. \A c : Cut(f, c).exists = f.exists
  BY DEF Cut, File
<1> QED
  BY <1>1, <1>2, <1>3, <1>4

(* The header is the first thing in a file.                                *)
LEMMA HeadedLayout ==
    ASSUME NEW f \in GoodFile, Layout(f), f.size = 0, f.exists
    PROVE  Layout(Headed(f)) /\ f.chunks = {}
<1>1. f.chunks = {}
  BY GoodFields DEF Layout
<1>2. /\ Headed(f).chunks = {} /\ Headed(f).size = 1 /\ Headed(f).exists
  BY <1>1, GoodFields, HeadedFile
<1> QED
  BY <1>1, <1>2 DEF Layout, SegmentHeaderSize

(* The fields of a file that was written to, and of one that was cut.      *)
LEMMA WrittenFields ==
    ASSUME NEW f \in GoodFile, NEW r, NEW n \in Nat
    PROVE  /\ Write(f, r, n).size = f.size + n
           /\ Write(f, r, n).chunks = f.chunks \cup
                (IF n = 0 THEN {} ELSE {[at |-> f.size, n |-> n, rec |-> r]})
<1>1. f \in File
  BY GoodFields
<1> QED
  BY <1>1 DEF Write, File

LEMMA WriteNothing ==
    ASSUME NEW f \in GoodFile, NEW r
    PROVE  Write(f, r, 0).size = f.size /\ Write(f, r, 0).chunks = f.chunks
<1>1. /\ Write(f, r, 0).size = f.size + 0
      /\ Write(f, r, 0).chunks = f.chunks \cup (IF 0 = 0 THEN {} ELSE
                                  {[at |-> f.size, n |-> 0, rec |-> r]})
  BY WrittenFields
<1> QED
  BY <1>1, GoodFields

LEMMA CutFields ==
    ASSUME NEW f \in GoodFile, NEW c
    PROVE  /\ Cut(f, c).size = c
           /\ Cut(f, c).chunks =
                {CutChunk(k, c) : k \in {x \in f.chunks : x.at < c}}
<1>1. f \in File
  BY GoodFields
<1> QED
  BY <1>1 DEF Cut, File

(* A chunk is written behind all others.                                   *)
LEMMA WriteLayout ==
    ASSUME NEW f \in GoodFile, Layout(f), f.exists,
           NEW r \in Record, NEW n \in 0 .. r.size
    PROVE  Layout(Write(f, r, n))
<1> DEFINE g == Write(f, r, n)
           k0 == [at |-> f.size, n |-> n, rec |-> r]
<1>1. g.size = f.size + n /\ n \in Nat /\ f.size \in Nat /\ g.exists
  BY GoodFields, WrittenFields, SameExists DEF Record
<1>2. CASE n = 0
  <2>1. g.chunks = f.chunks \cup (IF n = 0 THEN {} ELSE {k0})
    BY <1>1, WrittenFields
  <2> HIDE DEF g, k0
  <2>2. g.chunks = f.chunks
    BY <1>2, <2>1
  <2>3. g.size = f.size
    <3>1. f.size + 0 = f.size
      BY <1>1
    <3> QED
      BY <1>1, <1>2, <3>1
  <2> QED
    BY <1>1, <2>2, <2>3, SameLayout DEF g
<1>3. CASE n # 0
  <2>1. g.chunks = f.chunks \cup {k0}
    BY <1>1, <1>3, WrittenFields
  <2>2. k0.at = f.size /\ k0.n = n /\ k0.rec = r
    OBVIOUS
  <2> HIDE DEF g, k0
  <2>3. \A k \in g.chunks : k.n <= k.rec.size /\ k.at + k.n <= g.size
    BY <1>1, <2>1, <2>2, GoodFields DEF Layout
  <2>4. \A j, k \in g.chunks :
           j = k \/ j.at + j.n <= k.at \/ k.at + k.n <= j.at
    BY <1>1, <2>1, <2>2, GoodFields DEF Layout
  <2>5. ASSUME NEW p \in Nat, SegmentHeaderSize <= p, p < g.size
        PROVE  \E k \in g.chunks : k.at <= p /\ p < k.at + k.n
    <3>1. CASE p < f.size
      BY <2>1, <2>5, <3>1 DEF Layout
    <3>2. CASE p >= f.size
      BY <1>1, <2>1, <2>2, <2>5, <3>2
    <3> QED
      BY <1>1, <3>1, <3>2
  <2>6. Layout(g)
    BY <1>1, <2>3, <2>4, <2>5 DEF Layout
  <2> QED
    BY <2>6 DEF g
<1> QED
  BY <1>2, <1>3

(* A cut takes what lay behind it, and at most tears one chunk.            *)
LEMMA CutPrefix ==
    ASSUME NEW f \in GoodFile, Layout(f), f.exists, NEW c \in 0 .. f.size
    PROVE  Layout(Cut(f, c)) /\ Prefix(f, Cut(f, c))
<1> DEFINE g == Cut(f, c)
<1>1. /\ g.size = c /\ c \in Nat /\ f.size \in Nat /\ c <= f.size
      /\ g.exists
      /\ g.chunks = {CutChunk(k, c) : k \in {x \in f.chunks : x.at < c}}
  BY GoodFields, CutFields, SameExists
<1>2. ASSUME NEW k \in f.chunks, k.at < c
      PROVE  /\ CutChunk(k, c).at = k.at /\ CutChunk(k, c).rec = k.rec
             /\ CutChunk(k, c).n =
                  (IF k.at + k.n <= c THEN k.n ELSE c - k.at)
  <2>1. k \in Chunk
    BY DEF GoodFile, File
  <2> QED
    BY <2>1 DEF CutChunk, Chunk
<1> HIDE DEF g
<1>3. ASSUME NEW k \in g.chunks
      PROVE  \E j \in f.chunks :
                /\ j.at = k.at /\ j.rec = k.rec /\ j.at < c
                /\ k = CutChunk(j, c)
                /\ k.n = (IF j.at + j.n <= c THEN j.n ELSE c - j.at)
                /\ k.n <= j.n /\ k.at + k.n <= c
                /\ k.at + k.n <= j.at + j.n
  BY <1>1, <1>2, GoodFields
<1>4. ASSUME NEW j \in f.chunks, j.at < c
      PROVE  /\ CutChunk(j, c) \in g.chunks
             /\ CutChunk(j, c).at = j.at /\ CutChunk(j, c).rec = j.rec
             /\ CutChunk(j, c).n <= j.n
             /\ \A p \in Nat : p < c /\ p < j.at + j.n =>
                   p < j.at + CutChunk(j, c).n
  BY <1>1, <1>2, <1>4, GoodFields
<1>5. \A k \in g.chunks : k.n <= k.rec.size /\ k.at + k.n <= g.size
  BY <1>1, <1>3, GoodFields DEF Layout
<1>6. ASSUME NEW k1 \in g.chunks, NEW k2 \in g.chunks
      PROVE  k1 = k2 \/ k1.at + k1.n <= k2.at \/ k2.at + k2.n <= k1.at
  <2>1. PICK j1 \in f.chunks :
          k1 = CutChunk(j1, c) /\ j1.at = k1.at /\ k1.n <= j1.n
          /\ k1.n = (IF j1.at + j1.n <= c THEN j1.n ELSE c - j1.at)
    BY <1>3
  <2>2. PICK j2 \in f.chunks :
          k2 = CutChunk(j2, c) /\ j2.at = k2.at /\ k2.n <= j2.n
          /\ k2.n = (IF j2.at + j2.n <= c THEN j2.n ELSE c - j2.at)
    BY <1>3
  <2>3. /\ j1.at \in Nat /\ j1.n \in Nat /\ j2.at \in Nat /\ j2.n \in Nat
    BY GoodFields
  <2>4. j1 = j2 \/ j1.at + j1.n <= j2.at \/ j2.at + j2.n <= j1.at
    BY DEF Layout
  <2>5. CASE j1 = j2
    BY <2>1, <2>2, <2>5
  <2>6. CASE j1 # j2
    BY <1>1, <2>1, <2>2, <2>3, <2>4, <2>6
  <2> QED
    BY <2>5, <2>6
<1>7. ASSUME NEW p \in Nat, SegmentHeaderSize <= p, p < g.size
      PROVE  \E k \in g.chunks : k.at <= p /\ p < k.at + k.n
  <2>1. PICK j \in f.chunks : j.at <= p /\ p < j.at + j.n
    BY <1>1, <1>7 DEF Layout
  <2>2. j.at < c
    BY <1>1, <1>7, <2>1, GoodFields
  <2> QED
    BY <1>1, <1>4, <1>7, <2>1, <2>2
<1>8. Layout(g)
  BY <1>1, <1>5, <1>6, <1>7 DEF Layout
<1>9. ASSUME NEW k \in g.chunks, NEW j \in f.chunks, j.at < k.at
      PROVE  \E i \in g.chunks : i.at = j.at /\ i.rec = j.rec /\ i.n <= j.n
  <2>1. j.at < c
    BY <1>1, <1>3, <1>9, GoodFields
  <2> QED
    BY <1>4, <2>1
<1>10. Prefix(f, g)
  BY <1>3, <1>9 DEF Prefix
<1> QED
  BY <1>8, <1>10 DEF g

-----------------------------------------------------------------------------
(* What one step does to the chunks and to the control state               *)

Writing == stage \notin {"idle", "sync"}

Layouts == \A s \in SegIDs : Layout(disk[s])

(* The file that is written to is the latest segment, and a new segment is *)
(* made behind all others; only a running log writes.                      *)
Control ==
    /\ file = "open" => active \in SegIDs /\ IsLatest(active) /\ segID = active
    /\ stage = "create" => \A t \in Segments : t < segID
    /\ stage = "header" => IsLatest(segID) /\ disk[segID].size = 0
    /\ phase = "opening" => Segments = {1} /\ disk[1].size = 0
    /\ phase \in {"off", "down", "opening"} => file = "nil"
    /\ phase = "opened" => file = "open"
    /\ stage \in {"create", "header"} => file = "closed"
    /\ stage # "idle" => phase \in {"ready", "closed"}
    /\ Writing => rec.tag = appends /\ rec.lsn = lsn /\ rec.size \in Sizes

ControlInv == TypeInv /\ Layouts /\ Control

(* A step that writes n cells of the record to the active segment.         *)
Writes(n) ==
    /\ stage = "write" /\ file = "open" /\ n \in 1 .. rec.size
    /\ WriteRecord \/ StopInWrite
    /\ disk' = [disk EXCEPT ![active] = Write(@, rec, n)]

(* What else a step may leave of a file: what it held, up to some offset;  *)
(* and with the power on, all of it.  Only a header makes a file larger.   *)
Left(f, g) ==
    /\ Layout(g) /\ Prefix(f, g)
    /\ \/ g.size <= f.size
       \/ g.chunks = {} /\ (stage = "header" \/ phase = "opening")
    /\ phase # "off" => g.chunks = f.chunks /\ g.size >= f.size
    /\ file = "open" => g.size = f.size
Keeps == \A s \in SegIDs : Left(disk[s], disk'[s])

LEMMA SizeNat == \A n \in Sizes : n \in Nat /\ n >= 1
BY SizeAssumption DEF Sizes, MinRecordSize

LEMMA ControlFacts ==
    ASSUME ControlInv
    PROVE  /\ SegIDs \subseteq Nat /\ 1 \in SegIDs
           /\ \A s \in SegIDs : disk[s] \in GoodFile /\ disk[s] \in File
           /\ rec \in Record /\ rec.size \in Nat /\ rec.tag \in Nat
           /\ lsn \in Nat /\ appends \in Nat
BY BoundAssumption DEF ControlInv, TypeInv, TypeOK, FilesOK, SegIDs, Record

(* Segments are only ever added, and by two steps only.                    *)
LEMMA SegmentsStep ==
    ASSUME ControlInv, [Next]_vars
    PROVE  \/ Segments' = Segments
           \/ CreateSegment /\ Segments' = Segments \cup {segID}
              /\ disk' = [disk EXCEPT ![segID] = Created(@)]
           \/ CreateFirst /\ Segments' = Segments \cup {1}
              /\ disk' = [disk EXCEPT ![1] = Created(@)]
<1>0. /\ disk \in [SegIDs -> GoodFile] /\ 1 \in SegIDs
      /\ \A s \in SegIDs : disk[s] \in File
  BY ControlFacts DEF ControlInv, TypeInv, FilesOK
<1>1. ASSUME NEW s, NEW g, s \in SegIDs => g.exists = disk[s].exists,
             disk' = [disk EXCEPT ![s] = g]
      PROVE  Segments' = Segments
  <2>1. \A t \in SegIDs : disk'[t].exists = disk[t].exists
    BY <1>0, <1>1
  <2> QED
    BY <2>1 DEF Segments
<1>2. CASE disk' = disk
  BY <1>2 DEF Segments
<1>3. ASSUME NEW s, disk' = [disk EXCEPT ![s] = Headed(@)]
      PROVE  Segments' = Segments
  <2>1. s \in SegIDs => Headed(disk[s]).exists = disk[s].exists
    BY <1>0, SameExists
  <2> QED
    BY <1>1, <1>3, <2>1
<1>4. ASSUME NEW s, disk' = [disk EXCEPT ![s] = Sealed(@)]
      PROVE  Segments' = Segments
  <2>1. s \in SegIDs => Sealed(disk[s]).exists = disk[s].exists
    BY <1>0, SameExists
  <2> QED
    BY <1>1, <1>4, <2>1
<1>5. ASSUME NEW s, disk' = [disk EXCEPT ![s] = Synced(@)]
      PROVE  Segments' = Segments
  <2>1. s \in SegIDs => Synced(disk[s]).exists = disk[s].exists
    BY <1>0, SameExists
  <2> QED
    BY <1>1, <1>5, <2>1
<1>6. ASSUME NEW s, NEW n, disk' = [disk EXCEPT ![s] = Write(@, rec, n)]
      PROVE  Segments' = Segments
  <2>1. s \in SegIDs => Write(disk[s], rec, n).exists = disk[s].exists
    BY <1>0, SameExists
  <2> QED
    BY <1>1, <1>6, <2>1
<1>7. ASSUME NEW s, NEW c, disk' = [disk EXCEPT ![s] = Cut(@, c)]
      PROVE  Segments' = Segments
  <2>1. s \in SegIDs => Cut(disk[s], c).exists = disk[s].exists
    BY <1>0, SameExists
  <2> QED
    BY <1>1, <1>7, <2>1
<1>8. ASSUME NEW s, s \in SegIDs, disk' = [disk EXCEPT ![s] = Created(@)]
      PROVE  Segments' = Segments \cup {s}
  <2>1. disk'[s].exists /\ \A t \in SegIDs : t # s => disk'[t] = disk[t]
    BY <1>0, <1>8, CreatedFile
  <2> QED
    BY <1>8, <2>1 DEF Segments
<1>9. CASE PowerOn
  <2>1. \A t \in SegIDs : disk'[t].exists = disk[t].exists
    BY <1>0, <1>9, SameExists DEF PowerOn
  <2> QED
    BY <2>1 DEF Segments
<1>10. CASE CreateSegment
  <2>1. segID \in SegIDs
    BY <1>10 DEF CreateSegment, ControlInv, TypeInv, CallOK
  <2> QED
    BY <1>2, <1>8, <1>10, <2>1 DEF CreateSegment
<1>11. CASE CreateFirst
  BY <1>0, <1>2, <1>8, <1>11 DEF CreateFirst
<1>12. CASE AppendInsert \/ AppendDelete
  BY <1>2, <1>12 DEF AppendInsert, AppendDelete, BeginAppend
<1>13. CASE SealSegment \/ SealUnusable \/ WriteUnusable
  BY <1>2, <1>4, <1>13 DEF SealSegment, SealUnusable, WriteUnusable
<1>14. CASE WriteSegmentHeader \/ FirstHeader
  BY <1>2, <1>3, <1>14 DEF WriteSegmentHeader, FirstHeader
<1>15. CASE WriteRecord \/ StopInWrite
  BY <1>6, <1>15 DEF WriteRecord, StopInWrite
<1>16. CASE SyncRecord \/ BackgroundSync \/ Close \/ Recover
  BY <1>2, <1>5, <1>16 DEF SyncRecord, BackgroundSync, Close, Recover
<1>17. CASE Stop \/ OpenExisting \/ UNCHANGED vars
  BY <1>2, <1>17 DEF Stop, OpenExisting, vars
<1>18. CASE \E s \in SegIDs : LoseTail(s)
  BY <1>7, <1>18 DEF LoseTail
<1> QED
  BY <1>9, <1>10, <1>11, <1>12, <1>13, <1>14, <1>15, <1>16, <1>17, <1>18
     DEF Next, CallStep

LEMMA SameLeft ==
    ASSUME NEW f \in GoodFile, NEW g, Layout(f), g.chunks = f.chunks,
           g.size = f.size, f.exists => g.exists
    PROVE  Left(f, g)
BY SameLayout, SamePrefix, GoodFields DEF Left

(* Every step writes to the active segment or leaves what was there.       *)
LEMMA DiskShape ==
    ASSUME ControlInv, [Next]_vars
    PROVE  Keeps \/ \E n \in Nat : Writes(n)
<1>0. /\ disk \in [SegIDs -> GoodFile] /\ 1 \in SegIDs /\ Control
      /\ rec \in Record /\ rec.size \in Nat
      /\ \A s \in SegIDs : /\ disk[s] \in GoodFile /\ disk[s] \in File
                           /\ Layout(disk[s])
  BY ControlFacts DEF ControlInv, TypeInv, FilesOK, Layouts
<1>k. \A s \in SegIDs : Left(disk[s], disk[s])
  BY <1>0, SameLeft
<1>1. ASSUME NEW s, NEW g, s \in SegIDs => Left(disk[s], g),
             disk' = [disk EXCEPT ![s] = g]
      PROVE  Keeps
  BY <1>0, <1>k, <1>1 DEF Keeps
<1>2. CASE disk' = disk
  BY <1>k, <1>2 DEF Keeps
<1>3. ASSUME NEW s \in SegIDs
      PROVE  /\ Left(disk[s], Created(disk[s])) /\ Left(disk[s], Sealed(disk[s]))
             /\ Left(disk[s], Synced(disk[s]))
  BY <1>0, CreatedFile, SealedFile, SyncedFile, SameLeft
<1>4. ASSUME NEW s \in SegIDs, disk[s].size = 0, disk[s].exists,
             file # "open", stage = "header" \/ phase = "opening"
      PROVE  Left(disk[s], Headed(disk[s]))
  BY <1>0, <1>4, HeadedLayout, HeadedFile, SamePrefix DEF Left
<1>5. CASE WriteSegmentHeader
  <2>1. /\ segID \in SegIDs /\ file # "open" /\ stage = "header"
        /\ disk[segID].size = 0 /\ disk[segID].exists
    BY <1>0, <1>5 DEF WriteSegmentHeader, Control, IsLatest, Segments
  <2> QED
    BY <1>1, <1>2, <1>4, <1>5, <2>1 DEF WriteSegmentHeader
<1>6. CASE FirstHeader
  <2>1. /\ disk[1].size = 0 /\ disk[1].exists /\ file # "open"
        /\ phase = "opening"
    BY <1>0, <1>6 DEF FirstHeader, Control, Segments
  <2> QED
    BY <1>0, <1>1, <1>2, <1>4, <1>6, <2>1 DEF FirstHeader
<1>7. CASE WriteRecord
  <2>1. active \in SegIDs
    BY <1>0, <1>7 DEF WriteRecord, Control
  <2>2. PICK n \in 0 .. rec.size : disk' = [disk EXCEPT ![active] = Write(@, rec, n)]
    BY <1>0, <1>7 DEF WriteRecord
  <2>3. CASE n = 0
    <3>1. /\ Write(disk[active], rec, n).chunks = disk[active].chunks
          /\ Write(disk[active], rec, n).size = disk[active].size
      BY <1>0, <2>1, <2>3, WriteNothing
    <3>2. Write(disk[active], rec, n).exists = disk[active].exists
      BY <1>0, <2>1, SameExists
    <3> QED
      BY <1>0, <1>1, <2>1, <2>2, <3>1, <3>2, SameLeft
  <2>4. CASE n # 0
    <3>1. n \in Nat /\ n \in 1 .. rec.size
      BY <1>0, <2>4
    <3> QED
      BY <1>7, <2>2, <3>1 DEF Writes, WriteRecord
  <2> QED
    BY <2>3, <2>4
<1>8. CASE StopInWrite
  <2>1. PICK n \in 1 .. rec.size - 1 :
          disk' = [disk EXCEPT ![active] = Write(@, rec, n)]
    BY <1>8 DEF StopInWrite
  <2>2. n \in 1 .. rec.size /\ n \in Nat
    BY <1>0
  <2> QED
    BY <1>8, <2>1, <2>2 DEF Writes, StopInWrite
<1>9. ASSUME NEW s \in SegIDs, LoseTail(s)
      PROVE  Keeps
  <2>1. PICK c \in disk[s].synced .. disk[s].size :
          disk' = [disk EXCEPT ![s] = Cut(@, c)]
    BY <1>9 DEF LoseTail
  <2>2. /\ disk[s].exists /\ c \in 0 .. disk[s].size /\ c <= disk[s].size
        /\ phase = "off" /\ file # "open"
    BY <1>0, <1>9, GoodFields DEF LoseTail, Segments, Control
  <2>3. Cut(disk[s], c).size = c
    BY <1>0, CutFields
  <2>4. Left(disk[s], Cut(disk[s], c))
    BY <1>0, <2>2, <2>3, CutPrefix DEF Left
  <2> QED
    BY <1>1, <2>1, <2>4
<1>10. CASE PowerOn
  BY <1>3, <1>10 DEF PowerOn, Keeps
<1>11. CASE CreateSegment \/ CreateFirst
  BY <1>1, <1>2, <1>3, <1>11 DEF CreateSegment, CreateFirst
<1>12. CASE AppendInsert \/ AppendDelete
  BY <1>2, <1>12 DEF AppendInsert, AppendDelete, BeginAppend
<1>13. CASE SealSegment \/ SealUnusable \/ WriteUnusable
  BY <1>1, <1>2, <1>3, <1>13 DEF SealSegment, SealUnusable, WriteUnusable
<1>14. CASE SyncRecord \/ BackgroundSync \/ Close \/ Recover
  BY <1>1, <1>2, <1>3, <1>14 DEF SyncRecord, BackgroundSync, Close, Recover
<1>15. CASE Stop \/ OpenExisting \/ UNCHANGED vars
  BY <1>2, <1>15 DEF Stop, OpenExisting, vars
<1> QED
  BY <1>5, <1>6, <1>7, <1>8, <1>9, <1>10, <1>11, <1>12, <1>13, <1>14, <1>15
     DEF Next, CallStep

(* What a write does to the chunks: one more, behind all others.           *)
LEMMA WriteShape ==
    ASSUME ControlInv, [Next]_vars, NEW n \in Nat, Writes(n)
    PROVE  /\ active \in SegIDs /\ active \in Nat /\ IsLatest(active) /\ Writing
           /\ rec.size \in Nat /\ n <= rec.size /\ n >= 1
           /\ disk[active].size \in Nat
           /\ disk'[active].size = disk[active].size + n
           /\ disk'[active].chunks = disk[active].chunks \cup
                {[at |-> disk[active].size, n |-> n, rec |-> rec]}
           /\ \A s \in SegIDs : s # active => disk'[s] = disk[s]
           /\ \A s \in SegIDs : s > active => disk[s].chunks = {}
           /\ \A k \in disk[active].chunks : k.at + k.n <= disk[active].size
           /\ \A s \in SegIDs : Layout(disk'[s])
<1>0. /\ disk \in [SegIDs -> GoodFile] /\ Layouts /\ Control
      /\ rec \in Record /\ rec.size \in Nat /\ SegIDs \subseteq Nat
      /\ \A s \in SegIDs : disk[s] \in GoodFile /\ disk[s] \in File
  BY ControlFacts DEF ControlInv, TypeInv, FilesOK
<1>1. /\ stage = "write" /\ file = "open" /\ n \in 1 .. rec.size
      /\ disk' = [disk EXCEPT ![active] = Write(@, rec, n)]
  BY DEF Writes
<1>2. active \in SegIDs /\ IsLatest(active) /\ Writing /\ disk[active].exists
  BY <1>0, <1>1 DEF Control, Writing, IsLatest, Segments
<1>3. /\ disk'[active] = Write(disk[active], rec, n)
      /\ \A s \in SegIDs : s # active => disk'[s] = disk[s]
  BY <1>0, <1>1, <1>2
<1>4. /\ disk[active].size \in Nat /\ n # 0 /\ n <= rec.size /\ n >= 1
      /\ n \in 0 .. rec.size
  BY <1>0, <1>1, <1>2, GoodFields
<1>5. /\ disk'[active].size = disk[active].size + n
      /\ disk'[active].chunks = disk[active].chunks \cup
           {[at |-> disk[active].size, n |-> n, rec |-> rec]}
  BY <1>0, <1>2, <1>3, <1>4, WrittenFields
<1>6. ASSUME NEW s \in SegIDs, s > active
      PROVE  disk[s].chunks = {}
  <2>1. s \notin Segments
    BY <1>0, <1>2, <1>6 DEF IsLatest
  <2> QED
    BY <1>0, <2>1 DEF Segments, Layouts, Layout
<1>7. Layout(disk'[active])
  BY <1>0, <1>2, <1>3, <1>4, WriteLayout DEF Layouts
<1>8. \A s \in SegIDs : Layout(disk'[s])
  BY <1>0, <1>3, <1>7 DEF Layouts
<1>9. \A k \in disk[active].chunks : k.at + k.n <= disk[active].size
  BY <1>0, <1>2 DEF Layouts, Layout
<1> QED
  BY <1>0, <1>2, <1>3, <1>4, <1>5, <1>6, <1>8, <1>9

LEMMA ControlInit == Init => ControlInv
<1> SUFFICES ASSUME Init PROVE ControlInv
  OBVIOUS
<1>1. \A s \in SegIDs : disk[s] = NoFile
  BY DEF Init
<1>2. Layout(NoFile) /\ ~NoFile.exists
  BY DEF NoFile, Layout
<1> QED
  BY <1>1, <1>2, TypeInit DEF Init, ControlInv, Layouts, Control, Writing

(* One step per action.                                                    *)
LEMMA ControlStep == ControlInv /\ [Next]_vars => ControlInv'
<1> SUFFICES ASSUME ControlInv, [Next]_vars PROVE ControlInv'
  OBVIOUS
<1>0. /\ TypeInv /\ TypeInv' /\ Control
      /\ SegIDs \subseteq Nat /\ 1 \in SegIDs
      /\ segID \in Nat /\ appends \in Nat /\ lsn \in Nat
      /\ Segments \subseteq SegIDs
      /\ file \in {"open", "closed", "nil"}
  BY TypeStep, ControlFacts DEF ControlInv, TypeInv, TypeOK, Segments
<1>l. Layouts'
  BY DiskShape, WriteShape DEF Layouts, Keeps, Left
<1>1. CASE AppendInsert \/ AppendDelete
  <2>1. PICK op \in {"insert", "delete"}, size \in Sizes : BeginAppend(op, size)
    BY <1>1 DEF AppendInsert, AppendDelete, Sizes
  <2>2. Segments' = Segments /\ disk' = disk
    BY <2>1 DEF BeginAppend, Segments
  <2>3. /\ rec'.tag = appends' /\ rec'.lsn = lsn' /\ rec'.size \in Sizes
        /\ stage' \in {"rotate", "write"}
    BY <2>1 DEF BeginAppend
  <2> QED
    BY <1>0, <1>l, <2>1, <2>2, <2>3
       DEF BeginAppend, ControlInv, Control, IsLatest
<1>2. CASE SealSegment
  <2>1. Segments' = Segments
    BY <1>2, SegmentsStep DEF SealSegment, CreateSegment, CreateFirst, Control,
                              ControlInv
  <2>2. IsLatest(active) /\ segID = active
    BY <1>0, <1>2 DEF SealSegment, Control
  <2>3. segID' = segID + 1 => \A t \in Segments' : t < segID'
    BY <1>0, <2>1, <2>2 DEF IsLatest
  <2> QED
    BY <1>0, <1>l, <1>2, <2>1, <2>3
       DEF SealSegment, ReturnError, ControlInv, Control, Writing
<1>3. CASE CreateSegment
  <2>1. CASE stage' = "idle"
    <3>1. disk' = disk /\ Segments' = Segments
      BY <1>3, <2>1 DEF CreateSegment, Segments
    <3> QED
      BY <1>0, <1>l, <1>3, <2>1, <3>1
         DEF CreateSegment, ControlInv, Control, walVars, Writing
  <2>2. CASE stage' # "idle"
    <3>1. /\ disk' = [disk EXCEPT ![segID] = Created(@)] /\ stage' = "header"
          /\ UNCHANGED rec
      BY <1>3, <2>2 DEF CreateSegment, ReturnError
    <3>2. segID \in SegIDs /\ disk[segID] \in File /\ Layout(disk[segID])
      BY <1>0, <1>3, ControlFacts
         DEF CreateSegment, TypeInv, CallOK, ControlInv, Layouts
    <3>3. disk'[segID] = Created(disk[segID])
      BY <1>0, <3>1, <3>2 DEF TypeInv, FilesOK
    <3>4. \A t \in Segments : t < segID
      BY <1>0, <1>3 DEF Control, CreateSegment
    <3>5. disk[segID].size = 0
      BY <1>0, <3>2, <3>4 DEF Segments, Layout
    <3>6. disk'[segID].size = 0 /\ disk'[segID].exists
      BY <3>2, <3>3, <3>5, CreatedFile
    <3>7. \A t \in SegIDs : t # segID => disk'[t] = disk[t]
      BY <1>0, <3>1 DEF TypeInv, FilesOK
    <3>8. Segments' = Segments \cup {segID}
      BY <3>2, <3>6, <3>7 DEF Segments
    <3>9. IsLatest(segID)'
      BY <1>0, <1>3, <3>4, <3>8 DEF IsLatest, CreateSegment, walVars
    <3> QED
      BY <1>0, <1>l, <1>3, <3>1, <3>6, <3>9
         DEF CreateSegment, ControlInv, Control, walVars, Writing
  <2> QED
    BY <2>1, <2>2
<1>4. CASE WriteSegmentHeader
  <2>1. Segments' = Segments
    BY <1>4, SegmentsStep
       DEF WriteSegmentHeader, CreateSegment, CreateFirst, ControlInv, Control
  <2>2. IsLatest(segID) /\ segID \in SegIDs
    BY <1>0, <1>4 DEF WriteSegmentHeader, Control, TypeInv, CallOK
  <2> QED
    BY <1>0, <1>l, <1>4, <2>1, <2>2
       DEF WriteSegmentHeader, ReturnError, ControlInv, Control, Writing,
           IsLatest
<1>5. CASE SealUnusable \/ WriteUnusable
  <2>1. Segments' = Segments
    BY <1>5 DEF SealUnusable, WriteUnusable, Segments
  <2> QED
    BY <1>0, <1>l, <1>5, <2>1
       DEF SealUnusable, WriteUnusable, walVars, ReturnError, ControlInv,
           Control, Writing, IsLatest
<1>6. CASE WriteRecord \/ SyncRecord
  <2>1. Segments' = Segments
    BY <1>6, SegmentsStep
       DEF WriteRecord, SyncRecord, CreateSegment, CreateFirst, ControlInv,
           Control
  <2>2. /\ stage \in {"write", "sync"} /\ stage' \in {"idle", "sync"}
        /\ UNCHANGED <<phase, lsn, segID, active, file>>
    BY <1>6 DEF WriteRecord, SyncRecord, ReturnError, ReturnNil, walVars
  <2> QED
    BY <1>0, <1>l, <2>1, <2>2 DEF ControlInv, Control, Writing, IsLatest
<1>7. CASE BackgroundSync \/ Close
  <2>1. Segments' = Segments
    BY <1>7, SegmentsStep
       DEF BackgroundSync, Close, CreateSegment, CreateFirst, walVars, callVars
  <2>2. /\ stage = "idle" /\ stage' = "idle" /\ phase \in {"opened", "ready"}
        /\ UNCHANGED <<lsn, segID, active>>
        /\ \/ UNCHANGED <<phase, file>>
           \/ phase' = "closed" /\ file' = "nil"
    BY <1>7 DEF BackgroundSync, Close, walVars, callVars
  <2> QED
    BY <1>0, <1>l, <2>1, <2>2 DEF ControlInv, Control, Writing, IsLatest
<1>8. CASE Stop \/ StopInWrite
  <2>1. stage' = "idle" /\ file' = "nil" /\ phase' \in {"down", "off"}
    BY <1>8 DEF Stop, StopInWrite, StopsTo, Forget
  <2> QED
    BY <1>0, <1>l, <2>1 DEF ControlInv, Control, Writing
<1>9. CASE PowerOn \/ \E s \in SegIDs : LoseTail(s)
  <2>1. stage = "idle" /\ stage' = "idle" /\ phase' \in {"down", "off"}
        /\ file' = "nil"
    BY <1>0, <1>9 DEF PowerOn, LoseTail, walVars, callVars, Control
  <2> QED
    BY <1>0, <1>l, <2>1 DEF ControlInv, Control, Writing
<1>10. CASE OpenExisting
  <2>1. Segments' = Segments
    BY <1>10 DEF OpenExisting, Segments
  <2>2. stage = "idle" /\ stage' = "idle"
    BY <1>0, <1>10 DEF OpenExisting, callVars, Control
  <2> QED
    BY <1>0, <1>l, <1>10, <2>1, <2>2
       DEF OpenExisting, ControlInv, Control, Writing, IsLatest, Segments
<1>11. CASE CreateFirst
  <2>1. stage = "idle" /\ stage' = "idle" /\ file = "nil" /\ file' = "nil"
    BY <1>0, <1>11 DEF CreateFirst, callVars, Control
  <2>2. CASE phase' = "down"
    BY <1>0, <1>l, <2>1, <2>2 DEF ControlInv, Control, Writing
  <2>3. CASE phase' # "down"
    <3>1. /\ Segments = {} /\ disk' = [disk EXCEPT ![1] = Created(@)]
          /\ phase' = "opening"
      BY <1>11, <2>3 DEF CreateFirst
    <3>2. disk[1] \in File /\ Layout(disk[1]) /\ ~disk[1].exists
      BY <1>0, <3>1, ControlFacts DEF ControlInv, Layouts, Segments
    <3>3. disk'[1] = Created(disk[1])
      BY <1>0, <3>1 DEF TypeInv, FilesOK
    <3>4. disk'[1].exists /\ disk'[1].size = 0
      BY <3>2, <3>3, CreatedFile DEF Layout
    <3>5. \A t \in SegIDs : t # 1 => disk'[t] = disk[t]
      BY <1>0, <3>1 DEF TypeInv, FilesOK
    <3>6. Segments' = {1}
      BY <1>0, <3>1, <3>4, <3>5 DEF Segments
    <3> QED
      BY <1>0, <1>l, <2>1, <3>1, <3>4, <3>6 DEF ControlInv, Control, Writing
  <2> QED
    BY <2>2, <2>3
<1>12. CASE FirstHeader
  <2>1. Segments' = Segments
    BY <1>12, SegmentsStep DEF FirstHeader, CreateSegment, CreateFirst,
                               ControlInv, Control
  <2>2. /\ stage = "idle" /\ stage' = "idle" /\ file = "nil" /\ Segments = {1}
    BY <1>0, <1>12 DEF FirstHeader, callVars, Control
  <2> QED
    BY <1>0, <1>l, <1>12, <2>1, <2>2
       DEF FirstHeader, ControlInv, Control, Writing, IsLatest
<1>13. CASE Recover
  <2>1. stage = "idle" /\ stage' = "idle"
    BY <1>0, <1>13 DEF Recover, callVars, Control, Forget
  <2>2. CASE phase' = "ready"
    <3>1. Segments' = Segments
      BY <1>13, <2>2 DEF Recover, Segments
    <3> QED
      BY <1>0, <1>l, <1>13, <2>1, <2>2, <3>1
         DEF Recover, ControlInv, Control, Writing, IsLatest
  <2>3. CASE phase' # "ready"
    BY <1>0, <1>l, <1>13, <2>1, <2>3
       DEF Recover, Forget, ControlInv, Control, Writing
  <2> QED
    BY <2>2, <2>3
<1>14. CASE UNCHANGED vars
  <2>1. Segments' = Segments
    BY <1>14 DEF vars, Segments
  <2> QED
    BY <1>0, <1>l, <1>14, <2>1
       DEF vars, walVars, callVars, counters, ControlInv, Control, Writing,
           IsLatest
<1> QED
  BY <1>1, <1>2, <1>3, <1>4, <1>5, <1>6, <1>7, <1>8, <1>9, <1>10, <1>11, <1>12,
     <1>13, <1>14 DEF Next, CallStep

-----------------------------------------------------------------------------
(* The order of the records                                                *)

(* Chunks carry tags of the appends so far, the append under way has the   *)
(* highest, and tags ascend along each segment and from one to the next.   *)
TagsBounded ==
    \A s \in SegIDs : \A k \in disk[s].chunks :
        k.rec.tag <= appends /\ (Writing => k.rec.tag < appends)
TagsAscend ==
    \A s, t \in SegIDs : \A j \in disk[s].chunks : \A k \in disk[t].chunks :
        s < t \/ (s = t /\ j.at < k.at) => j.rec.tag < k.rec.tag

TagsInv == ControlInv /\ TagsBounded /\ TagsAscend

(* An append that begins draws a tag and an LSN; until its record is       *)
(* written, or it gives up, nothing else does.                             *)
Begins ==
    /\ stage = "idle" /\ disk' = disk
    /\ appends' = appends + 1 /\ lsn' = lsn + 1
    /\ UNCHANGED <<phase, segID, active, currentSize, file, acked>>

LEMMA DrawStep ==
    ASSUME ControlInv, [Next]_vars
    PROVE  Begins \/ /\ appends' = appends
                     /\ Writing' => Writing /\ UNCHANGED <<rec, lsn>>
<1>0. Control
  BY DEF ControlInv
<1>1. CASE AppendInsert \/ AppendDelete
  BY <1>1 DEF AppendInsert, AppendDelete, BeginAppend, Begins, history
<1>2. CASE CallStep
  BY <1>2 DEF CallStep, SealSegment, SealUnusable, CreateSegment,
              WriteSegmentHeader, WriteRecord, WriteUnusable, SyncRecord,
              ReturnError, ReturnNil, Writing, walVars, counters
<1>3. CASE BackgroundSync \/ Close \/ Stop \/ StopInWrite
  BY <1>3 DEF BackgroundSync, Close, Stop, StopInWrite, StopsTo, Forget,
              callVars, counters, Writing
<1>4. CASE PowerOn \/ \E s \in SegIDs : LoseTail(s)
  BY <1>0, <1>4 DEF PowerOn, LoseTail, callVars, walVars, counters, Writing
<1>5. CASE OpenExisting \/ CreateFirst \/ FirstHeader \/ Recover
  BY <1>0, <1>5 DEF OpenExisting, CreateFirst, FirstHeader, Recover, Forget,
                    callVars, counters, Writing, Control
<1>6. CASE UNCHANGED vars
  BY <1>6 DEF vars, callVars, walVars, counters, Writing
<1> QED
  BY <1>1, <1>2, <1>3, <1>4, <1>5, <1>6 DEF Next

LEMMA WritesStep ==
    ASSUME ControlInv, [Next]_vars, NEW n \in Nat, Writes(n)
    PROVE  ~Writing' /\ appends' = appends
BY DEF Writes, WriteRecord, StopInWrite, StopsTo, Forget, ReturnError,
       ReturnNil, Writing

LEMMA TagsStep == TagsInv /\ [Next]_vars => TagsInv'
<1> SUFFICES ASSUME TagsInv, [Next]_vars PROVE TagsInv'
  OBVIOUS
<1>0. /\ ControlInv /\ ControlInv' /\ SegIDs \subseteq Nat
      /\ \A s \in SegIDs : disk[s] \in GoodFile /\ disk'[s] \in GoodFile
      /\ appends \in Nat
  BY ControlStep, ControlFacts DEF TagsInv, ControlInv, TypeInv, FilesOK
<1>1. CASE Begins
  BY <1>0, <1>1, GoodFields DEF TagsInv, TagsBounded, TagsAscend, Begins
<1>2. ASSUME NEW n \in Nat, Writes(n)
      PROVE  TagsBounded' /\ TagsAscend'
  <2> DEFINE k0 == [at |-> disk[active].size, n |-> n, rec |-> rec]
  <2>1. /\ active \in SegIDs /\ active \in Nat /\ Writing
        /\ disk[active].size \in Nat
        /\ disk'[active].chunks = disk[active].chunks \cup {k0}
        /\ \A s \in SegIDs : s # active => disk'[s] = disk[s]
        /\ \A s \in SegIDs : s > active => disk[s].chunks = {}
        /\ \A k \in disk[active].chunks : k.at + k.n <= disk[active].size
    BY <1>0, <1>2, WriteShape
  <2>2. k0.at = disk[active].size /\ k0.rec = rec
    OBVIOUS
  <2>3. rec.tag = appends /\ ~Writing' /\ appends' = appends
    BY <1>0, <1>2, <2>1, WritesStep DEF ControlInv, Control
  <2> HIDE DEF k0
  <2>4. \A s \in SegIDs : \A k \in disk'[s].chunks :
           k \in disk[s].chunks \/ (s = active /\ k = k0)
    BY <2>1
  <2>5. \A s \in SegIDs : \A k \in disk[s].chunks : k.rec.tag < appends
    BY <2>1 DEF TagsInv, TagsBounded
  <2>6. TagsBounded'
    BY <1>0, <2>2, <2>3, <2>4, <2>5, GoodFields DEF TagsBounded
  <2>7. ASSUME NEW s \in SegIDs, NEW t \in SegIDs,
               NEW j \in disk'[s].chunks, NEW k \in disk'[t].chunks,
               s < t \/ (s = t /\ j.at < k.at)
        PROVE  j.rec.tag < k.rec.tag
    <3>1. CASE j \in disk[s].chunks /\ k \in disk[t].chunks
      BY <2>7, <3>1 DEF TagsInv, TagsAscend
    <3>2. CASE j \in disk[s].chunks /\ k = k0
      BY <2>2, <2>3, <2>5, <3>2
    <3>3. CASE s = active /\ j = k0 /\ k \in disk[t].chunks
      <4>1. t = s /\ k.at + k.n <= j.at
        BY <1>0, <2>1, <2>2, <2>7, <3>3
      <4> QED
        BY <1>0, <2>1, <2>2, <2>7, <3>3, <4>1, GoodFields
    <3>4. CASE s = active /\ j = k0 /\ t = active /\ k = k0
      BY <1>0, <2>1, <2>2, <2>7, <3>4
    <3> QED
      BY <2>4, <3>1, <3>2, <3>3, <3>4
  <2> QED
    BY <2>6, <2>7 DEF TagsAscend
<1>3. CASE Keeps /\ ~Begins
  <2>1. /\ appends' = appends /\ (Writing' => Writing)
        /\ \A s \in SegIDs : Prefix(disk[s], disk'[s])
    BY <1>0, <1>3, DrawStep DEF Keeps, Left
  <2>2. \A s \in SegIDs : \A k \in disk'[s].chunks : \E j \in disk[s].chunks :
           j.at = k.at /\ j.rec = k.rec
    BY <2>1 DEF Prefix
  <2>3. TagsBounded'
    BY <2>1, <2>2 DEF TagsInv, TagsBounded
  <2>4. TagsAscend'
    BY <2>2 DEF TagsInv, TagsAscend
  <2> QED
    BY <1>0, <2>3, <2>4 DEF TagsInv
<1> QED
  BY <1>0, <1>1, <1>2, <1>3, DiskShape DEF TagsInv

LEMMA TagsInit == Init => TagsInv
<1> SUFFICES ASSUME Init PROVE TagsInv
  OBVIOUS
<1>1. \A s \in SegIDs : disk[s].chunks = {}
  BY DEF Init, NoFile
<1> QED
  BY <1>1, ControlInit DEF TagsInv, TagsBounded, TagsAscend

(* A record that Recover returns, and its segment.                         *)
LEMMA RecoveredFields ==
    ASSUME NEW x \in Recovered
    PROVE  /\ x[1] \in SegIDs /\ disk[x[1]].exists
           /\ x[2] \in WholePrefix(disk[x[1]]) /\ x[2] \in disk[x[1]].chunks
BY DEF Recovered, Segments, WholePrefix

(* Recover returns the records in the order they were appended, none of    *)
(* them twice: whatever fails, tears, stops or is lost, and however often  *)
(* the log is reopened, records are written behind all that came before.   *)
THEOREM InOrder == Spec => []RecoveredInOrder
<1>1. TagsInv => RecoveredInOrder
  BY RecoveredFields DEF TagsInv, TagsAscend, RecoveredInOrder, Before, Tag
<1> QED
  BY <1>1, TagsInit, TagsStep, PTL DEF Spec

-----------------------------------------------------------------------------
(* The order of the LSNs in one segment                                    *)

(* The chunks of f up to its first torn one.                               *)
Heard(f) == {k \in f.chunks : \A t \in Torn(f) : k.at <= t.at}

Ascends(f) == \A j, k \in Heard(f) : j.at < k.at => j.rec.lsn < k.rec.lsn

(* wal.lsn is not below the LSNs of the segment that is written to, unless *)
(* a record is torn there; then a scan sees nothing that is written.       *)
Numbered ==
    file = "open" /\ Torn(disk[active]) = {} =>
        \A k \in disk[active].chunks :
            k.rec.lsn <= lsn /\ (Writing => k.rec.lsn < lsn)

LsnInv == ControlInv /\ (\A s \in SegIDs : Ascends(disk[s])) /\ Numbered

LEMMA HeardPrefix ==
    ASSUME NEW f \in GoodFile, NEW g \in GoodFile, Prefix(f, g), Ascends(f)
    PROVE  Ascends(g)
<1>1. ASSUME NEW k \in Heard(g)
      PROVE  \E j \in Heard(f) : j.at = k.at /\ j.rec = k.rec
  <2>1. PICK j \in f.chunks : j.at = k.at /\ j.rec = k.rec
    BY DEF Heard, Prefix
  <2>2. ASSUME NEW t \in Torn(f), t.at < k.at
        PROVE  FALSE
    <3>1. PICK i \in g.chunks : i.at = t.at /\ i.rec = t.rec /\ i.n <= t.n
      BY <2>2 DEF Prefix, Torn, Heard
    <3>2. i.n < i.rec.size
      BY <3>1, GoodFields DEF Torn
    <3>3. k.at <= i.at
      BY <3>1, <3>2 DEF Heard, Torn
    <3> QED
      BY <2>1, <2>2, <3>1, <3>3, GoodFields
  <2>3. \A t \in Torn(f) : j.at <= t.at
    BY <2>1, <2>2, GoodFields DEF Torn
  <2> QED
    BY <2>1, <2>3 DEF Heard
<1> QED
  BY <1>1 DEF Ascends

(* Without a torn record, where a new process goes on is behind every LSN  *)
(* of the file.                                                            *)
LEMMA LatestLSNBound ==
    ASSUME NEW f \in GoodFile, Layout(f), Ascends(f), Torn(f) = {},
           NEW k \in f.chunks
    PROVE  k.rec.lsn <= GetLatestLSN(f)
<1> DEFINE seen == WholePrefix(f) \cup
                   {t \in Torn(f) : t = FirstTorn(f) /\ t.n >= RecordHeaderSize}
           Last(x) == \A y \in seen : y.at <= x.at
           m == CHOOSE x \in seen : Last(x)
<1>1. seen = f.chunks /\ Heard(f) = f.chunks
  BY DEF WholePrefix, Heard
<1>2. \E x \in seen : Last(x)
  <2>1. CASE f.size = 1
    BY <1>1, <2>1, GoodFields DEF Layout
  <2>2. CASE f.size # 1
    <3>1. f.size - 1 \in Nat /\ SegmentHeaderSize <= f.size - 1
      BY <2>2, GoodFields DEF Layout, SegmentHeaderSize
    <3>2. PICK x \in f.chunks : x.at <= f.size - 1 /\ f.size - 1 < x.at + x.n
      BY <3>1, GoodFields DEF Layout
    <3>3. \A y \in f.chunks : y.at <= x.at
      BY <3>2, GoodFields DEF Layout
    <3> QED
      BY <1>1, <3>2, <3>3
  <2> QED
    BY <2>1, <2>2
<1>3. m \in seen /\ Last(m)
  <2> HIDE DEF Last, seen
  <2> QED
    BY <1>2
<1>4. GetLatestLSN(f) = m.rec.lsn
  BY <1>2 DEF GetLatestLSN
<1>5. m \in f.chunks /\ k.at <= m.at
  BY <1>1, <1>3
<1> HIDE DEF m, seen, Last
<1>6. CASE k.at < m.at
  BY <1>1, <1>4, <1>5, <1>6, GoodFields DEF Ascends
<1>7. CASE k.at = m.at
  <2>1. k = m
    BY <1>5, <1>7, GoodFields DEF Layout
  <2> QED
    BY <1>4, <2>1, GoodFields
<1> QED
  BY <1>5, <1>6, <1>7, GoodFields

(* The file that is written to is the one of before the step, or a new     *)
(* segment, or the one a new process opened.                               *)
LEMMA ActiveStep ==
    ASSUME ControlInv, [Next]_vars, file' = "open"
    PROVE  \/ OpenExisting
           \/ active' \in SegIDs /\ disk'[active'].chunks = {}
           \/ file = "open" /\ active' = active
<1>0. /\ disk \in [SegIDs -> GoodFile] /\ 1 \in SegIDs /\ Layouts /\ Control
      /\ \A s \in SegIDs : disk[s] \in GoodFile /\ disk[s] \in File
  BY ControlFacts DEF ControlInv, TypeInv, FilesOK
<1>1. CASE WriteSegmentHeader
  <2>1. /\ segID \in SegIDs /\ disk[segID].size = 0 /\ disk[segID].exists
        /\ stage = "header" /\ file = "closed"
    BY <1>0, <1>1 DEF WriteSegmentHeader, Control, IsLatest, Segments
  <2>2. /\ disk' = [disk EXCEPT ![segID] = Headed(@)] /\ active' = segID
    BY <1>1, <2>1 DEF WriteSegmentHeader
  <2>3. disk[segID].chunks = {} /\ disk'[segID].chunks = disk[segID].chunks
    BY <1>0, <2>1, <2>2, HeadedLayout, HeadedFile DEF Layouts
  <2> QED
    BY <2>1, <2>2, <2>3
<1>2. CASE FirstHeader
  <2>1. /\ disk[1].size = 0 /\ disk[1].exists /\ file = "nil"
    BY <1>0, <1>2 DEF FirstHeader, Control, Segments
  <2>2. /\ disk' = [disk EXCEPT ![1] = Headed(@)] /\ active' = 1
    BY <1>2, <2>1 DEF FirstHeader
  <2>3. disk[1].chunks = {} /\ disk'[1].chunks = disk[1].chunks
    BY <1>0, <2>1, <2>2, HeadedLayout, HeadedFile DEF Layouts
  <2> QED
    BY <1>0, <2>2, <2>3
<1>3. CASE AppendInsert \/ AppendDelete
  BY <1>3 DEF AppendInsert, AppendDelete, BeginAppend
<1>4. CASE SealSegment \/ SealUnusable \/ CreateSegment
  BY <1>4 DEF SealSegment, SealUnusable, CreateSegment, walVars
<1>5. CASE WriteRecord \/ WriteUnusable \/ SyncRecord
  BY <1>5 DEF WriteRecord, WriteUnusable, SyncRecord, walVars
<1>6. CASE BackgroundSync \/ Recover \/ Close \/ Stop \/ StopInWrite
  BY <1>6 DEF BackgroundSync, Recover, Close, Stop, StopInWrite, StopsTo,
              Forget, walVars
<1>7. CASE CreateFirst \/ PowerOn \/ \E s \in SegIDs : LoseTail(s)
  BY <1>7 DEF CreateFirst, PowerOn, LoseTail, walVars
<1>8. CASE UNCHANGED vars
  BY <1>8 DEF vars, walVars
<1> QED
  BY <1>1, <1>2, <1>3, <1>4, <1>5, <1>6, <1>7, <1>8 DEF Next, CallStep

(* While a segment is written to only a new append changes wal.lsn.        *)
LEMMA LsnKept ==
    ASSUME ControlInv, [Next]_vars, file = "open", file' = "open", ~Begins
    PROVE  lsn' = lsn \/ OpenExisting
<1>0. Control
  BY DEF ControlInv
<1>1. CASE AppendInsert \/ AppendDelete
  BY <1>1 DEF AppendInsert, AppendDelete, BeginAppend, Begins, history
<1>2. CASE CallStep
  BY <1>2 DEF CallStep, SealSegment, SealUnusable, CreateSegment,
              WriteSegmentHeader, WriteRecord, WriteUnusable, SyncRecord,
              walVars
<1>3. CASE BackgroundSync \/ Close \/ Stop \/ StopInWrite
  BY <1>3 DEF BackgroundSync, Close, Stop, StopInWrite, StopsTo, Forget, walVars
<1>4. CASE PowerOn \/ \E s \in SegIDs : LoseTail(s)
  BY <1>4 DEF PowerOn, LoseTail, walVars
<1>5. CASE CreateFirst \/ FirstHeader \/ Recover
  BY <1>0, <1>5 DEF CreateFirst, FirstHeader, Recover, Forget, Control
<1>6. CASE UNCHANGED vars
  BY <1>6 DEF vars, walVars
<1> QED
  BY <1>1, <1>2, <1>3, <1>4, <1>5, <1>6 DEF Next

LEMMA LsnStep == LsnInv /\ [Next]_vars => LsnInv'
<1> SUFFICES ASSUME LsnInv, [Next]_vars PROVE LsnInv'
  OBVIOUS
<1>0. /\ ControlInv /\ ControlInv' /\ SegIDs \subseteq Nat
      /\ \A s \in SegIDs : disk[s] \in GoodFile /\ disk'[s] \in GoodFile
      /\ lsn \in Nat /\ Layouts
      /\ \A s \in SegIDs : Ascends(disk[s])
  BY ControlStep, ControlFacts DEF LsnInv, ControlInv, TypeInv, FilesOK
<1>1. ASSUME NEW n \in Nat, Writes(n)
      PROVE  LsnInv'
  <2> DEFINE k0 == [at |-> disk[active].size, n |-> n, rec |-> rec]
  <2>1. /\ active \in SegIDs /\ Writing
        /\ disk[active].size \in Nat
        /\ disk'[active].chunks = disk[active].chunks \cup {k0}
        /\ \A s \in SegIDs : s # active => disk'[s] = disk[s]
        /\ \A k \in disk[active].chunks : k.at + k.n <= disk[active].size
    BY <1>0, <1>1, WriteShape
  <2>2. k0.at = disk[active].size /\ k0.rec = rec
    OBVIOUS
  <2>3. /\ rec.lsn = lsn /\ ~Writing' /\ file = "open"
        /\ file' = "open" => lsn' = lsn /\ active' = active
    BY <1>0, <1>1, <2>1
       DEF ControlInv, Control, Writes, WriteRecord, StopInWrite, StopsTo,
           Forget, ReturnError, ReturnNil, Writing
  <2> HIDE DEF k0
  <2>4. ASSUME NEW k \in disk[active].chunks
        PROVE  k.at < k0.at
    <3>1. k.at \in Nat /\ k.n \in Nat /\ k.n >= 1
      BY <1>0, <2>1, GoodFields
    <3>2. k.at + k.n <= disk[active].size
      BY <2>1
    <3> QED
      BY <2>1, <2>2, <3>1, <3>2
  <2>5. Torn(disk[active]) \subseteq Torn(disk'[active])
    BY <2>1 DEF Torn
  <2>6. \A k \in Heard(disk'[active]) :
           \/ k \in Heard(disk[active])
           \/ k = k0 /\ Torn(disk[active]) = {}
    <3>1. ASSUME NEW k \in Heard(disk'[active]), k # k0
          PROVE  k \in Heard(disk[active])
      BY <2>1, <2>5, <3>1 DEF Heard
    <3>2. ASSUME k0 \in Heard(disk'[active]), NEW t \in Torn(disk[active])
          PROVE  FALSE
      <4>1. k0.at <= t.at
        BY <2>5, <3>2 DEF Heard
      <4>2. t.at < k0.at
        BY <2>4 DEF Torn
      <4>3. t.at \in Nat /\ k0.at \in Nat
        BY <1>0, <2>1, <2>2, GoodFields DEF Torn
      <4> QED
        BY <4>1, <4>2, <4>3
    <3> QED
      BY <3>1, <3>2
  <2>7. Torn(disk[active]) = {} => \A k \in disk[active].chunks : k.rec.lsn < lsn
    BY <2>1, <2>3 DEF LsnInv, Numbered
  <2>8. Ascends(disk'[active])
    <3>1. SUFFICES ASSUME NEW j \in Heard(disk'[active]),
                          NEW k \in Heard(disk'[active]), j.at < k.at
                   PROVE  j.rec.lsn < k.rec.lsn
      BY DEF Ascends
    <3>2. CASE j \in Heard(disk[active]) /\ k \in Heard(disk[active])
      BY <1>0, <2>1, <3>1, <3>2 DEF Ascends
    <3>3. CASE j \in Heard(disk[active]) /\ k = k0 /\ Torn(disk[active]) = {}
      BY <2>2, <2>3, <2>7, <3>3 DEF Heard
    <3>4. CASE j = k0
      <4>1. k = k0 \/ k.at < k0.at
        BY <2>4, <2>6 DEF Heard
      <4>2. k.at \in Nat /\ k0.at \in Nat
        BY <1>0, <2>1, <2>2, GoodFields DEF Heard
      <4> QED
        BY <3>1, <3>4, <4>1, <4>2
    <3> QED
      BY <2>6, <3>2, <3>3, <3>4
  <2>9. \A s \in SegIDs : Ascends(disk'[s])
    BY <1>0, <2>1, <2>8
  <2>10. Numbered'
    <3>1. SUFFICES ASSUME file' = "open", Torn(disk'[active]) = {},
                          NEW k \in disk'[active].chunks
                   PROVE  k.rec.lsn <= lsn
      BY <2>3 DEF Numbered
    <3>2. Torn(disk[active]) = {}
      BY <2>5, <3>1
    <3>3. CASE k \in disk[active].chunks
      BY <1>0, <2>1, <2>7, <3>2, <3>3, GoodFields
    <3>4. CASE k = k0
      BY <1>0, <2>2, <2>3, <3>4
    <3> QED
      BY <2>1, <3>1, <3>3, <3>4
  <2> QED
    BY <1>0, <2>9, <2>10 DEF LsnInv
<1>2. ASSUME Keeps, \A n \in Nat : ~Writes(n)
      PROVE  LsnInv'
  <2>1. \A s \in SegIDs : Ascends(disk'[s])
    BY <1>0, <1>2, HeardPrefix DEF Keeps, Left
  <2>2. CASE OpenExisting
    <3>1. PICK s \in SegIDs : active' = s /\ lsn' = GetLatestLSN(disk[s])
      BY <2>2 DEF OpenExisting, Segments
    <3>2. disk' = disk /\ ~Writing'
      BY <1>0, <2>2
         DEF OpenExisting, callVars, ControlInv, Control, Writing
    <3>3. Torn(disk[s]) = {} => \A k \in disk[s].chunks : k.rec.lsn <= lsn'
      BY <1>0, <3>1, LatestLSNBound DEF Layouts
    <3> QED
      BY <1>0, <2>1, <3>1, <3>2, <3>3 DEF LsnInv, Numbered
  <2>3. ASSUME file' = "open", active' = active, file = "open"
        PROVE  Numbered'
    <3>0. disk'[active].chunks = disk[active].chunks
      BY <1>0, <1>2, <2>3 DEF Keeps, Left, ControlInv, Control
    <3>1. Torn(disk'[active]) = Torn(disk[active])
      BY <3>0 DEF Torn
    <3>2. CASE Begins
      <4>1. ~Writing /\ lsn' = lsn + 1
        BY <3>2 DEF Begins, Writing
      <4>2. \A k \in disk[active].chunks : k.rec.lsn \in Nat
        BY <1>0, <2>3, GoodFields DEF ControlInv, Control
      <4> QED
        BY <1>0, <2>3, <3>0, <3>1, <4>1, <4>2 DEF LsnInv, Numbered
    <3>3. CASE ~Begins
      <4>1. (Writing' => Writing) /\ lsn' = lsn
        <5>1. Writing' => Writing
          BY <1>0, <3>3, DrawStep
        <5>2. lsn' = lsn
          BY <1>0, <2>3, <3>3, LsnKept DEF OpenExisting, ControlInv, Control
        <5> QED
          BY <5>1, <5>2
      <4> QED
        BY <2>3, <3>0, <3>1, <4>1 DEF LsnInv, Numbered
    <3> QED
      BY <3>2, <3>3
  <2>4. Numbered'
    BY <1>0, <2>2, <2>3, ActiveStep DEF LsnInv, Numbered
  <2> QED
    BY <1>0, <2>1, <2>4 DEF LsnInv
<1> QED
  BY <1>0, <1>1, <1>2, DiskShape

LEMMA LsnInit == Init => LsnInv
<1> SUFFICES ASSUME Init PROVE LsnInv
  OBVIOUS
<1>1. \A s \in SegIDs : disk[s].chunks = {}
  BY DEF Init, NoFile
<1>2. \A s \in SegIDs : Ascends(disk[s])
  BY <1>1 DEF Ascends, Heard
<1>3. Numbered
  BY DEF Init, Numbered
<1> QED
  BY <1>2, <1>3, ControlInit DEF LsnInv

(* In one segment the records a scan returns carry ascending LSNs, although*)
(* wal.lsn is not stored and every new process computes it from the file:  *)
(* also behind torn records, failed writes and lost tails.                 *)
THEOREM LsnsAscend == Spec => []SegmentLsnAscending
<1>1. LsnInv => SegmentLsnAscending
  <2> SUFFICES ASSUME LsnInv, NEW s \in SegIDs,
                      NEW j \in WholePrefix(disk[s]),
                      NEW k \in WholePrefix(disk[s]), j.at < k.at
               PROVE  j.rec.lsn < k.rec.lsn
    BY DEF SegmentLsnAscending
  <2>1. disk[s] \in GoodFile
    BY ControlFacts DEF LsnInv
  <2>2. j \in Heard(disk[s]) /\ k \in Heard(disk[s])
    BY <2>1, GoodFields DEF WholePrefix, Heard, Torn
  <2> QED
    BY <2>2 DEF LsnInv, Ascends
<1> QED
  BY <1>1, LsnInit, LsnStep, PTL DEF Spec

-----------------------------------------------------------------------------
(* A log that can be appended to                                           *)

(* Only a segment with another behind it is sealed, but for the moment     *)
(* between the seal and the creation of the next one.                      *)
SealedBehind ==
    \A s \in SegIDs : disk[s].readOnly =>
        s \in Segments /\ (~IsLatest(s) \/ stage = "create")

ReopenInv == ControlInv /\ SealedBehind

LEMMA SameReadOnly ==
    ASSUME NEW f \in File
    PROVE  /\ Created(f).readOnly = f.readOnly /\ Headed(f).readOnly = f.readOnly
           /\ Synced(f).readOnly = f.readOnly
           /\ \A r, n : Write(f, r, n).readOnly = f.readOnly
           /\ \A c : Cut(f, c).readOnly = f.readOnly
<1>1. Created(f).readOnly = f.readOnly /\ Headed(f).readOnly = f.readOnly
  BY DEF Created, Headed, File
<1>2. Synced(f).readOnly = f.readOnly
  BY DEF Synced, File
<1>3. \A r, n : Write(f, r, n).readOnly = f.readOnly
  BY DEF Write, File
<1>4. \A c : Cut(f, c).readOnly = f.readOnly
  BY DEF Cut, File
<1> QED
  BY <1>1, <1>2, <1>3, <1>4

(* Only SealSegment makes a file read-only.                                *)
LEMMA ReadOnlyStep ==
    ASSUME ControlInv, [Next]_vars
    PROVE  SealSegment \/ \A s \in SegIDs : disk'[s].readOnly = disk[s].readOnly
<1>0. disk \in [SegIDs -> GoodFile] /\ \A s \in SegIDs : disk[s] \in File
  BY ControlFacts DEF ControlInv, TypeInv, FilesOK
<1> DEFINE Same == \A s \in SegIDs : disk'[s].readOnly = disk[s].readOnly
<1>1. ASSUME NEW s, NEW g, s \in SegIDs => g.readOnly = disk[s].readOnly,
             disk' = [disk EXCEPT ![s] = g]
      PROVE  Same
  BY <1>0, <1>1
<1>2. CASE disk' = disk
  BY <1>2
<1>3. ASSUME NEW s, \/ disk' = [disk EXCEPT ![s] = Created(@)]
                    \/ disk' = [disk EXCEPT ![s] = Headed(@)]
                    \/ disk' = [disk EXCEPT ![s] = Synced(@)]
      PROVE  Same
  <2>1. s \in SegIDs => /\ Created(disk[s]).readOnly = disk[s].readOnly
                        /\ Headed(disk[s]).readOnly = disk[s].readOnly
                        /\ Synced(disk[s]).readOnly = disk[s].readOnly
    BY <1>0, SameReadOnly
  <2> QED
    BY <1>1, <1>3, <2>1
<1>4. ASSUME NEW s, NEW n, disk' = [disk EXCEPT ![s] = Write(@, rec, n)]
      PROVE  Same
  <2>1. s \in SegIDs => Write(disk[s], rec, n).readOnly = disk[s].readOnly
    BY <1>0, SameReadOnly
  <2> QED
    BY <1>1, <1>4, <2>1
<1>5. ASSUME NEW s, NEW c, disk' = [disk EXCEPT ![s] = Cut(@, c)]
      PROVE  Same
  <2>1. s \in SegIDs => Cut(disk[s], c).readOnly = disk[s].readOnly
    BY <1>0, SameReadOnly
  <2> QED
    BY <1>1, <1>5, <2>1
<1>6. CASE PowerOn
  BY <1>0, <1>6, SameReadOnly DEF PowerOn
<1>7. CASE AppendInsert \/ AppendDelete
  BY <1>2, <1>7 DEF AppendInsert, AppendDelete, BeginAppend
<1>8. CASE SealUnusable \/ WriteUnusable \/ CreateSegment \/ CreateFirst
  BY <1>2, <1>3, <1>8 DEF SealUnusable, WriteUnusable, CreateSegment,
                          CreateFirst
<1>9. CASE WriteSegmentHeader \/ FirstHeader
  BY <1>2, <1>3, <1>9 DEF WriteSegmentHeader, FirstHeader
<1>10. CASE WriteRecord \/ StopInWrite
  BY <1>4, <1>10 DEF WriteRecord, StopInWrite
<1>11. CASE SyncRecord \/ BackgroundSync \/ Close \/ Recover
  BY <1>2, <1>3, <1>11 DEF SyncRecord, BackgroundSync, Close, Recover
<1>12. CASE Stop \/ OpenExisting \/ UNCHANGED vars
  BY <1>2, <1>12 DEF Stop, OpenExisting, vars
<1>13. CASE \E s \in SegIDs : LoseTail(s)
  BY <1>5, <1>13 DEF LoseTail
<1> QED
  BY <1>6, <1>7, <1>8, <1>9, <1>10, <1>11, <1>12, <1>13
     DEF Next, CallStep

LEMMA ReopenStep ==
    ASSUME "create" \notin CrashPoints, IOErrors \cap {"close", "create"} = {},
           ReopenInv, [Next]_vars
    PROVE  ReopenInv'
<1>0. /\ ControlInv /\ ControlInv' /\ Control /\ SegIDs \subseteq Nat
      /\ disk \in [SegIDs -> GoodFile] /\ Segments \subseteq SegIDs
      /\ \A s \in SegIDs : disk[s] \in File
  BY ControlStep, ControlFacts
     DEF ReopenInv, ControlInv, TypeInv, FilesOK, Segments
<1>1. CASE SealSegment
  <2>1. /\ stage' = "create" /\ active \in SegIDs /\ active \in Segments
        /\ disk' = [disk EXCEPT ![active] = Sealed(@)]
    BY <1>0, <1>1 DEF SealSegment, Fails, Control, IsLatest
  <2>2. /\ \A s \in SegIDs : s # active => disk'[s] = disk[s]
        /\ disk'[active].exists
    BY <1>0, <2>1, SameExists DEF Segments
  <2>3. \A s \in SegIDs : disk'[s].readOnly => s \in Segments'
    BY <2>1, <2>2 DEF ReopenInv, SealedBehind, Segments
  <2> QED
    BY <1>0, <2>1, <2>3 DEF ReopenInv, SealedBehind
<1>2. CASE ~SealSegment
  <2>1. \A s \in SegIDs : disk'[s].readOnly = disk[s].readOnly
    BY <1>0, <1>2, ReadOnlyStep
  <2>2. Segments \subseteq Segments'
    BY <1>0, SegmentsStep
  <2>3. ASSUME NEW s \in SegIDs, disk'[s].readOnly
        PROVE  s \in Segments' /\ (~IsLatest(s)' \/ stage' = "create")
    <3>1. s \in Segments /\ (~IsLatest(s) \/ stage = "create")
      BY <2>1, <2>3 DEF ReopenInv, SealedBehind
    <3>2. CASE ~IsLatest(s)
      BY <2>2, <3>1, <3>2 DEF IsLatest
    <3>3. CASE stage = "create"
      <4>1. CreateSegment \/ UNCHANGED vars
        BY <1>0, <1>2, <3>3
           DEF Next, CallStep, AppendInsert, AppendDelete, BeginAppend,
               SealUnusable, WriteSegmentHeader, WriteRecord, WriteUnusable,
               SyncRecord, BackgroundSync, Close, Stop, StopInWrite, StopsTo,
               PowerOn, LoseTail, OpenExisting, CreateFirst, FirstHeader,
               Recover, Control
      <4>2. CASE UNCHANGED vars
        BY <2>2, <3>1, <3>3, <4>2 DEF vars, callVars
      <4>3. CASE CreateSegment
        <5>1. disk' = [disk EXCEPT ![segID] = Created(@)] /\ segID \in SegIDs
          BY <1>0, <4>3 DEF CreateSegment, Fails, ControlInv, TypeInv, CallOK
        <5>2. segID \in Segments'
          BY <1>0, <5>1, CreatedFile DEF Segments
        <5>3. s < segID
          BY <1>0, <3>1, <3>3 DEF Control
        <5>4. ~IsLatest(s)'
          BY <1>0, <5>1, <5>2, <5>3 DEF IsLatest
        <5> QED
          BY <2>2, <3>1, <5>4
      <4> QED
        BY <4>1, <4>2, <4>3
    <3> QED
      BY <3>1, <3>2, <3>3
  <2> QED
    BY <1>0, <2>3 DEF ReopenInv, SealedBehind
<1> QED
  BY <1>1, <1>2

(* A process that finds the log can append to it, unless the last one      *)
(* stopped between the seal of a segment and the creation of the next, or  *)
(* one of the two failed: whatever else fails or is lost.                  *)
THEOREM Reopens ==
    ASSUME "create" \notin CrashPoints, IOErrors \cap {"close", "create"} = {}
    PROVE  Spec => []ReopenAppends
<1>1. Init => ReopenInv
  <2>1. Init => \A s \in SegIDs : ~disk[s].readOnly
    BY DEF Init, NoFile
  <2> QED
    BY <2>1, ControlInit DEF ReopenInv, SealedBehind
<1>2. ReopenInv /\ [Next]_vars => ReopenInv'
  BY ReopenStep
<1>3. ReopenInv => ReopenAppends
  BY DEF ReopenInv, ControlInv, Control, SealedBehind, ReopenAppends, Segments
<1> QED
  BY <1>1, <1>2, <1>3, PTL DEF Spec

-----------------------------------------------------------------------------
(* The size of a segment                                                   *)

Single(f) == \A j, k \in f.chunks : j = k

(* What the roll-over test counts is the size of the file, and what passed *)
(* it fits.                                                                *)
Bounded ==
    /\ \A s \in SegIDs : Single(disk[s]) \/ disk[s].size <= MaxSegmentSize
    /\ file = "open" => currentSize = disk[active].size
    /\ stage = "write" /\ file = "open" =>
          \/ disk[active].chunks = {}
          \/ disk[active].size + rec.size <= MaxSegmentSize

BoundInv == ControlInv /\ Bounded

LEMMA SingleLeft ==
    ASSUME NEW f \in GoodFile, NEW g \in GoodFile, Left(f, g), Single(f)
    PROVE  Single(g)
<1> SUFFICES ASSUME NEW j \in g.chunks, NEW k \in g.chunks PROVE j = k
  BY DEF Single
<1>1. j.at = k.at
  BY DEF Left, Prefix, Single
<1> QED
  BY <1>1, GoodFields DEF Left, Layout

LEMMA SingleBound ==
    ASSUME NEW f, Single(f)
    PROVE  ~(Cardinality(f.chunks) >= 2)
<1>1. CASE f.chunks = {}
  BY <1>1, FS_EmptySet
<1>2. CASE f.chunks # {}
  <2>1. PICK k : f.chunks = {k}
    BY <1>2 DEF Single
  <2> QED
    BY <2>1, FS_Singleton
<1> QED
  BY <1>1, <1>2

(* currentSize moves with the file.                                        *)
LEMMA SizeStep ==
    ASSUME "write" \notin IOErrors, BoundInv, [Next]_vars, file' = "open"
    PROVE  currentSize' = disk'[active'].size
<1>0. /\ disk \in [SegIDs -> GoodFile] /\ 1 \in SegIDs /\ Layouts /\ Control
      /\ \A s \in SegIDs : disk[s] \in GoodFile /\ disk[s] \in File
      /\ ControlInv /\ rec \in Record /\ rec.size \in Nat
  BY ControlFacts DEF BoundInv, ControlInv, TypeInv, FilesOK
<1>1. ASSUME file = "open", active' = active, currentSize' = currentSize, Keeps
      PROVE  currentSize' = disk'[active'].size
  <2>1. active \in SegIDs /\ currentSize = disk[active].size
    BY <1>0, <1>1 DEF Control, BoundInv, Bounded
  <2> QED
    BY <1>1, <2>1 DEF Keeps, Left
<1>2. CASE WriteSegmentHeader
  <2>1. /\ segID \in SegIDs /\ disk[segID].size = 0
        /\ stage = "header" /\ file = "closed"
    BY <1>0, <1>2 DEF WriteSegmentHeader, Control, IsLatest, Segments
  <2>2. /\ disk' = [disk EXCEPT ![segID] = Headed(@)] /\ active' = segID
        /\ currentSize' = 1
    BY <1>2, <2>1 DEF WriteSegmentHeader, SegmentHeaderSize
  <2> QED
    BY <1>0, <2>1, <2>2, HeadedFile
<1>3. CASE FirstHeader
  <2>1. disk[1].size = 0 /\ file = "nil"
    BY <1>0, <1>3 DEF FirstHeader, Control
  <2>2. /\ disk' = [disk EXCEPT ![1] = Headed(@)] /\ active' = 1
        /\ currentSize' = 1
    BY <1>3, <2>1 DEF FirstHeader, SegmentHeaderSize
  <2> QED
    BY <1>0, <2>1, <2>2, HeadedFile
<1>4. CASE WriteRecord
  <2>1. /\ active \in SegIDs /\ file = "open" /\ active' = active
        /\ disk' = [disk EXCEPT ![active] = Write(@, rec, rec.size)]
        /\ currentSize' = currentSize + rec.size
    BY <1>0, <1>4 DEF WriteRecord, Fails, Control
  <2> QED
    BY <1>0, <2>1, WrittenFields DEF BoundInv, Bounded
<1>5. CASE OpenExisting
  BY <1>5 DEF OpenExisting
<1>6. CASE \/ AppendInsert \/ AppendDelete \/ WriteUnusable \/ SyncRecord
           \/ BackgroundSync \/ Recover \/ UNCHANGED vars \/ SealUnusable
  <2>1. UNCHANGED <<file, active, currentSize>>
    BY <1>6 DEF AppendInsert, AppendDelete, BeginAppend, WriteUnusable,
                SyncRecord, BackgroundSync, Recover, Forget, vars, walVars,
                SealUnusable
  <2>2. stage # "write" \/ file # "open" \/ UNCHANGED vars
    BY <1>0, <1>6
       DEF AppendInsert, AppendDelete, BeginAppend, WriteUnusable, SyncRecord,
           BackgroundSync, Recover, Control, SealUnusable
  <2>3. Keeps \/ UNCHANGED vars
    BY <1>0, <2>2, DiskShape DEF Writes
  <2>4. UNCHANGED vars => disk' = disk
    BY DEF vars
  <2> QED
    BY <1>0, <1>1, <2>1, <2>3, <2>4 DEF BoundInv, Bounded
<1>7. CASE SealSegment \/ CreateSegment \/ Close \/ Stop \/ StopInWrite
  BY <1>0, <1>7 DEF SealSegment, CreateSegment, Close, Stop, StopInWrite,
                    StopsTo, Forget, walVars, Control
<1>8. CASE CreateFirst \/ PowerOn \/ \E s \in SegIDs : LoseTail(s)
  BY <1>0, <1>8 DEF CreateFirst, PowerOn, LoseTail, walVars, Control
<1> QED
  BY <1>2, <1>3, <1>4, <1>5, <1>6, <1>7, <1>8 DEF Next, CallStep

LEMMA BoundStep ==
    ASSUME "write" \notin IOErrors, BoundInv, [Next]_vars
    PROVE  BoundInv'
<1>0. /\ ControlInv /\ ControlInv' /\ Control /\ Control' /\ Bounded
      /\ \A s \in SegIDs : disk[s] \in GoodFile /\ disk'[s] \in GoodFile
      /\ MaxSegmentSize \in Nat /\ rec.size \in Nat /\ currentSize \in Nat
  BY ControlStep, ControlFacts, SizeAssumption
     DEF BoundInv, ControlInv, TypeInv, TypeOK, FilesOK
<1>1. file' = "open" => currentSize' = disk'[active'].size
  BY SizeStep
<1>2. \A s \in SegIDs : Single(disk'[s]) \/ disk'[s].size <= MaxSegmentSize
  <2>1. CASE Keeps
    <3> SUFFICES ASSUME NEW s \in SegIDs
                 PROVE  Single(disk'[s]) \/ disk'[s].size <= MaxSegmentSize
      OBVIOUS
    <3>1. Left(disk[s], disk'[s])
      BY <2>1 DEF Keeps
    <3>2. CASE Single(disk[s])
      BY <1>0, <3>1, <3>2, SingleLeft
    <3>3. CASE disk[s].size <= MaxSegmentSize
      <4>1. CASE disk'[s].chunks = {}
        BY <4>1 DEF Single
      <4>2. CASE disk'[s].size <= disk[s].size
        BY <1>0, <3>3, <4>2, GoodFields
      <4> QED
        BY <3>1, <4>1, <4>2 DEF Left
    <3> QED
      BY <1>0, <3>2, <3>3 DEF Bounded
  <2>2. ASSUME NEW n \in Nat, Writes(n)
        PROVE  \A s \in SegIDs :
                  Single(disk'[s]) \/ disk'[s].size <= MaxSegmentSize
    <3> DEFINE k0 == [at |-> disk[active].size, n |-> n, rec |-> rec]
    <3>1. /\ active \in SegIDs /\ n <= rec.size /\ disk[active].size \in Nat
          /\ disk'[active].size = disk[active].size + n
          /\ disk'[active].chunks = disk[active].chunks \cup {k0}
          /\ \A s \in SegIDs : s # active => disk'[s] = disk[s]
      BY <1>0, <2>2, WriteShape
    <3> HIDE DEF k0
    <3>2. \/ disk[active].chunks = {}
          \/ disk[active].size + rec.size <= MaxSegmentSize
      BY <1>0, <2>2 DEF Bounded, Writes
    <3>3. CASE disk[active].chunks = {}
      BY <1>0, <3>1, <3>3 DEF Single, Bounded
    <3>4. CASE disk[active].size + rec.size <= MaxSegmentSize
      BY <1>0, <3>1, <3>4 DEF Bounded
    <3> QED
      BY <3>2, <3>3, <3>4
  <2> QED
    BY <1>0, <2>1, <2>2, DiskShape
<1>3. ASSUME stage' = "write", file' = "open"
      PROVE  \/ disk'[active'].chunks = {}
             \/ disk'[active'].size + rec'.size <= MaxSegmentSize
  <2>1. \/ AppendInsert \/ AppendDelete \/ WriteSegmentHeader
        \/ UNCHANGED vars
    BY <1>0, <1>3
       DEF Next, CallStep, SealSegment, SealUnusable, CreateSegment,
           WriteRecord, WriteUnusable, SyncRecord, ReturnError, ReturnNil,
           BackgroundSync, Close, Stop, StopInWrite, StopsTo, Forget, PowerOn,
           LoseTail, OpenExisting, CreateFirst, FirstHeader, Recover, Control,
           callVars, walVars
  <2>2. CASE AppendInsert \/ AppendDelete
    <3>1. PICK op \in {"insert", "delete"}, size \in Sizes : BeginAppend(op, size)
      BY <2>2 DEF AppendInsert, AppendDelete, Sizes
    <3>2. /\ rec'.size = size /\ size \in Nat
          /\ size + currentSize <= MaxSegmentSize
          /\ UNCHANGED <<disk, active, currentSize, file>>
      BY <1>0, <1>3, <3>1, SizeNat DEF BeginAppend, NeedsRotation
    <3>3. currentSize = disk[active].size
      BY <1>0, <1>3, <3>2 DEF Bounded
    <3> QED
      BY <1>0, <3>2, <3>3
  <2>3. CASE WriteSegmentHeader
    BY <1>0, <1>3, <2>3, ActiveStep DEF WriteSegmentHeader, OpenExisting,
                                        Control
  <2>4. CASE UNCHANGED vars
    BY <1>0, <1>3, <2>4 DEF vars, callVars, walVars, Bounded
  <2> QED
    BY <2>1, <2>2, <2>3, <2>4
<1> QED
  BY <1>0, <1>1, <1>2, <1>3 DEF BoundInv, Bounded

(* A segment with two or more records is not larger than the maximum, if   *)
(* no write fails: the size the roll-over test counts is the file's, also  *)
(* when a new process took it from a file that was torn or cut.  (A write  *)
(* that fails leaves bytes that currentSize does not count.)               *)
THEOREM SizeBounded ==
    ASSUME "write" \notin IOErrors
    PROVE  Spec => []SegmentBound
<1>1. Init => BoundInv
  <2> SUFFICES ASSUME Init PROVE BoundInv
    OBVIOUS
  <2>1. \A s \in SegIDs : Single(disk[s])
    BY DEF Init, NoFile, Single
  <2> QED
    BY <2>1, ControlInit DEF Init, BoundInv, Bounded
<1>2. BoundInv /\ [Next]_vars => BoundInv'
  BY BoundStep
<1>3. BoundInv => SegmentBound
  BY SingleBound DEF BoundInv, Bounded, SegmentBound
<1> QED
  BY <1>1, <1>2, <1>3, PTL DEF Spec

-----------------------------------------------------------------------------
(* What was acknowledged is read back                                      *)

Sized == \A s \in SegIDs : \A k \in disk[s].chunks : k.rec.size \in Sizes

(* The whole record of every acknowledged append is in some segment.       *)
Kept ==
    \A t \in acked : \E s \in SegIDs : \E k \in disk[s].chunks :
        k.rec.tag = t /\ k.n = k.rec.size

SizedInv == ControlInv /\ Sized
KeptInv  == ControlInv /\ SyncOK /\ phase # "off" /\ Kept

LEMMA SizedStep == SizedInv /\ [Next]_vars => SizedInv'
<1> SUFFICES ASSUME SizedInv, [Next]_vars PROVE SizedInv'
  OBVIOUS
<1>0. ControlInv /\ ControlInv' /\ Sized
  BY ControlStep DEF SizedInv
<1>1. CASE Keeps
  BY <1>0, <1>1 DEF Keeps, Left, Prefix, SizedInv, Sized
<1>2. ASSUME NEW n \in Nat, Writes(n)
      PROVE  SizedInv'
  <2> DEFINE k0 == [at |-> disk[active].size, n |-> n, rec |-> rec]
  <2>1. /\ disk'[active].chunks = disk[active].chunks \cup {k0}
        /\ \A s \in SegIDs : s # active => disk'[s] = disk[s]
        /\ Writing /\ active \in SegIDs
    BY <1>0, <1>2, WriteShape
  <2>2. k0.rec = rec /\ rec.size \in Sizes
    BY <1>0, <2>1 DEF ControlInv, Control
  <2> HIDE DEF k0
  <2> QED
    BY <1>0, <2>1, <2>2 DEF SizedInv, Sized
<1> QED
  BY <1>0, <1>1, <1>2, DiskShape

LEMMA SizedInit == Init => SizedInv
<1>1. Init => \A s \in SegIDs : disk[s].chunks = {}
  BY DEF Init, NoFile
<1> QED
  BY <1>1, ControlInit DEF SizedInv, Sized

(* With the power on chunks are only added.                                *)
LEMMA ChunksGrow ==
    ASSUME ControlInv, [Next]_vars, phase # "off"
    PROVE  \A s \in SegIDs : disk[s].chunks \subseteq disk'[s].chunks
<1>1. CASE Keeps
  BY <1>1 DEF Keeps, Left
<1>2. ASSUME NEW n \in Nat, Writes(n)
      PROVE  \A s \in SegIDs : disk[s].chunks \subseteq disk'[s].chunks
  BY <1>2, WriteShape
<1> QED
  BY <1>1, <1>2, DiskShape

(* An append is acknowledged when its whole record was written, and under  *)
(* SyncAlways was synced.                                                  *)
LEMMA AckStep ==
    ASSUME ControlInv, [Next]_vars
    PROVE  \/ acked' = acked
           \/ acked' = acked \cup {rec.tag} /\ Writes(rec.size)
           \/ /\ acked' = acked \cup {rec.tag} /\ stage = "sync"
              /\ disk' = [disk EXCEPT ![active] = Synced(@)]
<1>1. CASE WriteRecord
  <2>1. rec.size \in Nat /\ rec.size >= 1
    BY <1>1, SizeNat DEF WriteRecord, ControlInv, Control, Writing
  <2>2. rec.size \in 1 .. rec.size
    BY <2>1
  <2> QED
    BY <1>1, <2>2 DEF WriteRecord, ReturnError, ReturnNil, history, Writes
<1>2. CASE SyncRecord
  BY <1>2 DEF SyncRecord, ReturnError, ReturnNil, history
<1>3. CASE AppendInsert \/ AppendDelete
  BY <1>3 DEF AppendInsert, AppendDelete, BeginAppend, history
<1>4. CASE SealSegment \/ SealUnusable \/ CreateSegment
  BY <1>4 DEF SealSegment, SealUnusable, CreateSegment, ReturnError, history
<1>5. CASE WriteSegmentHeader \/ WriteUnusable
  BY <1>5 DEF WriteSegmentHeader, WriteUnusable, ReturnError, history
<1>6. CASE BackgroundSync \/ Close \/ Stop \/ StopInWrite
  BY <1>6 DEF BackgroundSync, Close, Stop, StopInWrite, StopsTo, Forget, history
<1>7. CASE PowerOn \/ \E s \in SegIDs : LoseTail(s)
  BY <1>7 DEF PowerOn, LoseTail, history
<1>8. CASE OpenExisting \/ CreateFirst \/ FirstHeader \/ Recover
  BY <1>8 DEF OpenExisting, CreateFirst, FirstHeader, Recover, Forget, history
<1>9. CASE UNCHANGED vars
  BY <1>9 DEF vars, history
<1> QED
  BY <1>1, <1>2, <1>3, <1>4, <1>5, <1>6, <1>7, <1>8, <1>9 DEF Next, CallStep

LEMMA PowerStep ==
    ASSUME ~PowerLoss, [Next]_vars, phase # "off"
    PROVE  phase' # "off"
BY DEF Next, CallStep, AppendInsert, AppendDelete, BeginAppend, SealSegment,
       SealUnusable, CreateSegment, WriteSegmentHeader, WriteRecord,
       WriteUnusable, SyncRecord, BackgroundSync, Close, Stop, StopInWrite,
       StopsTo, PowerOn, LoseTail, OpenExisting, CreateFirst, FirstHeader,
       Recover, Forget, vars, walVars

LEMMA KeptStep ==
    ASSUME ~PowerLoss, KeptInv, [Next]_vars
    PROVE  KeptInv'
<1>0. /\ ControlInv /\ ControlInv' /\ SyncOK /\ SyncOK' /\ phase' # "off"
      /\ Kept /\ TypeInv
  BY ControlStep, SyncStep, PowerStep DEF KeptInv, ControlInv
<1>1. \A s \in SegIDs : disk[s].chunks \subseteq disk'[s].chunks
  BY <1>0, ChunksGrow DEF KeptInv
<1>2. \A t \in acked : \E s \in SegIDs : \E k \in disk'[s].chunks :
         k.rec.tag = t /\ k.n = k.rec.size
  BY <1>0, <1>1 DEF Kept
<1>3. ASSUME Writes(rec.size)
      PROVE  \E s \in SegIDs : \E k \in disk'[s].chunks :
                k.rec.tag = rec.tag /\ k.n = k.rec.size
  <2> DEFINE k0 == [at |-> disk[active].size, n |-> rec.size, rec |-> rec]
  <2>1. rec.size \in Nat
    BY <1>0, ControlFacts
  <2>2. active \in SegIDs /\ k0 \in disk'[active].chunks
    BY <1>0, <1>3, <2>1, WriteShape
  <2>3. k0.rec = rec /\ k0.n = rec.size
    OBVIOUS
  <2> QED
    BY <2>2, <2>3
<1>4. ASSUME stage = "sync"
      PROVE  \E s \in SegIDs : \E k \in disk'[s].chunks :
                k.rec.tag = rec.tag /\ k.n = k.rec.size
  BY <1>0, <1>1, <1>4 DEF SyncOK, TypeInv, CallOK
<1> QED
  BY <1>0, <1>2, <1>3, <1>4, AckStep DEF KeptInv, Kept

(* Without power loss nothing is lost from a file; under SyncAlways        *)
(* nothing that was acknowledged.                                          *)
LEMMA KeptAlways ==
    ASSUME SyncPolicy = "SyncAlways" \/ ~PowerLoss
    PROVE  Spec => []Kept
<1>1. CASE SyncPolicy = "SyncAlways"
  <2>1. Init => DurableInv
    BY TypeInit DEF Init, DurableInv, SyncOK, PromisedDurable
  <2>2. DurableInv /\ [Next]_vars => DurableInv'
    BY <1>1, DurableStep
  <2>3. DurableInv => Kept
    BY DEF DurableInv, PromisedDurable, OnDisk, Segments, Kept
  <2> QED
    BY <2>1, <2>2, <2>3, PTL DEF Spec
<1>2. CASE ~PowerLoss
  <2>1. Init => KeptInv
    BY ControlInit DEF Init, KeptInv, SyncOK, Kept
  <2>2. KeptInv /\ [Next]_vars => KeptInv'
    BY <1>2, KeptStep
  <2>3. KeptInv => Kept
    BY DEF KeptInv
  <2> QED
    BY <2>1, <2>2, <2>3, PTL DEF Spec
<1> QED
  BY <1>1, <1>2

RecordsFit == \A n \in Sizes : n <= MaxSegmentSize

(* A segment that is torn at its end only, if at all, scans.               *)
LEMMA TornScans ==
    ASSUME RecordsFit, NEW f \in GoodFile, Layout(f), f.size >= SegmentHeaderSize,
           \A k \in f.chunks : k.rec.size \in Sizes,
           \A t \in Torn(f) : t.at + t.n = f.size
    PROVE  ScanOK(f)
<1>1. \A k \in f.chunks : HeaderAccepted(k.rec)
  BY DEF RecordsFit, HeaderAccepted
<1>2. ASSUME Torn(f) # {}
      PROVE  FirstTorn(f) \in Torn(f)
  <2>1. \A t, u \in Torn(f) : t = u
    BY GoodFields DEF Torn, Layout
  <2>2. \E t \in Torn(f) : \A u \in Torn(f) : t.at <= u.at
    BY <1>2, <2>1, GoodFields DEF Torn
  <2> QED
    BY <2>2 DEF FirstTorn
<1>3. ASSUME NEW t \in Torn(f)
      PROVE  EndsInside(f, t)
  <2>1. f.size - t.at = t.n /\ t.n < t.rec.size
    BY GoodFields DEF Torn
  <2> QED
    BY <2>1, GoodFields DEF EndsInside, RecordHeaderSize, Torn
<1> QED
  BY <1>1, <1>2, <1>3 DEF ScanOK, WholePrefix, Torn

LEMMA TornKept ==
    ASSUME RecordsFit, SizedInv, Kept
    PROVE  TornTailDiscarded
<1> SUFFICES ASSUME TearsOnlyAtEnds,
                    \A s \in Segments : disk[s].size >= SegmentHeaderSize
             PROVE  AckedRecovered
  BY DEF TornTailDiscarded
<1>0. /\ \A s \in SegIDs : disk[s] \in GoodFile /\ Layout(disk[s])
      /\ Segments \subseteq SegIDs
  BY ControlFacts DEF SizedInv, ControlInv, Layouts, Segments
<1>1. RecoverOK
  BY <1>0, TornScans DEF RecoverOK, SizedInv, Sized, TearsOnlyAtEnds
<1>2. ASSUME NEW t \in acked
      PROVE  \E x \in Recovered : Tag(x) = t
  <2>0. PICK s \in SegIDs : \E k \in disk[s].chunks :
          k.rec.tag = t /\ k.n = k.rec.size
    BY <1>2 DEF Kept
  <2>1. PICK k \in disk[s].chunks : k.rec.tag = t /\ k.n = k.rec.size
    BY <2>0
  <2>2. s \in Segments
    BY <1>0, <2>1 DEF Layout, Segments
  <2>3. ASSUME NEW u \in Torn(disk[s])
        PROVE  k.at < u.at
    <3>1. u.at + u.n = disk[s].size /\ u # k /\ u \in disk[s].chunks
      BY <1>0, <2>1, <2>2, GoodFields DEF TearsOnlyAtEnds, Torn
    <3>2. \/ k.at + k.n <= u.at
          \/ u.at + u.n <= k.at
      BY <1>0, <2>1, <3>1 DEF Layout
    <3>3. k.at + k.n <= disk[s].size
      BY <1>0, <2>1 DEF Layout
    <3> QED
      BY <1>0, <2>1, <3>1, <3>2, <3>3, GoodFields
  <2>4. k \in WholePrefix(disk[s])
    BY <2>1, <2>3 DEF WholePrefix
  <2>5. <<s, k>> \in Recovered /\ Tag(<<s, k>>) = t
    BY <2>1, <2>2, <2>4 DEF Recovered, Tag
  <2> QED
    BY <2>5
<1> QED
  BY <1>1, <1>2 DEF AckedRecovered

(* A torn record with nothing behind it costs nothing that was             *)
(* acknowledged: Recover reads the log to that record and returns every    *)
(* acknowledged append, whichever appends failed before and wherever the   *)
(* process died; under SyncAlways also when tails were lost.  Records must *)
(* fit a segment: Recover refuses a longer one, the append does not.       *)
THEOREM TornTail ==
    ASSUME RecordsFit, SyncPolicy = "SyncAlways" \/ ~PowerLoss
    PROVE  Spec => []TornTailDiscarded
<1>1. Spec => []SizedInv
  BY SizedInit, SizedStep, PTL DEF Spec
<1>2. Spec => []Kept
  BY KeptAlways
<1>3. SizedInv /\ Kept => TornTailDiscarded
  BY TornKept
<1> QED
  BY <1>1, <1>2, <1>3, PTL

-----------------------------------------------------------------------------
(* A log without torn records                                              *)

(* Nothing tears a record: no write fails or is interrupted, and no tail   *)
(* is lost.                                                                *)
NoTears == ~PowerLoss /\ "write" \notin IOErrors /\ "tear" \notin CrashPoints

Whole == \A s \in SegIDs : Torn(disk[s]) = {}

WholeInv == ControlInv /\ phase # "off" /\ Whole

LEMMA WholeWrite ==
    ASSUME NoTears, ControlInv, [Next]_vars, NEW n \in Nat, Writes(n)
    PROVE  n = rec.size /\ WriteRecord /\ stage' \in {"idle", "sync"}
<1>1. WriteRecord
  BY DEF NoTears, Writes, StopInWrite, StopsTo
<1>2. Writes(rec.size)
  BY <1>1, ControlFacts DEF NoTears, Writes, WriteRecord, Fails
<1>3. /\ disk[active].size \in Nat /\ rec.size \in Nat
      /\ disk'[active].size = disk[active].size + n
      /\ disk'[active].size = disk[active].size + rec.size
  BY <1>2, WriteShape, ControlFacts
<1> QED
  BY <1>1, <1>3 DEF WriteRecord, ReturnError, ReturnNil

LEMMA WholeStep ==
    ASSUME NoTears, WholeInv, [Next]_vars
    PROVE  WholeInv'
<1>0. ControlInv /\ ControlInv' /\ phase # "off" /\ phase' # "off"
  BY ControlStep, PowerStep DEF WholeInv, NoTears
<1>1. CASE Keeps
  BY <1>0, <1>1 DEF Keeps, Left, WholeInv, Whole, Torn
<1>2. ASSUME NEW n \in Nat, Writes(n)
      PROVE  WholeInv'
  <2> DEFINE k0 == [at |-> disk[active].size, n |-> n, rec |-> rec]
  <2>1. /\ disk'[active].chunks = disk[active].chunks \cup {k0}
        /\ \A s \in SegIDs : s # active => disk'[s] = disk[s]
        /\ active \in SegIDs /\ rec.size \in Nat
    BY <1>0, <1>2, WriteShape
  <2>2. k0.n = k0.rec.size
    BY <1>0, <1>2, WholeWrite
  <2> HIDE DEF k0
  <2>3. ~(k0.n < k0.rec.size)
    BY <2>1, <2>2 DEF k0
  <2> QED
    BY <1>0, <2>1, <2>3 DEF WholeInv, Whole, Torn
<1> QED
  BY <1>0, <1>1, <1>2, DiskShape

LEMMA WholeInit == Init => WholeInv
<1>1. Init => \A s \in SegIDs : disk[s].chunks = {}
  BY DEF Init, NoFile
<1> QED
  BY <1>1, ControlInit DEF Init, WholeInv, Whole, Torn

(* Every segment has its header, but the one being made.                   *)
Headers ==
    \A s \in Segments :
        \/ disk[s].size >= SegmentHeaderSize
        \/ stage = "header" /\ s = segID
        \/ phase = "opening" /\ s = 1

HeadersInv == WholeInv /\ Headers

(* What a segment that is being made goes through next.                    *)
LEMMA HeaderStep ==
    ASSUME ControlInv, [Next]_vars, stage = "header" \/ phase = "opening"
    PROVE  \/ /\ stage = "header" /\ WriteSegmentHeader /\ stage' = "write"
              /\ active' = segID /\ file' = "open" /\ UNCHANGED rec
              /\ disk' = [disk EXCEPT ![segID] = Headed(@)]
           \/ /\ phase = "opening" /\ FirstHeader /\ phase' = "ready"
              /\ disk' = [disk EXCEPT ![1] = Headed(@)]
           \/ "header" \in IOErrors /\ disk' = disk
           \/ Stop /\ disk' = disk
           \/ UNCHANGED vars
<1>0. Control /\ (phase = "opening" => stage = "idle")
  BY DEF ControlInv, Control
<1>1. WriteSegmentHeader \/ FirstHeader \/ Stop \/ UNCHANGED vars
  BY <1>0 DEF Next, CallStep, AppendInsert, AppendDelete, BeginAppend,
              SealSegment, SealUnusable, CreateSegment, WriteRecord,
              WriteUnusable, SyncRecord, BackgroundSync, Close, StopInWrite,
              PowerOn, LoseTail, OpenExisting, CreateFirst, Recover, Control
<1> QED
  BY <1>0, <1>1 DEF WriteSegmentHeader, FirstHeader, Stop, Fails

LEMMA HeadersStep ==
    ASSUME NoTears, IOErrors \cap {"header"} = {},
           CrashPoints \cap {"first", "header"} = {}, HeadersInv, [Next]_vars
    PROVE  HeadersInv'
<1>0. /\ WholeInv' /\ ControlInv /\ ControlInv' /\ Headers /\ phase # "off"
      /\ SegIDs \subseteq Nat /\ 1 \in SegIDs /\ Segments \subseteq SegIDs
      /\ disk \in [SegIDs -> GoodFile]
      /\ \A s \in SegIDs : /\ disk[s] \in GoodFile /\ disk'[s] \in GoodFile
                           /\ disk[s] \in File
  BY ControlStep, ControlFacts, WholeStep
     DEF HeadersInv, WholeInv, ControlInv, TypeInv, FilesOK, Segments
<1>1. \A s \in SegIDs : disk'[s].size >= disk[s].size
  <2>1. CASE Keeps
    BY <1>0, <2>1 DEF Keeps, Left
  <2>2. ASSUME NEW n \in Nat, Writes(n)
        PROVE  \A s \in SegIDs : disk'[s].size >= disk[s].size
    BY <1>0, <2>2, WriteShape, GoodFields
  <2> QED
    BY <1>0, <2>1, <2>2, DiskShape
<1>2. ASSUME NEW s \in Segments, disk[s].size >= SegmentHeaderSize
      PROVE  disk'[s].size >= SegmentHeaderSize
  <2>1. s \in SegIDs /\ disk[s].size \in Nat /\ disk'[s].size \in Nat
    BY <1>0, GoodFields
  <2> QED
    BY <1>1, <1>2, <2>1 DEF SegmentHeaderSize
<1>3. CASE stage = "header" \/ phase = "opening"
  <2>1. ~Stop
    BY <1>0, <1>3 DEF Stop, StopsTo, ControlInv, Control
  <2>2. CASE UNCHANGED vars
    BY <1>0, <2>2 DEF vars, walVars, callVars, HeadersInv, Headers, Segments
  <2>3. Segments' = Segments \/ UNCHANGED vars
    BY <1>0, <1>3, SegmentsStep
       DEF CreateSegment, CreateFirst, ControlInv, Control
  <2>4. ASSUME NEW s \in SegIDs, disk[s].exists,
               disk' = [disk EXCEPT ![s] = Headed(@)]
        PROVE  disk'[s].size >= SegmentHeaderSize
    BY <1>0, <2>4, HeadedFile, GoodFields DEF SegmentHeaderSize
  <2>5. CASE /\ stage = "header" /\ WriteSegmentHeader
             /\ disk' = [disk EXCEPT ![segID] = Headed(@)]
    <3>1. /\ segID \in SegIDs /\ disk[segID].exists /\ phase # "opening"
      BY <1>0, <2>5 DEF ControlInv, Control, IsLatest, Segments
    <3>2. disk'[segID].size >= SegmentHeaderSize
      BY <2>4, <2>5, <3>1
    <3> QED
      BY <1>0, <1>2, <2>2, <2>3, <3>1, <3>2 DEF HeadersInv, Headers
  <2>6. CASE /\ phase = "opening" /\ FirstHeader
             /\ disk' = [disk EXCEPT ![1] = Headed(@)]
    <3>1. disk[1].exists /\ stage # "header"
      BY <1>0, <2>6 DEF ControlInv, Control, Segments
    <3>2. disk'[1].size >= SegmentHeaderSize
      BY <1>0, <2>4, <2>6, <3>1
    <3> QED
      BY <1>0, <1>2, <2>2, <2>3, <3>1, <3>2 DEF HeadersInv, Headers
  <2> QED
    BY <1>0, <1>3, <2>1, <2>2, <2>5, <2>6, HeaderStep
<1>4. CASE ~(stage = "header" \/ phase = "opening")
  <2>1. \A s \in Segments : disk'[s].size >= SegmentHeaderSize
    BY <1>0, <1>2, <1>4 DEF Headers
  <2>2. CASE Segments' = Segments
    BY <1>0, <2>1, <2>2 DEF HeadersInv, Headers
  <2>3. CASE CreateSegment /\ Segments' = Segments \cup {segID}
             /\ disk' = [disk EXCEPT ![segID] = Created(@)]
    <3>1. segID' = segID /\ (stage' = "header" \/ stage' = "idle")
      BY <2>3 DEF CreateSegment, walVars, ReturnError
    <3>2. segID \in SegIDs /\ ~disk[segID].exists
      <4>1. segID \in SegIDs /\ \A t \in Segments : t < segID
        BY <1>0, <2>3 DEF CreateSegment, ControlInv, Control, TypeInv, CallOK
      <4>2. segID \in Nat /\ segID \notin Segments
        BY <1>0, <4>1
      <4> QED
        BY <4>1, <4>2 DEF Segments
    <3>3. disk'[segID].exists
      BY <1>0, <2>3, <3>2, CreatedFile
    <3>4. stage' = "header"
      BY <2>3, <3>1, <3>2, <3>3 DEF CreateSegment
    <3> QED
      BY <1>0, <2>1, <2>3, <3>1, <3>4 DEF HeadersInv, Headers
  <2>4. CASE CreateFirst /\ Segments' = Segments \cup {1}
             /\ disk' = [disk EXCEPT ![1] = Created(@)]
    <3>1. phase = "down" /\ ~disk[1].exists
      BY <1>0, <2>4 DEF CreateFirst, Segments
    <3>2. disk'[1].exists
      BY <1>0, <2>4, CreatedFile
    <3>3. phase' = "opening"
      BY <2>4, <3>1, <3>2 DEF CreateFirst
    <3> QED
      BY <1>0, <2>1, <2>4, <3>3 DEF HeadersInv, Headers
  <2> QED
    BY <1>0, <2>2, <2>3, <2>4, SegmentsStep
<1> QED
  BY <1>3, <1>4

(* A restart recovers every acknowledged append, if no record is torn and  *)
(* no segment was left without its header: under every sync policy, and    *)
(* with every other failure and point of death.                            *)
THEOREM AcksRecovered ==
    ASSUME NoTears, RecordsFit, IOErrors \cap {"header"} = {},
           CrashPoints \cap {"first", "header"} = {}
    PROVE  Spec => []RecoversEveryAck
<1>1. Spec => []HeadersInv
  <2>1. Init => HeadersInv
    <3>1. Init => Segments = {}
      BY DEF Init, NoFile, Segments
    <3> QED
      BY <3>1, WholeInit DEF HeadersInv, Headers
  <2>2. HeadersInv /\ [Next]_vars => HeadersInv'
    BY HeadersStep
  <2> QED
    BY <2>1, <2>2, PTL DEF Spec
<1>2. Spec => []TornTailDiscarded
  BY TornTail DEF NoTears
<1>3. HeadersInv /\ TornTailDiscarded => RecoversEveryAck
  BY DEF HeadersInv, WholeInv, Whole, Headers, ControlInv, Control, Segments,
         TornTailDiscarded, TearsOnlyAtEnds, RecoversEveryAck
<1> QED
  BY <1>1, <1>2, <1>3, PTL

-----------------------------------------------------------------------------
(* The order of the LSNs across segments                                   *)

LsnsFollow ==
    \A s, t \in SegIDs : \A j \in disk[s].chunks : \A k \in disk[t].chunks :
        s < t \/ (s = t /\ j.at < k.at) => j.rec.lsn < k.rec.lsn

(* wal.lsn is at no record's back: once the log was read, or as soon as it *)
(* was opened if its latest segment has a header.                          *)
LsnAhead ==
    /\ phase \in {"ready", "closed"} =>
         \A s \in SegIDs : \A k \in disk[s].chunks :
             k.rec.lsn <= lsn /\ (Writing => k.rec.lsn < lsn)
    /\ phase = "opened" =>
         \/ disk[active].size < SegmentHeaderSize
         \/ \A s \in SegIDs : \A k \in disk[s].chunks : k.rec.lsn <= lsn

(* No segment is left without a record when records came before it: the    *)
(* append that made it writes to it.                                       *)
NoneEmpty ==
    \A s \in Segments : disk[s].chunks = {} =>
        \/ disk[s].size < SegmentHeaderSize
        \/ stage = "write" /\ file = "open" /\ s = active
        \/ \A t \in SegIDs : t <= s => disk[t].chunks = {}

AcrossInv == WholeInv /\ LsnsFollow /\ LsnAhead /\ NoneEmpty

(* A log becomes ready by its first header or by a Recover that succeeds.  *)
LEMMA ReadyStep ==
    ASSUME ControlInv, [Next]_vars, phase' \in {"ready", "closed"}
    PROVE  \/ phase \in {"ready", "closed"} /\ (Begins \/ lsn' = lsn)
           \/ FirstHeader /\ phase = "opening"
           \/ /\ phase = "opened" /\ RecoverOK
              /\ UNCHANGED <<disk, lsn, active, file>> /\ ~Writing'
<1>0. Control
  BY DEF ControlInv
<1>1. CASE AppendInsert \/ AppendDelete
  BY <1>1 DEF AppendInsert, AppendDelete, BeginAppend, Begins, history
<1>2. CASE CallStep
  BY <1>0, <1>2
     DEF CallStep, SealSegment, SealUnusable, CreateSegment,
         WriteSegmentHeader, WriteRecord, WriteUnusable, SyncRecord, walVars,
         Control
<1>3. CASE Recover
  BY <1>0, <1>3 DEF Recover, Control, callVars, Writing
<1>4. CASE BackgroundSync \/ Close \/ Stop \/ StopInWrite
  BY <1>0, <1>4
     DEF BackgroundSync, Close, Stop, StopInWrite, StopsTo, walVars, callVars,
         Writing, Control
<1>5. CASE PowerOn \/ \E s \in SegIDs : LoseTail(s)
  BY <1>5 DEF PowerOn, LoseTail, walVars
<1>6. CASE OpenExisting \/ CreateFirst \/ FirstHeader
  BY <1>6 DEF OpenExisting, CreateFirst, FirstHeader
<1>7. CASE UNCHANGED vars
  BY <1>0, <1>7 DEF vars, walVars, callVars, Control, Writing
<1> QED
  BY <1>1, <1>2, <1>3, <1>4, <1>5, <1>6, <1>7 DEF Next

LEMMA OpenedStep ==
    ASSUME ControlInv, [Next]_vars, phase' = "opened"
    PROVE  OpenExisting \/ /\ phase = "opened" /\ UNCHANGED <<lsn, active>>
                           /\ stage = "idle" /\ file = "open"
BY DEF Next, CallStep, AppendInsert, AppendDelete, BeginAppend, SealSegment,
       SealUnusable, CreateSegment, WriteSegmentHeader, WriteRecord,
       WriteUnusable, SyncRecord, BackgroundSync, Close, Stop, StopInWrite,
       StopsTo, PowerOn, LoseTail, CreateFirst, FirstHeader, Recover, Forget,
       vars, walVars, ControlInv, Control

LEMMA WholeFile ==
    ASSUME WholeInv, LsnsFollow, NEW s \in SegIDs
    PROVE  Ascends(disk[s]) /\ Torn(disk[s]) = {}
BY DEF WholeInv, Whole, LsnsFollow, Ascends, Heard

(* What a new process takes for wal.lsn is behind all records.             *)
LEMMA OpenAhead ==
    ASSUME AcrossInv, OpenExisting, [Next]_vars
    PROVE  \/ disk'[active'].size < SegmentHeaderSize
           \/ \A s \in SegIDs : \A k \in disk'[s].chunks : k.rec.lsn <= lsn'
<1>0. /\ SegIDs \subseteq Nat /\ Layouts /\ ControlInv /\ Control
      /\ \A s \in SegIDs : disk[s] \in GoodFile
  BY ControlFacts DEF AcrossInv, WholeInv, ControlInv
<1>1. PICK s \in Segments : /\ IsLatest(s) /\ active' = s
                            /\ lsn' = GetLatestLSN(disk[s])
  BY DEF OpenExisting
<1>2. disk' = disk /\ s \in SegIDs /\ stage # "write"
  BY <1>0, <1>1 DEF OpenExisting, Segments, Control
<1>3. ASSUME NEW t \in SegIDs, t > s
      PROVE  disk[t].chunks = {}
  <2>1. t \notin Segments
    BY <1>0, <1>1, <1>2, <1>3 DEF IsLatest
  <2> QED
    BY <1>0, <2>1 DEF Segments, Layouts, Layout
<1>4. CASE disk[s].chunks = {}
  <2>1. \/ disk[s].size < SegmentHeaderSize
        \/ \A t \in SegIDs : t <= s => disk[t].chunks = {}
    BY <1>1, <1>2, <1>4 DEF AcrossInv, NoneEmpty
  <2>2. \A t \in SegIDs : t <= s \/ t > s
    BY <1>0, <1>2
  <2> QED
    BY <1>1, <1>2, <1>3, <2>1, <2>2
<1>5. CASE disk[s].chunks # {}
  <2>1. PICK m \in disk[s].chunks : TRUE
    BY <1>5
  <2>2. \A k \in disk[s].chunks : k.rec.lsn <= lsn'
    BY <1>0, <1>1, <1>2, WholeFile, LatestLSNBound DEF AcrossInv, Layouts
  <2>3. ASSUME NEW t \in SegIDs, NEW k \in disk[t].chunks, t < s
        PROVE  k.rec.lsn <= lsn'
    <3>1. k.rec.lsn < m.rec.lsn /\ m.rec.lsn <= lsn'
      BY <1>2, <2>1, <2>2, <2>3 DEF AcrossInv, LsnsFollow
    <3>2. k.rec.lsn \in Nat /\ m.rec.lsn \in Nat /\ lsn' \in Nat
      BY <1>0, <1>1, <1>2, <2>1, GoodFields, LatestLSNType
    <3> QED
      BY <3>1, <3>2
  <2>4. \A t \in SegIDs : t < s \/ t = s \/ t > s
    BY <1>0, <1>2
  <2> QED
    BY <1>2, <1>3, <2>2, <2>3, <2>4
<1> QED
  BY <1>4, <1>5

LEMMA AheadStep ==
    ASSUME NoTears, AcrossInv, [Next]_vars
    PROVE  LsnsFollow' /\ LsnAhead'
<1>0. /\ WholeInv' /\ ControlInv /\ ControlInv' /\ SegIDs \subseteq Nat
      /\ Control /\ Layouts /\ lsn \in Nat /\ phase # "off"
      /\ LsnsFollow /\ LsnAhead /\ 1 \in SegIDs
      /\ \A s \in SegIDs : disk[s] \in GoodFile /\ disk'[s] \in GoodFile
  BY ControlStep, ControlFacts, WholeStep
     DEF AcrossInv, WholeInv, ControlInv, TypeInv, FilesOK
<1>1. ASSUME NEW n \in Nat, Writes(n)
      PROVE  LsnsFollow' /\ LsnAhead'
  <2> DEFINE k0 == [at |-> disk[active].size, n |-> n, rec |-> rec]
  <2>1. /\ active \in SegIDs /\ active \in Nat /\ Writing
        /\ disk[active].size \in Nat
        /\ disk'[active].chunks = disk[active].chunks \cup {k0}
        /\ \A s \in SegIDs : s # active => disk'[s] = disk[s]
        /\ \A s \in SegIDs : s > active => disk[s].chunks = {}
        /\ \A k \in disk[active].chunks : k.at + k.n <= disk[active].size
    BY <1>0, <1>1, WriteShape
  <2>2. k0.at = disk[active].size /\ k0.rec = rec
    OBVIOUS
  <2>3. /\ rec.lsn = lsn /\ lsn' = lsn /\ phase' = phase /\ ~Writing'
        /\ phase \in {"ready", "closed"}
    BY <1>0, <1>1, <2>1, WholeWrite, WritesStep
       DEF Control, Writing, WriteRecord
  <2> HIDE DEF k0
  <2>4. \A s \in SegIDs : \A k \in disk'[s].chunks :
           k \in disk[s].chunks \/ (s = active /\ k = k0)
    BY <2>1
  <2>5. \A s \in SegIDs : \A k \in disk[s].chunks : k.rec.lsn < lsn
    BY <1>0, <2>1, <2>3 DEF LsnAhead
  <2>6. LsnAhead'
    BY <1>0, <2>2, <2>3, <2>4, <2>5, GoodFields DEF LsnAhead
  <2>7. ASSUME NEW s \in SegIDs, NEW t \in SegIDs,
               NEW j \in disk'[s].chunks, NEW k \in disk'[t].chunks,
               s < t \/ (s = t /\ j.at < k.at)
        PROVE  j.rec.lsn < k.rec.lsn
    <3>1. CASE j \in disk[s].chunks /\ k \in disk[t].chunks
      BY <1>0, <2>7, <3>1 DEF LsnsFollow
    <3>2. CASE j \in disk[s].chunks /\ k = k0
      BY <2>2, <2>3, <2>5, <3>2
    <3>3. CASE s = active /\ j = k0 /\ k \in disk[t].chunks
      <4>1. t = s /\ k.at + k.n <= j.at
        BY <1>0, <2>1, <2>2, <2>7, <3>3
      <4> QED
        BY <1>0, <2>1, <2>2, <2>7, <3>3, <4>1, GoodFields
    <3>4. CASE s = active /\ j = k0 /\ t = active /\ k = k0
      BY <1>0, <2>1, <2>2, <2>7, <3>4
    <3> QED
      BY <2>4, <3>1, <3>2, <3>3, <3>4
  <2> QED
    BY <2>6, <2>7 DEF LsnsFollow
<1>2. CASE Keeps
  <2>1. \A s \in SegIDs : disk'[s].chunks = disk[s].chunks
    BY <1>0, <1>2 DEF Keeps, Left
  <2>2. LsnsFollow'
    BY <1>0, <2>1 DEF LsnsFollow
  <2>3. ASSUME phase' \in {"ready", "closed"}, NEW s \in SegIDs,
               NEW k \in disk'[s].chunks
        PROVE  k.rec.lsn <= lsn' /\ (Writing' => k.rec.lsn < lsn')
    <3>1. k \in disk[s].chunks /\ k.rec.lsn \in Nat
      BY <1>0, <2>1, GoodFields
    <3>2. CASE phase \in {"ready", "closed"} /\ Begins
      BY <1>0, <3>1, <3>2 DEF LsnAhead, Begins
    <3>3. CASE phase \in {"ready", "closed"} /\ ~Begins /\ lsn' = lsn
      <4>1. Writing' => Writing
        BY <1>0, <3>3, DrawStep
      <4> QED
        BY <1>0, <3>1, <3>3, <4>1 DEF LsnAhead
    <3>4. CASE FirstHeader /\ phase = "opening"
      <4>1. Segments = {1} /\ disk[1].size = 0
        BY <1>0, <3>4 DEF Control
      <4>2. disk[1].chunks = {}
        BY <1>0, <4>1, HeadedLayout DEF Layouts, Segments
      <4>3. s # 1 => disk[s].chunks = {}
        BY <1>0, <4>1 DEF Layouts, Layout, Segments
      <4> QED
        BY <3>1, <4>2, <4>3
    <3>5. CASE /\ phase = "opened" /\ RecoverOK
               /\ UNCHANGED <<disk, lsn, active, file>> /\ ~Writing'
      <4>1. active \in Segments /\ active \in SegIDs
        BY <1>0, <3>5 DEF Control, IsLatest, Segments
      <4>2. disk[active].size >= SegmentHeaderSize /\ disk[active].size \in Nat
        BY <1>0, <3>5, <4>1, GoodFields DEF RecoverOK, ScanOK
      <4>3. ~(disk[active].size < SegmentHeaderSize)
        BY <4>2 DEF SegmentHeaderSize
      <4> QED
        BY <1>0, <3>1, <3>5, <4>3 DEF LsnAhead
    <3> QED
      BY <1>0, <2>3, <3>2, <3>3, <3>4, <3>5, ReadyStep
  <2>4. ASSUME phase' = "opened"
        PROVE  \/ disk'[active'].size < SegmentHeaderSize
               \/ \A s \in SegIDs : \A k \in disk'[s].chunks : k.rec.lsn <= lsn'
    <3>1. CASE OpenExisting
      BY <3>1, OpenAhead
    <3>2. CASE /\ phase = "opened" /\ UNCHANGED <<lsn, active>>
               /\ stage = "idle" /\ file = "open"
      <4>1. active \in SegIDs /\ disk'[active].size = disk[active].size
        BY <1>0, <1>2, <3>2 DEF Control, Keeps, Left
      <4> QED
        BY <1>0, <2>1, <3>2, <4>1 DEF LsnAhead
    <3> QED
      BY <1>0, <2>4, <3>1, <3>2, OpenedStep
  <2> QED
    BY <2>2, <2>3, <2>4 DEF LsnAhead
<1> QED
  BY <1>0, <1>1, <1>2, DiskShape

LEMMA NoneEmptyStep ==
    ASSUME NoTears, "write" \notin CrashPoints, AcrossInv, [Next]_vars
    PROVE  NoneEmpty'
<1>0. /\ WholeInv' /\ ControlInv /\ ControlInv' /\ SegIDs \subseteq Nat
      /\ Control /\ Layouts /\ phase # "off" /\ NoneEmpty /\ 1 \in SegIDs
      /\ Segments \subseteq SegIDs /\ disk \in [SegIDs -> GoodFile]
      /\ \A s \in SegIDs : /\ disk[s] \in GoodFile /\ disk'[s] \in GoodFile
                           /\ disk[s] \in File
  BY ControlStep, ControlFacts, WholeStep
     DEF AcrossInv, WholeInv, ControlInv, TypeInv, FilesOK, Segments
<1>1. ASSUME NEW n \in Nat, Writes(n)
      PROVE  NoneEmpty'
  <2> DEFINE k0 == [at |-> disk[active].size, n |-> n, rec |-> rec]
  <2>1. /\ active \in SegIDs /\ active \in Nat /\ IsLatest(active)
        /\ disk'[active].chunks = disk[active].chunks \cup {k0}
        /\ \A s \in SegIDs : s # active => disk'[s] = disk[s]
    BY <1>0, <1>1, WriteShape
  <2>2. Segments' = Segments
    BY <1>0, <1>1, SegmentsStep
       DEF Writes, CreateSegment, CreateFirst, Control
  <2>3. ASSUME NEW s \in Segments, disk'[s].chunks = {}
        PROVE  \/ disk'[s].size < SegmentHeaderSize
               \/ \A t \in SegIDs : t <= s => disk'[t].chunks = {}
    <3>1. s # active /\ s \in SegIDs
      BY <1>0, <2>1, <2>3
    <3>2. s < active
      BY <1>0, <2>1, <3>1 DEF IsLatest
    <3>3. \A t \in SegIDs : t <= s => t # active
      BY <1>0, <2>1, <3>1, <3>2
    <3> QED
      BY <1>0, <2>1, <2>3, <3>1, <3>3 DEF NoneEmpty
  <2> QED
    BY <2>2, <2>3 DEF NoneEmpty
<1>2. CASE Keeps /\ \A n \in Nat : ~Writes(n)
  <2>1. \A s \in SegIDs : disk'[s].chunks = disk[s].chunks
    BY <1>0, <1>2 DEF Keeps, Left
  <2>2. CASE stage = "header" \/ phase = "opening"
    <3>1. Segments' = Segments
      BY <1>0, <2>2, SegmentsStep DEF CreateSegment, CreateFirst, Control
    <3>2. stage # "write"
      BY <1>0, <2>2 DEF Control
    <3>3. CASE UNCHANGED disk
      BY <1>0, <3>1, <3>2, <3>3 DEF NoneEmpty
    <3>4. CASE UNCHANGED vars
      BY <3>3, <3>4 DEF vars
    <3>5. CASE /\ stage = "header" /\ stage' = "write" /\ file' = "open"
               /\ active' = segID /\ disk' = [disk EXCEPT ![segID] = Headed(@)]
      <4>1. \A s \in SegIDs : s # segID => disk'[s] = disk[s]
        BY <1>0, <3>5
      <4> QED
        BY <1>0, <2>1, <3>1, <3>2, <3>5, <4>1 DEF NoneEmpty
    <3>6. CASE phase = "opening" /\ disk' = [disk EXCEPT ![1] = Headed(@)]
      <4>1. Segments = {1} /\ \A t \in SegIDs : t <= 1 => t = 1
        BY <1>0, <3>6 DEF Control, SegIDs
      <4> QED
        BY <1>0, <3>1, <4>1 DEF NoneEmpty
    <3> QED
      BY <1>0, <2>2, <3>3, <3>4, <3>5, <3>6, HeaderStep
  <2>3. CASE ~(stage = "header" \/ phase = "opening")
    <3>1. \A s \in SegIDs : disk[s].size \in Nat /\ disk'[s].size \in Nat
                            /\ disk'[s].size <= disk[s].size
      BY <1>0, <1>2, <2>3, GoodFields DEF Keeps, Left
    <3>2. ASSUME NEW s \in SegIDs, s \notin Segments
          PROVE  disk'[s].size < SegmentHeaderSize
      <4>1. disk[s].size = 0
        BY <1>0, <3>2 DEF Segments, Layouts, Layout
      <4> QED
        BY <3>1, <4>1 DEF SegmentHeaderSize
    <3>3. ASSUME NEW s \in Segments, disk[s].size < SegmentHeaderSize
          PROVE  disk'[s].size < SegmentHeaderSize
      <4>1. s \in SegIDs
        BY <1>0
      <4> QED
        BY <3>1, <3>3, <4>1 DEF SegmentHeaderSize
    <3>4. ASSUME stage = "write", file = "open"
          PROVE  UNCHANGED <<stage, file, active>>
      <4>1. WriteRecord \/ Stop \/ StopInWrite \/ UNCHANGED vars
        BY <1>0, <3>4
           DEF Next, CallStep, AppendInsert, AppendDelete, BeginAppend,
               SealSegment, SealUnusable, CreateSegment, WriteSegmentHeader,
               WriteUnusable, SyncRecord, BackgroundSync, Close, PowerOn,
               LoseTail, OpenExisting, CreateFirst, FirstHeader, Recover,
               Control
      <4>2. ~StopInWrite /\ ~Stop
        BY <1>0, <3>4 DEF NoTears, StopInWrite, Stop, StopsTo, Control
      <4>3. ~WriteRecord
        <5>1. WriteRecord => disk' = [disk EXCEPT ![active] =
                                        Write(@, rec, rec.size)]
          BY DEF WriteRecord, NoTears, Fails
        <5>2. Writing /\ rec.size \in Nat
          BY <1>0, <3>4, ControlFacts DEF Writing
        <5>3. rec.size \in 1 .. rec.size
          BY <1>0, <5>2, SizeNat DEF Control
        <5> QED
          BY <1>2, <3>4, <5>1, <5>2, <5>3 DEF Writes
      <4> QED
        BY <4>1, <4>2, <4>3 DEF vars, callVars, walVars
    <3>5. ASSUME NEW s \in Segments', disk'[s].chunks = {},
                 ~(disk'[s].size < SegmentHeaderSize)
          PROVE  \/ stage' = "write" /\ file' = "open" /\ s = active'
                 \/ \A t \in SegIDs : t <= s => disk'[t].chunks = {}
      <4>1. s \in SegIDs
        BY <3>5 DEF Segments
      <4>2. s \in Segments
        BY <3>2, <3>5, <4>1
      <4>3. ~(disk[s].size < SegmentHeaderSize) /\ disk[s].chunks = {}
        BY <2>1, <3>3, <3>5, <4>1, <4>2
      <4>4. \/ stage = "write" /\ file = "open" /\ s = active
            \/ \A t \in SegIDs : t <= s => disk[t].chunks = {}
        BY <1>0, <4>2, <4>3 DEF NoneEmpty
      <4> QED
        BY <2>1, <3>4, <4>4
    <3> QED
      BY <3>5 DEF NoneEmpty
  <2> QED
    BY <2>2, <2>3
<1> QED
  BY <1>0, <1>1, <1>2, DiskShape

(* The LSNs of all records that are read back ascend, through any number   *)
(* of rotations and restarts, if no record is torn and the process does    *)
(* not die between the rotation and the first write to the new segment:    *)
(* getLatestLSN looks at the latest segment only, and an empty one starts  *)
(* the numbers over.                                                       *)
THEOREM LsnsAscendAcross ==
    ASSUME NoTears, "write" \notin CrashPoints
    PROVE  Spec => []LsnAscending
<1>1. Init => AcrossInv
  <2> SUFFICES ASSUME Init PROVE AcrossInv
    OBVIOUS
  <2>1. \A s \in SegIDs : disk[s].chunks = {}
    BY DEF Init, NoFile
  <2> QED
    BY <2>1, WholeInit
       DEF Init, AcrossInv, LsnsFollow, LsnAhead, NoneEmpty, Segments
<1>2. AcrossInv /\ [Next]_vars => AcrossInv'
  BY WholeStep, AheadStep, NoneEmptyStep DEF AcrossInv
<1>3. AcrossInv => LsnAscending
  BY RecoveredFields DEF AcrossInv, LsnsFollow, LsnAscending, Before
<1> QED
  BY <1>1, <1>2, <1>3, PTL DEF Spec

=============================================================================
