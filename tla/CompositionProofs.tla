-------------------------- MODULE CompositionProofs --------------------------
(***************************************************************************)
(* A collection on its segment files implements the one on a log that is a *)
(* sequence.                                                               *)
(***************************************************************************)
EXTENDS CollectionWAL, FiniteSetTheorems, TLAPS

(* No process dies inside a write here (CollectionWAL!Next leaves          *)
(* WAL!StopInWrite out), wherever else it may.                             *)
WP == INSTANCE WALProofs WITH
    CrashPoints <- CrashPoints \ {"tear"},
    PowerLoss <- FALSE, phase <- walPhase, acked <- returned, stops <- walStops

CP == INSTANCE FaultProofs WITH
    log <- Log, LogFaults <- AppendFaults, AllowReload <- FALSE,
    LossyStop <- FALSE, MaxLog <- MaxAppends, MaxFaults <- MaxAppends

LEMMA Constants ==
    /\ WP!PolicyAssumption /\ WP!SizeAssumption
    /\ WP!FaultAssumption /\ WP!BoundAssumption
    /\ CP!FaultAssumption /\ CP!BoundAssumption /\ CP!ItemAssumption
<1>1. WP!PolicyAssumption /\ WP!BoundAssumption
  BY LogAssumption DEF WP!PolicyAssumption, WP!BoundAssumption
<1>2. WP!SizeAssumption
  BY LogAssumption DEF WP!SizeAssumption, WP!MinRecordSize
<1>3. WP!FaultAssumption
  BY LogAssumption DEF WP!FaultAssumption
<1>4. CP!FaultAssumption /\ CP!BoundAssumption
  BY LogAssumption DEF AppendFaults, CP!FaultAssumption, CP!BoundAssumption
<1>5. CP!ItemAssumption
  BY ItemAssumption DEF CP!ItemAssumption, CP!JSON
<1>. QED
  BY <1>1, <1>2, <1>3, <1>4, <1>5

(* The two instances of WAL, the module's and that of its proofs, say the  *)
(* same.                                                                   *)
LEMMA SameSteps ==
    /\ Wal!AppendInsert \/ Wal!AppendDelete <=> WP!AppendInsert \/ WP!AppendDelete
    /\ Wal!SealSegment \/ Wal!SealUnusable <=> WP!SealSegment \/ WP!SealUnusable
    /\ Wal!CreateSegment \/ Wal!WriteSegmentHeader <=> WP!CreateSegment \/ WP!WriteSegmentHeader
    /\ Wal!WriteRecord \/ Wal!WriteUnusable <=> WP!WriteRecord \/ WP!WriteUnusable
    /\ Wal!SyncRecord <=> WP!SyncRecord
    /\ Wal!Close <=> WP!Close
    /\ stage # "tear" => (Wal!Stop <=> WP!Stop)
    /\ Wal!OpenExisting \/ Wal!CreateFirst <=> WP!OpenExisting \/ WP!CreateFirst
    /\ Wal!FirstHeader \/ Wal!Recover <=> WP!FirstHeader \/ WP!Recover
<1>1. Wal!AppendInsert \/ Wal!AppendDelete <=> WP!AppendInsert \/ WP!AppendDelete
  BY DEF
         Wal!AppendInsert, WP!AppendInsert, Wal!AppendDelete,
         WP!AppendDelete, Wal!BeginAppend, WP!BeginAppend, Wal!NeedsRotation,
         WP!NeedsRotation, Wal!history, WP!history
<1>2. Wal!SealSegment \/ Wal!SealUnusable <=> WP!SealSegment \/ WP!SealUnusable
  BY DEF
         Wal!SealSegment, WP!SealSegment, Wal!SealUnusable, WP!SealUnusable,
         Wal!Sealed, WP!Sealed, Wal!Fails, WP!Fails, Wal!ReturnError,
         WP!ReturnError, Wal!history, WP!history, Wal!walVars, WP!walVars,
         Wal!counters, WP!counters
<1>3. Wal!CreateSegment \/ Wal!WriteSegmentHeader <=> WP!CreateSegment \/ WP!WriteSegmentHeader
  BY DEF
         Wal!CreateSegment, WP!CreateSegment, Wal!WriteSegmentHeader,
         WP!WriteSegmentHeader, Wal!Created, WP!Created, Wal!Headed,
         WP!Headed, Wal!SegmentHeaderSize, WP!SegmentHeaderSize, Wal!Fails,
         WP!Fails, Wal!ReturnError, WP!ReturnError, Wal!history, WP!history,
         Wal!walVars, WP!walVars
<1>4. Wal!WriteRecord \/ Wal!WriteUnusable <=> WP!WriteRecord \/ WP!WriteUnusable
  BY DEF
         Wal!WriteRecord, WP!WriteRecord, Wal!WriteUnusable,
         WP!WriteUnusable, Wal!Write, WP!Write, Wal!Fails, WP!Fails,
         Wal!ReturnError, WP!ReturnError, Wal!ReturnNil, WP!ReturnNil,
         Wal!history, WP!history, Wal!walVars, WP!walVars, Wal!counters,
         WP!counters
<1>5. Wal!SyncRecord <=> WP!SyncRecord
  BY DEF
         Wal!SyncRecord, WP!SyncRecord, Wal!Synced, WP!Synced, Wal!Fails,
         WP!Fails, Wal!ReturnError, WP!ReturnError, Wal!ReturnNil,
         WP!ReturnNil, Wal!history, WP!history, Wal!walVars, WP!walVars
<1>c. Wal!Close <=> WP!Close
  BY DEF
         Wal!Close, WP!Close, Wal!Synced, WP!Synced, Wal!Fails, WP!Fails,
         Wal!history, WP!history, Wal!callVars, WP!callVars
<1>6. stage # "tear" => (Wal!Stop <=> WP!Stop)
  BY DEF
         Wal!Stop, WP!Stop, Wal!StopsTo, WP!StopsTo, Wal!Forget, WP!Forget,
         Wal!history, WP!history, Wal!NoRecord, WP!NoRecord
<1>7. Wal!OpenExisting \/ Wal!CreateFirst <=> WP!OpenExisting \/ WP!CreateFirst
  BY DEF
         Wal!OpenExisting, WP!OpenExisting, Wal!CreateFirst, WP!CreateFirst,
         Wal!Segments, WP!Segments, Wal!SegIDs, WP!SegIDs, Wal!IsLatest,
         WP!IsLatest, Wal!GetLatestLSN, WP!GetLatestLSN, Wal!WholePrefix,
         WP!WholePrefix, Wal!Torn, WP!Torn, Wal!FirstTorn, WP!FirstTorn,
         Wal!RecordHeaderSize, WP!RecordHeaderSize, Wal!Created, WP!Created,
         Wal!Fails, WP!Fails, Wal!callVars, WP!callVars, Wal!history,
         WP!history, Wal!counters, WP!counters
<1>8. Wal!FirstHeader \/ Wal!Recover <=> WP!FirstHeader \/ WP!Recover
  BY DEF
         Wal!FirstHeader, WP!FirstHeader, Wal!Recover, WP!Recover,
         Wal!Headed, WP!Headed, Wal!SegmentHeaderSize, WP!SegmentHeaderSize,
         Wal!RecoverOK, WP!RecoverOK, Wal!Segments, WP!Segments, Wal!SegIDs,
         WP!SegIDs, Wal!ScanOK, WP!ScanOK, Wal!WholePrefix, WP!WholePrefix,
         Wal!Torn, WP!Torn, Wal!FirstTorn, WP!FirstTorn, Wal!EndsInside,
         WP!EndsInside, Wal!HeaderAccepted, WP!HeaderAccepted,
         Wal!RecordHeaderSize, WP!RecordHeaderSize, Wal!Synced, WP!Synced,
         Wal!Forget, WP!Forget, Wal!NoRecord, WP!NoRecord, Wal!Fails,
         WP!Fails, Wal!callVars, WP!callVars, Wal!history, WP!history,
         Wal!counters, WP!counters
<1>. QED
  BY <1>1, <1>2, <1>3, <1>4, <1>5, <1>c, <1>6, <1>7, <1>8

-----------------------------------------------------------------------------
(* A log as the content of a set of chunks                                 *)

(* The record of the i-th chunk of S is what append number Tag wrote.      *)
Tag(x)      == x[2].rec.tag
LogOf(S, c) == [i \in 1 .. Cardinality(S) |-> c[Tag(Nth(i, S))]]

(* For each i there is a chunk that i - 1 others come before.              *)
Ranked(S) == \A i \in 1 .. Cardinality(S) : Nth(i, S) \in S

(* x comes behind all of S.                                                *)
Behind(x, S) ==
    /\ x \notin S
    /\ \A y \in S : Wal!Before(y, x) /\ ~Wal!Before(x, y)
    /\ \A y \in S \cup {x} : ~Wal!Before(y, y)

LEMMA LogIsLogOf == Log = LogOf(Found, contents)
BY DEF Log, LogOf, Tag

LEMMA LogSame ==
    ASSUME NEW S, Ranked(S), NEW c, NEW d, \A x \in S : d[Tag(x)] = c[Tag(x)]
    PROVE  LogOf(S, d) = LogOf(S, c)
BY DEF LogOf, Ranked

LEMMA PlaceSame ==
    ASSUME NEW S, IsFiniteSet(S), NEW x, Behind(x, S)
    PROVE  /\ Cardinality(S) \in Nat
           /\ Cardinality(S \cup {x}) = Cardinality(S) + 1
           /\ IsFiniteSet(S \cup {x})
           /\ Place(x, S \cup {x}) = Cardinality(S) + 1
           /\ \A z \in S : /\ Place(z, S \cup {x}) = Place(z, S)
                            /\ Place(z, S \cup {x}) # Cardinality(S) + 1
<1>1. /\ Cardinality(S) \in Nat /\ IsFiniteSet(S \cup {x})
      /\ Cardinality(S \cup {x}) = Cardinality(S) + 1
  BY FS_CardinalityType, FS_AddElement DEF Behind
<1>2. Place(x, S \cup {x}) = Cardinality(S) + 1
  <2>1. {y \in S \cup {x} : Wal!Before(y, x)} = S
    BY DEF Behind
  <2>. QED
    BY <2>1 DEF Place
<1>3. ASSUME NEW z \in S
      PROVE  /\ Place(z, S \cup {x}) = Place(z, S)
             /\ Place(z, S \cup {x}) # Cardinality(S) + 1
  <2> DEFINE B == {y \in S : Wal!Before(y, z)}
  <2>1. {y \in S \cup {x} : Wal!Before(y, z)} = B
    BY DEF Behind
  <2>2. /\ IsFiniteSet(S \ {z}) /\ Cardinality(S \ {z}) = Cardinality(S) - 1
    BY FS_RemoveElement
  <2>3. B \subseteq S \ {z}
    BY DEF Behind
  <2>4. Cardinality(B) \in Nat /\ Cardinality(B) <= Cardinality(S \ {z})
    BY <2>2, <2>3, FS_Subset, FS_CardinalityType
  <2> HIDE DEF B
  <2>5. Place(z, S \cup {x}) = Cardinality(B) + 1
    BY <2>1 DEF Place
  <2>6. Place(z, S) = Cardinality(B) + 1
    BY DEF Place, B
  <2>. QED
    BY <1>1, <2>2, <2>4, <2>5, <2>6
<1>. QED
  BY <1>1, <1>2, <1>3

LEMMA NthSame ==
    ASSUME NEW S, IsFiniteSet(S), NEW x, Behind(x, S)
    PROVE  /\ Nth(Cardinality(S) + 1, S \cup {x}) = x
           /\ \A i \in 1 .. Cardinality(S) : Nth(i, S \cup {x}) = Nth(i, S)
<1>1. {z \in S \cup {x} : Place(z, S \cup {x}) = Cardinality(S) + 1} = {x}
  <2> DEFINE T == S \cup {x}
             n == Cardinality(S) + 1
  <2>1. Place(x, T) = n /\ \A z \in S : Place(z, T) # n
    BY PlaceSame
  <2>2. x \in T /\ \A z \in T : z \in S \/ z = x
    OBVIOUS
  <2> HIDE DEF T, n
  <2>3. {z \in T : Place(z, T) = n} = {x}
    BY <2>1, <2>2
  <2>. QED
    BY <2>3 DEF T, n
<1>2. Only({x}) = x
  BY DEF Only
<1>3. ASSUME NEW i \in 1 .. Cardinality(S)
      PROVE  Nth(i, S \cup {x}) = Nth(i, S)
  <2>1. Place(x, S \cup {x}) # i
    BY PlaceSame
  <2>2. {z \in S \cup {x} : Place(z, S \cup {x}) = i} = {z \in S : Place(z, S) = i}
    BY <2>1, PlaceSame
  <2>. QED
    BY <2>2 DEF Nth
<1>. QED
  BY <1>1, <1>2, <1>3 DEF Nth

LEMMA LogAppends ==
    ASSUME NEW S, IsFiniteSet(S), Ranked(S), NEW x, Behind(x, S), NEW c
    PROVE  /\ LogOf(S \cup {x}, c) = Append(LogOf(S, c), c[Tag(x)])
           /\ IsFiniteSet(S \cup {x}) /\ Ranked(S \cup {x})
           /\ Cardinality(S) \in Nat
           /\ Cardinality(S \cup {x}) = Cardinality(S) + 1
<1>1. /\ IsFiniteSet(S \cup {x}) /\ Cardinality(S) \in Nat
      /\ Cardinality(S \cup {x}) = Cardinality(S) + 1
  BY PlaceSame
<1>2. PICK n \in Nat : n = Cardinality(S)
  BY <1>1
<1>3. \A i \in 1 .. n + 1 : i \in 1 .. n \/ i = n + 1
  OBVIOUS
<1>4. Ranked(S \cup {x})
  BY <1>1, <1>2, <1>3, NthSame DEF Ranked
<1>5. LogOf(S \cup {x}, c) = Append(LogOf(S, c), c[Tag(x)])
  <2>1. LogOf(S, c) = [i \in 1 .. n |-> c[Tag(Nth(i, S))]]
    BY <1>2 DEF LogOf
  <2>2. Len(LogOf(S, c)) = n
    BY <2>1
  <2>3. Append(LogOf(S, c), c[Tag(x)]) =
          [i \in 1 .. n + 1 |-> IF i = n + 1 THEN c[Tag(x)] ELSE LogOf(S, c)[i]]
    BY <2>1, <2>2
  <2>4. LogOf(S \cup {x}, c) = [i \in 1 .. n + 1 |-> c[Tag(Nth(i, S \cup {x}))]]
    BY <1>1, <1>2 DEF LogOf
  <2>5. ASSUME NEW i \in 1 .. n + 1
        PROVE  c[Tag(Nth(i, S \cup {x}))]
                 = IF i = n + 1 THEN c[Tag(x)] ELSE LogOf(S, c)[i]
    <3>1. CASE i = n + 1
      BY <1>2, <3>1, NthSame
    <3>2. CASE i \in 1 .. n
      <4>1. Nth(i, S \cup {x}) = Nth(i, S)
        BY <1>2, <3>2, NthSame
      <4>2. LogOf(S, c)[i] = c[Tag(Nth(i, S))] /\ i # n + 1
        BY <2>1, <3>2
      <4>. QED
        BY <4>1, <4>2
    <3>. QED
      BY <1>3, <3>1, <3>2
  <2>. QED
    BY <2>3, <2>4, <2>5
<1>. QED
  BY <1>1, <1>4, <1>5

-----------------------------------------------------------------------------
(* What is in the segment files                                            *)

(* No write of a record fails half way: a torn record that is appended to  *)
(* makes the log unreadable (WAL_torn_append).                             *)
NoTornWrite == "write" \notin IOErrors

LEMMA NoneTear == NoTornWrite => WP!NoTears
BY DEF NoTornWrite, WP!NoTears

LEMMA SameState ==
    /\ Wal!Recovered = WP!Recovered
    /\ Wal!TypeOK <=> WP!TypeOK
    /\ Wal!Init <=> WP!Init
<1>1. Wal!Recovered = WP!Recovered
  BY DEF Wal!Recovered, WP!Recovered, Wal!Segments, WP!Segments, Wal!SegIDs,
         WP!SegIDs, Wal!WholePrefix, WP!WholePrefix, Wal!Torn, WP!Torn
<1>2. Wal!TypeOK <=> WP!TypeOK
  BY DEF Wal!TypeOK, WP!TypeOK, Wal!SegIDs, WP!SegIDs, Wal!File, WP!File,
         Wal!Chunk, WP!Chunk, Wal!Record, WP!Record
<1>3. Wal!Init <=> WP!Init
  BY DEF Wal!Init, WP!Init, Wal!SegIDs, WP!SegIDs, Wal!NoFile, WP!NoFile,
         Wal!NoRecord, WP!NoRecord
<1>. QED
  BY <1>1, <1>2, <1>3

(* Appends are numbered from 1 on, and the one in progress is the latest.  *)
TagsDrawn ==
    /\ \A s \in WP!SegIDs : \A k \in disk[s].chunks : k.rec.tag # 0
    /\ stage # "idle" => rec.tag = appends /\ appends # 0

(* An append waits for an fsync under one policy only.                     *)
SyncsAlways == stage = "sync" => SyncPolicy = "SyncAlways"

FilesInv == WP!TagsInv /\ WP!WholeInv /\ WP!SyncOK /\ TagsDrawn /\ SyncsAlways

LEMMA FilesFacts ==
    ASSUME FilesInv
    PROVE  /\ WP!ControlInv /\ WP!TypeInv /\ WP!Control /\ WP!SegIDs \subseteq Nat
           /\ appends \in Nat /\ walPhase # "off"
           /\ stage \in {"idle", "rotate", "create", "header", "write", "sync"}
           /\ \A s \in WP!SegIDs :
                 /\ disk[s] \in WP!GoodFile /\ WP!Layout(disk[s])
                 /\ WP!Torn(disk[s]) = {}
                 /\ \A k \in disk[s].chunks :
                       /\ k.at \in Nat /\ k.n \in Nat /\ k.n >= 1
                       /\ k.rec.tag \in Nat /\ k.rec.tag # 0 /\ k.rec.tag <= appends
                       /\ WP!Writing => k.rec.tag < appends
<1>1. /\ WP!ControlInv /\ WP!TypeInv /\ WP!Control /\ walPhase # "off"
      /\ \A s \in WP!SegIDs : WP!Layout(disk[s]) /\ WP!Torn(disk[s]) = {}
  BY DEF FilesInv, WP!TagsInv, WP!ControlInv, WP!WholeInv, WP!Whole, WP!Layouts
<1>2. /\ \A s \in WP!SegIDs : disk[s] \in WP!GoodFile
      /\ stage \in {"idle", "rotate", "create", "header", "write", "sync"}
  BY <1>1 DEF WP!TypeInv, WP!FilesOK, WP!TypeOK
<1>3. WP!SegIDs \subseteq Nat /\ appends \in Nat
  BY <1>1, Constants, WP!ControlFacts
<1>4. \A s \in WP!SegIDs : \A k \in disk[s].chunks :
         /\ k.at \in Nat /\ k.n \in Nat /\ k.n >= 1 /\ k.rec.tag \in Nat
  BY <1>2, Constants, WP!GoodFields
<1>5. \A s \in WP!SegIDs : \A k \in disk[s].chunks :
         /\ k.rec.tag # 0 /\ k.rec.tag <= appends
         /\ WP!Writing => k.rec.tag < appends
  BY DEF FilesInv, TagsDrawn, WP!TagsInv, WP!TagsBounded
<1>. QED
  BY <1>1, <1>2, <1>3, <1>4, <1>5

LEMMA FilesInit == Init => FilesInv
<1> SUFFICES ASSUME Init PROVE FilesInv
  OBVIOUS
<1>1. WP!Init
  BY SameState DEF Init
<1>2. WP!TagsInv /\ WP!WholeInv
  BY <1>1, Constants, WP!TagsInit, WP!WholeInit
<1>3. WP!SyncOK /\ TagsDrawn /\ SyncsAlways
  BY <1>1 DEF WP!Init, WP!NoFile, WP!SyncOK, TagsDrawn, SyncsAlways
<1>. QED
  BY <1>2, <1>3 DEF FilesInv

(* What the files hold changes only by the write of a record.              *)
OnFiles == UNION {{s} \X disk[s].chunks : s \in WP!SegIDs}

Adds(x) == /\ stage = "write" /\ stage' \in {"idle", "sync"}
           /\ x \notin OnFiles /\ OnFiles' = OnFiles \cup {x}
           /\ x[2].rec = rec /\ UNCHANGED <<rec, appends>>

LEMMA OnFilesStep ==
    ASSUME NoTornWrite, FilesInv, [WP!Next]_(WP!vars)
    PROVE  \/ OnFiles' = OnFiles /\ \A n \in Nat : ~WP!Writes(n)
           \/ \E x : Adds(x)
<1>0. /\ WP!ControlInv /\ walPhase # "off" /\ WP!NoTears
      /\ \A s \in WP!SegIDs : \A k \in disk[s].chunks :
            WP!Writing => k.rec.tag < appends
  BY FilesFacts, NoneTear
<1>1. CASE WP!Keeps /\ \A n \in Nat : ~WP!Writes(n)
  <2>1. \A s \in WP!SegIDs : disk'[s].chunks = disk[s].chunks
    BY <1>0, <1>1 DEF WP!Keeps, WP!Left
  <2>2. OnFiles' = OnFiles
    BY <2>1 DEF OnFiles, WP!SegIDs
  <2>. QED
    BY <1>1, <2>2
<1>2. ASSUME NEW n \in Nat, WP!Writes(n)
      PROVE  \E x : Adds(x)
  <2> DEFINE k0 == [at |-> disk[active].size, n |-> n, rec |-> rec]
  <2>1. /\ active \in WP!SegIDs /\ WP!Writing
        /\ disk'[active].chunks = disk[active].chunks \cup {k0}
        /\ \A s \in WP!SegIDs : s # active => disk'[s] = disk[s]
    BY <1>0, <1>2, Constants, WP!WriteShape
  <2>2. k0.rec = rec
    OBVIOUS
  <2> HIDE DEF k0
  <2>3. OnFiles' = OnFiles \cup {<<active, k0>>}
    <3>1. \A s \in WP!SegIDs : {s} \X disk'[s].chunks =
             {s} \X disk[s].chunks \cup (IF s = active THEN {<<active, k0>>} ELSE {})
      BY <2>1
    <3>. QED
      BY <2>1, <3>1 DEF OnFiles, WP!SegIDs
  <2>4. rec.tag = appends /\ appends \in Nat
    BY <2>1, <1>0, FilesFacts DEF FilesInv, TagsDrawn, WP!Writing
  <2>5. <<active, k0>> \notin OnFiles
    <3>1. k0 \notin disk[active].chunks
      BY <1>0, <2>1, <2>2, <2>4
    <3>. QED
      BY <3>1 DEF OnFiles
  <2>6. /\ WP!WriteRecord /\ stage = "write" /\ stage' \in {"idle", "sync"}
    BY <1>0, <1>2, Constants, WP!WholeWrite DEF WP!Writes
  <2>7. UNCHANGED <<rec, appends>>
    BY <2>6 DEF WP!WriteRecord, WP!ReturnError, WP!ReturnNil
  <2>. QED
    BY <2>2, <2>3, <2>5, <2>6, <2>7 DEF Adds
<1>. QED
  BY <1>0, <1>1, <1>2, Constants, WP!DiskShape

(* A step begins an append, or goes on with the one in progress.           *)
Begin  == stage = "idle" /\ appends' = appends + 1
GoesOn == appends' = appends /\ (stage' # "idle" => stage # "idle" /\ rec' = rec)

LEMMA StageStep ==
    ASSUME FilesInv, [WP!Next]_(WP!vars), WP!ControlInv'
    PROVE  Begin \/ GoesOn
<1>0. /\ WP!ControlInv /\ WP!TypeInv
      /\ stage' \in {"idle", "rotate", "create", "header", "write", "sync"}
  BY FilesFacts DEF WP!ControlInv, WP!TypeInv, WP!TypeOK
<1>1. WP!Begins \/ (appends' = appends
                   /\ (WP!Writing' => WP!Writing /\ UNCHANGED <<rec, lsn>>))
  BY <1>0, Constants, WP!DrawStep
<1>2. CASE WP!Begins
  BY <1>2 DEF WP!Begins, Begin
<1>3. CASE /\ appends' = appends
           /\ WP!Writing' => WP!Writing /\ UNCHANGED <<rec, lsn>>
  <2>1. CASE stage' = "sync"
    <3>1. CASE WP!WriteRecord
      BY <1>3, <2>1, <3>1
         DEF WP!WriteRecord, WP!ReturnError, WP!ReturnNil, GoesOn
    <3>2. CASE stage = "sync" /\ UNCHANGED rec
      BY <1>3, <3>2 DEF GoesOn
    <3>. QED
      BY <1>0, <2>1, <3>1, <3>2, Constants, WP!SyncStage
  <2>2. CASE stage' \notin {"idle", "sync"}
    BY <1>3, <2>2 DEF WP!Writing, GoesOn
  <2>3. CASE stage' = "idle"
    BY <1>3, <2>3 DEF GoesOn
  <2>. QED
    BY <2>1, <2>2, <2>3
<1>. QED
  BY <1>1, <1>2, <1>3

LEMMA TagsDrawnStep ==
    ASSUME NoTornWrite, FilesInv, [WP!Next]_(WP!vars), WP!ControlInv'
    PROVE  TagsDrawn'
<1>0. /\ WP!TypeInv /\ WP!Control' /\ appends \in Nat
      /\ stage' \in {"idle", "rotate", "create", "header", "write", "sync"}
  BY FilesFacts DEF WP!ControlInv, WP!TypeInv, WP!TypeOK
<1>1. stage' # "idle" => rec'.tag = appends' /\ appends' # 0
  <2>1. CASE GoesOn
    BY <2>1 DEF GoesOn, FilesInv, TagsDrawn
  <2>2. CASE Begin /\ stage' = "sync"
    <3>1. stage = "idle"
      BY <2>2 DEF Begin
    <3>. QED
      BY <1>0, <2>2, <3>1, Constants, WP!SyncStage DEF WP!WriteRecord
  <2>3. CASE Begin /\ stage' \notin {"idle", "sync"}
    BY <1>0, <2>3 DEF WP!Control, WP!Writing, Begin
  <2>. QED
    BY <2>1, <2>2, <2>3, StageStep
<1>2. ASSUME NEW s \in WP!SegIDs, NEW k \in disk'[s].chunks
      PROVE  k.rec.tag # 0
  <2> DEFINE x == <<s, k>>
  <2>1. x \in OnFiles' /\ x[2] = k
    BY DEF OnFiles, WP!SegIDs
  <2>2. CASE x \in OnFiles
    BY <2>1, <2>2 DEF OnFiles, FilesInv, TagsDrawn
  <2>3. CASE Adds(x)
    BY <2>1, <2>3 DEF Adds, FilesInv, TagsDrawn
  <2>4. x \in OnFiles \/ Adds(x)
    <3>1. CASE OnFiles' = OnFiles
      BY <2>1, <3>1
    <3>2. ASSUME NEW y, Adds(y) PROVE x \in OnFiles \/ Adds(x)
      <4> HIDE DEF x
      <4>1. x \in OnFiles \cup {y}
        BY <2>1, <3>2 DEF Adds
      <4>. QED
        BY <3>2, <4>1
    <3>. QED
      BY <3>1, <3>2, OnFilesStep
  <2>. QED
    BY <2>2, <2>3, <2>4
<1>. QED
  BY <1>1, <1>2 DEF TagsDrawn, WP!SegIDs

LEMMA FilesStep ==
    ASSUME NoTornWrite, FilesInv, [WP!Next]_(WP!vars)
    PROVE  FilesInv'
<1>1. WP!TagsInv'
  BY Constants, WP!TagsStep DEF FilesInv
<1>2. WP!WholeInv'
  BY Constants, NoneTear, WP!WholeStep DEF FilesInv
<1>3. WP!SyncOK'
  BY Constants, FilesFacts, WP!SyncStep DEF FilesInv
<1>4. WP!ControlInv'
  BY <1>1 DEF WP!TagsInv
<1>5. TagsDrawn'
  BY <1>4, TagsDrawnStep
<1>6. SyncsAlways'
  <2>1. ASSUME WP!WriteRecord, stage' = "sync" PROVE SyncPolicy = "SyncAlways"
    BY <2>1 DEF WP!WriteRecord, WP!ReturnNil, WP!ReturnError
  <2>. QED
    BY <2>1, FilesFacts, Constants, WP!SyncStage DEF FilesInv, SyncsAlways
<1>. QED
  BY <1>1, <1>2, <1>3, <1>5, <1>6 DEF FilesInv

(* The chunks that Recover returns are in the order of their appends.      *)
LEMMA OrderIsTags ==
    ASSUME FilesInv, NEW x \in OnFiles, NEW y \in OnFiles
    PROVE  /\ Tag(x) \in Nat /\ Tag(y) \in Nat /\ Tag(x) # 0 /\ Tag(x) <= appends
           /\ Wal!Before(x, y) <=> Tag(x) < Tag(y)
           /\ Tag(x) = Tag(y) => x = y
<1>1. PICK s \in WP!SegIDs : \E j \in disk[s].chunks : x = <<s, j>>
  BY DEF OnFiles
<1>2. PICK t \in WP!SegIDs : \E k \in disk[t].chunks : y = <<t, k>>
  BY DEF OnFiles
<1>a. PICK j \in disk[s].chunks : x = <<s, j>>
  BY <1>1
<1>b. PICK k \in disk[t].chunks : y = <<t, k>>
  BY <1>2
<1>3. /\ s \in Nat /\ t \in Nat /\ j.at \in Nat /\ k.at \in Nat
      /\ j.n \in Nat /\ j.n >= 1 /\ k.n \in Nat /\ k.n >= 1
      /\ j.rec.tag \in Nat /\ k.rec.tag \in Nat
      /\ j.rec.tag # 0 /\ j.rec.tag <= appends
  BY FilesFacts
<1>4. Tag(x) = j.rec.tag /\ Tag(y) = k.rec.tag
  BY <1>a, <1>b DEF Tag
<1>5. Wal!Before(x, y) <=> s < t \/ (s = t /\ j.at < k.at)
  BY <1>a, <1>b DEF Wal!Before
<1>6. /\ s < t \/ (s = t /\ j.at < k.at) => j.rec.tag < k.rec.tag
      /\ t < s \/ (t = s /\ k.at < j.at) => k.rec.tag < j.rec.tag
  BY DEF FilesInv, WP!TagsInv, WP!TagsAscend
<1>7. s = t => j = k \/ j.at < k.at \/ k.at < j.at
  <2>1. s = t => j = k \/ j.at + j.n <= k.at \/ k.at + k.n <= j.at
    BY FilesFacts DEF WP!Layout
  <2>. QED
    BY <1>3, <2>1
<1>8. \/ x = y \/ s < t \/ t < s
      \/ (s = t /\ j.at < k.at) \/ (t = s /\ k.at < j.at)
  <2>1. s < t \/ t < s \/ s = t
    BY <1>3
  <2>2. CASE s = t /\ j = k
    BY <1>a, <1>b, <2>2
  <2>. QED
    BY <1>7, <2>1, <2>2
<1>9. x = y => j.rec.tag = k.rec.tag /\ s = t /\ j.at = k.at
  BY <1>a, <1>b
<1>. QED
  BY <1>3, <1>4, <1>5, <1>6, <1>8, <1>9

LEMMA FoundOnFiles ==
    ASSUME FilesInv
    PROVE  Found = {x \in OnFiles : ~InFlight(x)}
<1>1. Wal!Recovered = OnFiles
  <2>1. \A s \in WP!Segments : s \in WP!SegIDs /\ WP!WholePrefix(disk[s]) = disk[s].chunks
    BY FilesFacts DEF WP!Segments, WP!WholePrefix
  <2>2. \A s \in WP!SegIDs : s \notin WP!Segments => disk[s].chunks = {}
    BY FilesFacts DEF WP!Segments, WP!Layout
  <2>. QED
    BY <2>1, <2>2, SameState DEF WP!Recovered, OnFiles
<1>. QED
  BY <1>1 DEF Found

(* The record on its way is behind all that were found.                    *)
LEMMA LatestBehind ==
    ASSUME FilesInv, NEW S, S \subseteq OnFiles, NEW x \in OnFiles,
           Tag(x) = appends, x \notin S
    PROVE  Behind(x, S)
<1>0. appends \in Nat
  BY FilesFacts
<1>1. ASSUME NEW y \in S
      PROVE  Wal!Before(y, x) /\ ~Wal!Before(x, y)
  <2>1. y \in OnFiles /\ y # x
    BY <1>1
  <2>2. /\ Tag(y) \in Nat /\ Tag(y) <= appends
        /\ Wal!Before(y, x) <=> Tag(y) < Tag(x)
        /\ Tag(y) = Tag(x) => y = x
    BY <2>1, OrderIsTags
  <2>3. Wal!Before(x, y) <=> Tag(x) < Tag(y)
    BY <2>1, OrderIsTags
  <2>. QED
    BY <1>0, <2>1, <2>2, <2>3
<1>2. ASSUME NEW y \in S \cup {x}
      PROVE  ~Wal!Before(y, y)
  <2>1. y \in OnFiles
    BY <1>2
  <2>2. Tag(y) \in Nat /\ (Wal!Before(y, y) <=> Tag(y) < Tag(y))
    BY <2>1, OrderIsTags
  <2>. QED
    BY <2>2
<1>. QED
  BY <1>1, <1>2 DEF Behind

(* A record comes to be found by a step that ends its append: when its     *)
(* write returns, or what was written waits for an fsync no longer.        *)
Landed == stage' = "idle" /\ (stage = "sync" \/ OnFiles' # OnFiles)

LEMMA FoundNow == FilesInv => Found = {x \in OnFiles : ~InFlight(x)}
BY FoundOnFiles

LEMMA FoundNext == FilesInv' => (Found = {x \in OnFiles : ~InFlight(x)})'
BY FoundNow, PTL

LEMMA BehindNow ==
    FilesInv => \A S \in SUBSET OnFiles : \A x \in OnFiles :
                    Tag(x) = appends /\ x \notin S => Behind(x, S)
BY LatestBehind

LEMMA BehindNext ==
    FilesInv' => \A S \in SUBSET OnFiles' : \A x \in OnFiles' :
                    Tag(x) = appends' /\ x \notin S => Behind(x, S)
<1>1. (FilesInv => \A S \in SUBSET OnFiles : \A x \in OnFiles :
                    Tag(x) = appends /\ x \notin S => Behind(x, S))'
  BY BehindNow, PTL
<1>. QED
  BY <1>1

LEMMA SyncEnds ==
    ASSUME FilesInv, [WP!Next]_(WP!vars), stage = "sync",
           stage' \in {"idle", "rotate", "create", "header", "write", "sync"}
    PROVE  \/ stage' = "idle"
           \/ stage' = "sync" /\ UNCHANGED <<disk, active, rec>>
<1>0. WP!ControlInv /\ WP!TypeInv
  BY FilesFacts
<1>1. ~WP!Writing /\ ~WP!Begins
  BY DEF WP!Writing, WP!Begins
<1>2. ~WP!Writing'
  BY <1>0, <1>1, Constants, WP!DrawStep
<1>3. stage' \in {"idle", "sync"}
  BY <1>2 DEF WP!Writing
<1>4. CASE stage' = "sync"
  <2>1. ~WP!WriteRecord
    BY DEF WP!WriteRecord
  <2>. QED
    BY <1>0, <1>4, <2>1, Constants, WP!SyncStage
<1>. QED
  BY <1>3, <1>4

LEMMA FoundStep ==
    ASSUME NoTornWrite, FilesInv, FilesInv', [WP!Next]_(WP!vars)
    PROVE  /\ ~Landed => Found' = Found
           /\ Landed => \E x : Behind(x, Found) /\ Tag(x) = appends
                               /\ Found' = Found \cup {x}
<1>0. /\ appends \in Nat
      /\ stage' \in {"idle", "rotate", "create", "header", "write", "sync"}
  BY FilesFacts DEF FilesInv, WP!WholeInv, WP!ControlInv, WP!TypeInv, WP!TypeOK
<1>1. /\ Found = {x \in OnFiles : ~(stage = "sync" /\ Tag(x) = rec.tag)}
      /\ Found' = {x \in OnFiles' : ~(stage' = "sync" /\ Tag(x) = rec'.tag)}
  BY FoundNow, FoundNext DEF InFlight, Tag
<1>2. CASE stage = "sync" /\ stage' = "idle"
  <2>1. PICK k \in disk[active].chunks : k.rec = rec
    BY <1>2 DEF FilesInv, WP!SyncOK
  <2>2. active \in WP!SegIDs
    BY <1>2, FilesFacts DEF WP!TypeInv, WP!CallOK
  <2> DEFINE x == <<active, k>>
  <2>3. x \in OnFiles /\ Tag(x) = rec.tag
    BY <2>1, <2>2 DEF OnFiles, Tag
  <2> HIDE DEF x
  <2>4. rec.tag = appends
    BY <1>2 DEF FilesInv, TagsDrawn
  <2>5. OnFiles' = OnFiles
    BY <1>2, OnFilesStep DEF Adds
  <2>6. x \notin Found /\ Found \subseteq OnFiles
    BY <1>1, <1>2, <2>3
  <2>7. Found' = Found \cup {x}
    <3>1. \A y \in OnFiles : Tag(y) = rec.tag => y = x
      BY <2>3, OrderIsTags
    <3>2. Found' = OnFiles
      BY <1>1, <1>2, <2>5
    <3>3. Found = {y \in OnFiles : Tag(y) # rec.tag}
      BY <1>1, <1>2
    <3>. QED
      BY <2>3, <3>1, <3>2, <3>3
  <2>8. Behind(x, Found)
    BY <2>3, <2>4, <2>6, LatestBehind
  <2>. QED
    BY <1>2, <2>3, <2>4, <2>7, <2>8 DEF Landed
<1>3. CASE stage = "sync" /\ stage' # "idle"
  <2>1. stage' = "sync" /\ UNCHANGED <<disk, active, rec>>
    BY <1>0, <1>3, SyncEnds
  <2>2. OnFiles' = OnFiles
    BY <2>1 DEF OnFiles, WP!SegIDs
  <2>. QED
    BY <1>1, <1>3, <2>1, <2>2 DEF Landed
<1>4. CASE stage # "sync" /\ OnFiles' = OnFiles
  <2>1. stage' # "sync"
    <3>1. stage' = "sync" => WP!WriteRecord
      BY <1>4, FilesFacts, Constants, WP!SyncStage
    <3>2. ASSUME WP!WriteRecord, stage' = "sync" PROVE FALSE
      <4>1. rec.size \in Nat /\ rec.size \in 1 .. rec.size
        <5>1. rec.size \in WP!Sizes
          BY <3>2, FilesFacts DEF WP!WriteRecord, WP!Control, WP!Writing
        <5>2. rec.size \in Nat /\ rec.size >= 1
          BY <5>1, Constants, WP!SizeNat
        <5>. QED
          BY <5>2
      <4>2. WP!Writes(rec.size)
        BY <3>2, <4>1 DEF WP!WriteRecord, WP!ReturnError, WP!Writes
      <4>3. PICK x : Adds(x)
        BY <4>1, <4>2, OnFilesStep
      <4>. QED
        BY <1>4, <4>3 DEF Adds
    <3>. QED
      BY <3>1, <3>2
  <2>. QED
    BY <1>1, <1>4, <2>1 DEF Landed
<1>5. CASE stage # "sync" /\ OnFiles' # OnFiles
  <2>1. PICK x : Adds(x)
    BY <1>5, OnFilesStep
  <2>2. /\ x \notin OnFiles /\ OnFiles' = OnFiles \cup {x} /\ Tag(x) = rec.tag
        /\ rec' = rec /\ appends' = appends /\ stage' \in {"idle", "sync"}
        /\ rec.tag = appends
    BY <2>1 DEF Adds, Tag, FilesInv, TagsDrawn
  <2>3. Found = OnFiles
    BY <1>1, <1>5
  <2>4. \A y \in OnFiles : Tag(y) # rec.tag
    <3>1. WP!Writing
      BY <2>1 DEF Adds, WP!Writing
    <3>. QED
      BY <2>2, <3>1, FilesFacts DEF OnFiles, Tag
  <2>5. CASE stage' = "sync"
    BY <1>1, <1>5, <2>2, <2>3, <2>4, <2>5 DEF Landed
  <2>6. CASE stage' = "idle"
    <3>1. Found' = Found \cup {x}
      BY <1>1, <2>2, <2>3, <2>6
    <3>2. Behind(x, Found)
      <4>1. x \in OnFiles' /\ Tag(x) = appends' /\ Found \in SUBSET OnFiles'
        BY <2>2, <2>3
      <4>. QED
        BY <2>2, <2>3, <4>1, BehindNext
    <3>. QED
      BY <1>5, <2>2, <2>6, <3>1, <3>2 DEF Landed
  <2>. QED
    BY <2>2, <2>5, <2>6
<1>. QED
  BY <1>2, <1>3, <1>4, <1>5

-----------------------------------------------------------------------------
(* The log that a collection sees                                          *)

(* contents says what each append wrote, and all that was found is of an   *)
(* append that has ended.                                                  *)
RecordsInv ==
    /\ contents \in Seq(Col!Record) /\ Len(contents) = appends
    /\ IsFiniteSet(Found) /\ Ranked(Found)
    /\ Cardinality(Found) <= appends
    /\ stage # "idle" => Cardinality(Found) < appends

LEMMA RecordsInit == Init => RecordsInv
<1> SUFFICES ASSUME Init PROVE RecordsInv
  OBVIOUS
<1>1. Found = {}
  <2>1. FilesInv /\ WP!Init
    BY FilesInit, SameState DEF Init
  <2>2. OnFiles = {}
    BY <2>1 DEF WP!Init, WP!NoFile, OnFiles
  <2>. QED
    BY <2>1, <2>2, FoundOnFiles
<1>2. contents = <<>> /\ appends = 0 /\ stage = "idle"
  BY SameState DEF Init, WP!Init
<1>3. IsFiniteSet(Found) /\ Cardinality(Found) = 0
  BY <1>1, FS_EmptySet
<1>. QED
  BY <1>2, <1>3 DEF RecordsInv, Ranked

(* The log grows by the record of an append that landed, and by nothing    *)
(* else.                                                                   *)
LEMMA LogStep ==
    ASSUME NoTornWrite, FilesInv, FilesInv', RecordsInv, [WP!Next]_(WP!vars),
           \/ GoesOn /\ contents' = contents
           \/ Begin /\ \E r \in Col!Record : contents' = Append(contents, r)
    PROVE  /\ RecordsInv'
           /\ ~Landed => Log' = Log
           /\ Landed => Log' = Append(Log, op) /\ stage \in {"write", "sync"}
<1>0. /\ appends \in Nat /\ Cardinality(Found) \in Nat
      /\ contents \in Seq(Col!Record) /\ Len(contents) = appends
      /\ IsFiniteSet(Found) /\ Ranked(Found) /\ Found \subseteq OnFiles
      /\ Cardinality(Found) <= appends
      /\ stage # "idle" => Cardinality(Found) < appends
  BY FilesFacts, FoundOnFiles, FS_CardinalityType DEF RecordsInv
<1>1. Log = LogOf(Found, contents) /\ Log' = LogOf(Found', contents')
  BY DEF Log, LogOf, Tag
<1>2. Landed => stage \in {"write", "sync"}
  BY OnFilesStep DEF Landed, Adds
<1>3. CASE Landed
  <2>1. GoesOn /\ contents' = contents
    BY <1>2, <1>3 DEF Begin
  <2>2. PICK x : Behind(x, Found) /\ Tag(x) = appends /\ Found' = Found \cup {x}
    BY <1>3, FoundStep
  <2>3. /\ LogOf(Found', contents) = Append(Log, contents[appends])
        /\ IsFiniteSet(Found') /\ Ranked(Found')
        /\ Cardinality(Found') = Cardinality(Found) + 1
    BY <1>0, <1>1, <2>2, LogAppends
  <2>4. op = contents[appends]
    BY <1>2, <1>3 DEF op, FilesInv, TagsDrawn
  <2>5. stage' = "idle" /\ appends' = appends
    BY <1>3, <2>1 DEF Landed, GoesOn
  <2>6. Cardinality(Found') <= appends'
    BY <1>0, <1>2, <1>3, <2>3, <2>5
  <2>7. RecordsInv'
    BY <1>0, <2>1, <2>3, <2>5, <2>6 DEF RecordsInv, Ranked
  <2>. QED
    BY <1>1, <1>2, <1>3, <2>1, <2>3, <2>4, <2>7
<1>4. CASE ~Landed
  <2>1. Found' = Found
    BY <1>4, FoundStep
  <2>2. \A x \in Found : Tag(x) \in 1 .. appends
    BY <1>0, OrderIsTags
  <2>3. /\ contents' \in Seq(Col!Record) /\ Len(contents') = appends'
        /\ \A x \in Found : contents'[Tag(x)] = contents[Tag(x)]
    <3>1. CASE GoesOn /\ contents' = contents
      BY <1>0, <3>1 DEF GoesOn
    <3>2. ASSUME NEW r \in Col!Record, Begin, contents' = Append(contents, r)
          PROVE  /\ contents' \in Seq(Col!Record) /\ Len(contents') = appends'
                 /\ \A x \in Found : contents'[Tag(x)] = contents[Tag(x)]
      BY <1>0, <2>2, <3>2 DEF Begin
    <3>. QED
      BY <3>1, <3>2
  <2>4. Log' = Log
    BY <1>0, <1>1, <2>1, <2>3, LogSame
  <2>5. /\ Cardinality(Found) <= appends'
        /\ stage' # "idle" => Cardinality(Found) < appends'
    BY <1>0 DEF Begin, GoesOn
  <2>6. RecordsInv'
    BY <1>0, <2>1, <2>3, <2>5 DEF RecordsInv, Ranked
  <2>. QED
    BY <1>4, <2>4, <2>6
<1>. QED
  BY <1>3, <1>4

-----------------------------------------------------------------------------
(* The two instances of Collection, likewise.                              *)

LEMMA SameCollection == [Col!Next]_(Col!vars) <=> [CP!Next]_(CP!vars)
<1>1. \A e, item : Col!InsertOK(e, item) <=> CP!InsertOK(e, item)
  BY
     DEF Col!InsertOK, CP!InsertOK, Col!Room, CP!Room, Col!Draw, CP!Draw,
         Col!internalID, CP!internalID, Col!InsertRecord, CP!InsertRecord, Col!Put,
         CP!Put, Col!Unit, CP!Unit, Col!JSON, CP!JSON
<1>2. \A e, item : Col!InsertFails(e, item) <=> CP!InsertFails(e, item)
  BY
     DEF Col!InsertFails, CP!InsertFails, Col!Room, CP!Room, Col!Draw, CP!Draw,
         Col!Faulty, CP!Faulty, Col!internalID, CP!internalID, Col!InsertRecord,
         CP!InsertRecord, Col!JSON, CP!JSON, Col!memory, CP!memory, Col!maps,
         CP!maps
<1>3. \A e, item : Col!InsertCompensated(e, item) <=> CP!InsertCompensated(e, item)
  BY
     DEF Col!InsertCompensated, CP!InsertCompensated, Col!Room, CP!Room,
         Col!Draw, CP!Draw, Col!internalID, CP!internalID, Col!InsertRecord,
         CP!InsertRecord, Col!DeleteRecord, CP!DeleteRecord, Col!JSON, CP!JSON,
         Col!memory, CP!memory, Col!maps, CP!maps
<1>4. \A e, item : Col!StopInInsert(e, item) <=> CP!StopInInsert(e, item)
  BY
     DEF Col!StopInInsert, CP!StopInInsert, Col!Room, CP!Room, Col!Draw,
         CP!Draw, Col!internalID, CP!internalID, Col!InsertRecord, CP!InsertRecord,
         Col!JSON, CP!JSON, Col!Forget, CP!Forget, Col!Empty, CP!Empty
<1>5. \A e : Col!InsertClosed(e) <=> CP!InsertClosed(e)
  BY
     DEF Col!InsertClosed, CP!InsertClosed, Col!Draw, CP!Draw, Col!memory,
         CP!memory, Col!maps, CP!maps, Col!history, CP!history
<1>6. \A e : Col!DeleteOK(e) <=> CP!DeleteOK(e)
  BY
     DEF Col!DeleteOK, CP!DeleteOK, Col!Room, CP!Room, Col!DeleteRecord,
         CP!DeleteRecord, Col!DropDocument, CP!DropDocument, Col!Drop, CP!Drop
<1>7. \A e : Col!DeleteFails(e) <=> CP!DeleteFails(e)
  BY
     DEF Col!DeleteFails, CP!DeleteFails, Col!Room, CP!Room, Col!DeleteRecord,
         CP!DeleteRecord, Col!Faulty, CP!Faulty, Col!memory, CP!memory, Col!maps,
         CP!maps
<1>8. \A e : Col!StopInDelete(e) <=> CP!StopInDelete(e)
  BY
     DEF Col!StopInDelete, CP!StopInDelete, Col!Room, CP!Room,
         Col!DeleteRecord, CP!DeleteRecord, Col!Forget, CP!Forget, Col!Empty,
         CP!Empty
<1>9. Col!OpenCollection <=> CP!OpenCollection
  BY
     DEF Col!OpenCollection, CP!OpenCollection, Col!memory, CP!memory,
         Col!maps, CP!maps, Col!history, CP!history
<1>10. Col!Reload <=> CP!Reload
  BY
     DEF Col!Reload, CP!Reload, Col!Empty, CP!Empty, Col!history, CP!history
<1>11. Col!ReplayInsert <=> CP!ReplayInsert
  BY
     DEF Col!ReplayInsert, CP!ReplayInsert, Col!Replaying, CP!Replaying,
         Col!record, CP!record, Col!Collides, CP!Collides, Col!Put, CP!Put,
         Col!Unit, CP!Unit, Col!Bump, CP!Bump, Col!history, CP!history
<1>12. Col!ReplayDelete <=> CP!ReplayDelete
  BY
     DEF Col!ReplayDelete, CP!ReplayDelete, Col!Replaying, CP!Replaying,
         Col!record, CP!record, Col!Bump, CP!Bump, Col!DropDocument,
         CP!DropDocument, Col!Drop, CP!Drop, Col!history, CP!history
<1>13. Col!ReplayCollides <=> CP!ReplayCollides
  BY
     DEF Col!ReplayCollides, CP!ReplayCollides, Col!Replaying, CP!Replaying,
         Col!record, CP!record, Col!Collides, CP!Collides, Col!Empty, CP!Empty,
         Col!memory, CP!memory, Col!maps, CP!maps, Col!history, CP!history
<1>14. Col!LoadDone <=> CP!LoadDone
  BY
     DEF Col!LoadDone, CP!LoadDone, Col!memory, CP!memory, Col!maps, CP!maps,
         Col!history, CP!history
<1>15. Col!Close <=> CP!Close
  BY
     DEF Col!Close, CP!Close, Col!memory, CP!memory, Col!maps, CP!maps,
         Col!history, CP!history
<1>16. Col!Stop <=> CP!Stop
  BY
     DEF Col!Stop, CP!Stop, Col!Forget, CP!Forget, Col!Empty, CP!Empty
<1>v. Col!vars = CP!vars /\ Col!vars' = CP!vars'
  BY DEF Col!vars, CP!vars, Col!memory, CP!memory, Col!maps, CP!maps,
         Col!history, CP!history
<1>n. Col!Next <=> CP!Next
  BY <1>1, <1>2, <1>3, <1>4, <1>5, <1>6, <1>7, <1>8, <1>9, <1>10, <1>11,
     <1>12, <1>13, <1>14, <1>15, <1>16 DEF Col!Next, CP!Next, Col!ClientStep,
     CP!ClientStep, Col!LoadStep, CP!LoadStep
<1>. QED
  BY <1>v, <1>n

LEMMA SameTypes ==
    /\ Col!Record = CP!Record
    /\ Col!Init <=> CP!Init
    /\ Col!TypeOK <=> CP!TypeOK
    /\ Col!internalID = CP!internalID
    /\ \A e, i, item : Col!InsertRecord(e, i, item) = CP!InsertRecord(e, i, item)
    /\ \A e, i : Col!DeleteRecord(e, i) = CP!DeleteRecord(e, i)
<1>1. Col!Record = CP!Record
  BY DEF Col!Record, CP!Record, Col!JSON, CP!JSON
<1>2. Col!Init <=> CP!Init
  BY DEF Col!Init, CP!Init, Col!Empty, CP!Empty
<1>3. Col!TypeOK <=> CP!TypeOK
  BY <1>1 DEF Col!TypeOK, CP!TypeOK, Col!JSON, CP!JSON, Col!Unit, CP!Unit
<1>4. /\ Col!internalID = CP!internalID
      /\ \A e, i, item : Col!InsertRecord(e, i, item) = CP!InsertRecord(e, i, item)
      /\ \A e, i : Col!DeleteRecord(e, i) = CP!DeleteRecord(e, i)
  BY DEF Col!internalID, CP!internalID, Col!InsertRecord, CP!InsertRecord,
         Col!DeleteRecord, CP!DeleteRecord, Col!JSON, CP!JSON
<1>. QED
  BY <1>1, <1>2, <1>3, <1>4

LEMMA MemoryTypes ==
    ASSUME CP!AckInv
    PROVE  /\ Log \in Seq(Col!Record) /\ idCounter \in Nat
           /\ Col!internalID \in Nat \ {0}
           /\ \A e \in DOMAIN extToInt : e \in ExternalIDs /\ extToInt[e] \in Nat \ {0}
           /\ \A i \in DOMAIN index : i \in Nat
           /\ stops \in Nat /\ faults \in Nat
<1>0. CP!TypeInv
  BY DEF CP!AckInv, CP!FaultInv
<1>1. /\ idCounter \in Nat /\ stops \in Nat /\ faults \in Nat
      /\ Log \in Seq(Col!Record)
  BY <1>0, SameTypes DEF CP!TypeInv, CP!ValueTypes
<1>2. /\ \A e \in DOMAIN extToInt : e \in ExternalIDs /\ extToInt[e] \in Nat \ {0}
      /\ \A i \in DOMAIN index : i \in Nat
  BY <1>0 DEF CP!TypeInv, CP!MapTypes, CP!IsMap
<1>3. Col!internalID \in Nat \ {0}
  BY <1>1 DEF Col!internalID
<1>. QED
  BY <1>1, <1>2, <1>3

LEMMA RecordTypes ==
    ASSUME CP!AckInv
    PROVE  /\ \A e \in ExternalIDs, item \in Items :
                 Col!InsertRecord(e, Col!internalID, item) \in Col!Record
           /\ \A e \in DOMAIN extToInt :
                 Col!DeleteRecord(e, extToInt[e]) \in Col!Record
<1>1. \A e \in ExternalIDs, item \in Items :
         Col!InsertRecord(e, Col!internalID, item) \in Col!Record
  BY Constants, MemoryTypes, SameTypes, CP!NewRecord
<1>2. \A e \in DOMAIN extToInt :
         Col!DeleteRecord(e, extToInt[e]) \in Col!Record
  BY Constants, MemoryTypes, SameTypes, CP!NewDelete
<1>. QED
  BY <1>1, <1>2

-----------------------------------------------------------------------------
(* The steps of the composition on the log                                 *)

LEMMA CallStepIs ==
    Wal!CallStep => /\ WP!CallStep /\ stage # "idle" /\ appends' = appends
                    /\ UNCHANGED <<walPhase, rec, walStops>>
<1>1. Wal!CallStep => WP!CallStep
  BY SameSteps DEF Wal!CallStep, WP!CallStep
<1>2. WP!SealSegment \/ WP!SealUnusable =>
        /\ stage # "idle" /\ appends' = appends /\ UNCHANGED <<walPhase, rec, walStops>>
  BY DEF WP!SealSegment, WP!SealUnusable, WP!ReturnError, WP!walVars, WP!counters
<1>3. WP!CreateSegment \/ WP!WriteSegmentHeader =>
        /\ stage # "idle" /\ appends' = appends /\ UNCHANGED <<walPhase, rec, walStops>>
  BY DEF WP!CreateSegment, WP!WriteSegmentHeader, WP!ReturnError, WP!walVars
<1>4. WP!WriteRecord \/ WP!WriteUnusable =>
        /\ stage # "idle" /\ appends' = appends /\ UNCHANGED <<walPhase, rec, walStops>>
  BY DEF WP!WriteRecord, WP!WriteUnusable, WP!ReturnError, WP!ReturnNil,
         WP!walVars, WP!counters
<1>5. WP!SyncRecord =>
        /\ stage # "idle" /\ appends' = appends /\ UNCHANGED <<walPhase, rec, walStops>>
  BY DEF WP!SyncRecord, WP!ReturnError, WP!ReturnNil, WP!walVars
<1>. QED
  BY <1>1, <1>2, <1>3, <1>4, <1>5 DEF WP!CallStep

LEMMA BeginIs ==
    Wal!AppendInsert \/ Wal!AppendDelete =>
      /\ WP!Next /\ stage = "idle" /\ appends' = appends + 1 /\ appends < MaxAppends
      /\ walPhase \in {"ready", "closed"} /\ stage' \in {"rotate", "write"}
      /\ rec'.tag = appends + 1
      /\ UNCHANGED <<disk, walPhase, file, returned, walStops>>
<1>1. WP!AppendInsert \/ WP!AppendDelete =>
        /\ WP!Next /\ stage = "idle" /\ appends' = appends + 1 /\ appends < MaxAppends
        /\ walPhase \in {"ready", "closed"} /\ stage' \in {"rotate", "write"}
        /\ rec'.tag = appends + 1
        /\ UNCHANGED <<disk, walPhase, file, returned, walStops>>
  BY DEF WP!AppendInsert, WP!AppendDelete, WP!BeginAppend, WP!history, WP!Next
<1>. QED
  BY <1>1, SameSteps

LEMMA OtherIs ==
    /\ Wal!Close => WP!Close /\ appends' = appends
    /\ Wal!Stop /\ stage # "tear" => WP!Stop /\ appends' = appends
    /\ Wal!OpenExisting \/ Wal!CreateFirst \/ Wal!FirstHeader \/ Wal!Recover =>
         /\ WP!OpenExisting \/ WP!CreateFirst \/ WP!FirstHeader \/ WP!Recover
         /\ appends' = appends
<1>1. Wal!Close => WP!Close /\ appends' = appends
  BY SameSteps DEF WP!Close
<1>2. Wal!Stop /\ stage # "tear" => WP!Stop /\ appends' = appends
  BY SameSteps DEF WP!Stop, WP!StopsTo
<1>3. WP!OpenExisting \/ WP!CreateFirst => appends' = appends
  BY DEF WP!OpenExisting, WP!CreateFirst, WP!counters
<1>4. WP!FirstHeader \/ WP!Recover => appends' = appends
  BY DEF WP!FirstHeader, WP!Recover, WP!counters
<1>. QED
  BY <1>1, <1>2, <1>3, <1>4, SameSteps

(* What becomes of the log in a step that is one of the log's.             *)
LogFollows ==
    /\ [WP!Next]_(WP!vars) /\ FilesInv' /\ RecordsInv'
    /\ ~Landed => Log' = Log
    /\ Landed => Log' = Append(Log, op) /\ stage \in {"write", "sync"}

LEMMA BeginFollows ==
    ASSUME NoTornWrite, FilesInv, RecordsInv, Wal!AppendInsert \/ Wal!AppendDelete,
           NEW r \in Col!Record, contents' = Append(contents, r)
    PROVE  LogFollows /\ ~Landed
<1>1. [WP!Next]_(WP!vars) /\ Begin
  BY BeginIs DEF Begin
<1>2. FilesInv'
  BY <1>1, FilesStep
<1>3. ~Landed
  BY BeginIs DEF Landed
<1>. QED
  BY <1>1, <1>2, <1>3, LogStep DEF LogFollows

LEMMA StepFollows ==
    ASSUME NoTornWrite, FilesInv, RecordsInv, [WP!Next]_(WP!vars),
           appends' = appends, contents' = contents
    PROVE  LogFollows
<1>1. FilesInv'
  BY FilesStep
<1>2. WP!ControlInv' /\ appends \in Nat
  BY <1>1, FilesFacts DEF FilesInv, WP!TagsInv
<1>3. GoesOn
  <2>1. Begin \/ GoesOn
    BY <1>2, StageStep
  <2>2. ~Begin
    BY <1>2 DEF Begin
  <2>. QED
    BY <2>1, <2>2
<1>. QED
  BY <1>1, <1>3, LogStep DEF LogFollows

-----------------------------------------------------------------------------
(* The invariant                                                           *)

(* The log and the collection come up, serve and close together.           *)
Phases ==
    \/ phase = "down" /\ walPhase \in {"down", "opening", "opened"} /\ cursor = 0
    \/ phase = "loading" /\ walPhase = "ready" /\ stage = "idle"
    \/ phase = "ready" /\ walPhase = "ready"
    \/ /\ phase = "closed" /\ walPhase = "closed"
       /\ file # "open" /\ stage \in {"idle", "rotate", "write"}

(* The append in progress writes what memory says, and memory will not     *)
(* have changed when it ends.                                              *)
Pending ==
    \/ \E e \in ExternalIDs \ used, item \in Items :
          op = Col!InsertRecord(e, Col!internalID, item)
    \/ \E e \in DOMAIN extToInt : op = Col!DeleteRecord(e, extToInt[e])

Counts ==
    /\ appends <= MaxAppends /\ faults <= appends /\ stops <= walStops
    /\ \A t \in returned : t <= appends
    /\ stage # "idle" => faults < appends /\ appends \notin returned

Linked == /\ Phases /\ Counts
          /\ stage # "idle" => Pending

Together == FilesInv /\ RecordsInv /\ CP!AckInv /\ Linked

LEMMA TogetherTypes ==
    ASSUME Together
    PROVE  /\ appends \in Nat /\ walStops \in Nat /\ stops \in Nat /\ faults \in Nat
           /\ MaxAppends \in Nat /\ MaxStops \in Nat
           /\ idCounter \in Nat /\ Col!internalID = idCounter + 1
           /\ Cardinality(Found) \in Nat /\ Len(Log) = Cardinality(Found)
           /\ Log \in Seq(Col!Record)
           /\ stage # "idle" => walPhase \in {"ready", "closed"}
           /\ stage # "idle" => op = contents[appends]
           /\ stage # "idle" => phase \in {"ready", "closed"}
<1>1. /\ FilesInv /\ CP!AckInv /\ WP!TypeInv /\ WP!Control
      /\ appends \in Nat
  BY FilesFacts DEF Together
<1>2. /\ walStops \in Nat /\ MaxAppends \in Nat /\ MaxStops \in Nat
  BY <1>1, LogAssumption DEF WP!TypeInv, WP!TypeOK
<1>3. Cardinality(Found) \in Nat /\ Len(Log) = Cardinality(Found)
  <2>1. Cardinality(Found) \in Nat
    BY FS_CardinalityType DEF Together, RecordsInv
  <2>. QED
    BY <2>1 DEF Log
<1>4. stage # "idle" => walPhase \in {"ready", "closed"}
  BY <1>1 DEF WP!Control
<1>5. stage # "idle" => op = contents[appends]
  BY <1>1 DEF FilesInv, TagsDrawn, op
<1>6. stage # "idle" => phase \in {"ready", "closed"}
  BY <1>4 DEF Together, Linked, Phases
<1>. QED
  BY <1>1, <1>2, <1>3, <1>4, <1>5, <1>6, MemoryTypes DEF Col!internalID

LEMMA TogetherInit == Init => Together
<1> SUFFICES ASSUME Init PROVE Together
  OBVIOUS
<1>1. FilesInv /\ RecordsInv /\ WP!Init
  BY FilesInit, RecordsInit, SameState DEF Init
<1>2. Log = <<>>
  <2>1. Cardinality(Found) = 0
    <3>1. Cardinality(Found) \in Nat /\ Cardinality(Found) <= 0
      BY <1>1, FS_CardinalityType DEF RecordsInv, WP!Init
    <3>. QED
      BY <3>1
  <2>. QED
    BY <2>1 DEF Log
<1>3. Col!Init
  BY <1>2 DEF Init, Col!Init
<1>4. CP!AckInv
  BY <1>3, SameTypes, Constants, CP!AckInit
<1>5. Linked
  <2>1. appends = 0 /\ returned = {} /\ walStops = 0 /\ walPhase = "down" /\ stage = "idle"
    BY <1>1 DEF WP!Init
  <2>2. DOMAIN index = {} /\ faults = 0 /\ stops = 0 /\ phase = "down" /\ cursor = 0
    BY DEF Init, Col!Empty
  <2>. QED
    BY <2>1, <2>2, LogAssumption DEF Linked, Phases, Counts
<1>. QED
  BY <1>1, <1>4, <1>5 DEF Together

-----------------------------------------------------------------------------
(* The steps                                                               *)

(* What a step that was taken from Together does.                          *)
Carried == FilesInv' /\ RecordsInv' /\ [Col!Next]_(Col!vars) /\ Linked'

LEMMA SameVars ==
    Log' = Log /\ UNCHANGED colVars => Col!vars' = Col!vars
BY DEF Col!vars, Col!memory, Col!maps, Col!history, colVars, memory

LEMMA SameMemory ==
    idCounter' = idCounter => Col!internalID' = Col!internalID
BY DEF Col!internalID

LEMMA BeginCarried ==
    ASSUME NoTornWrite, Together, Serving, Wal!AppendInsert \/ Wal!AppendDelete,
           NEW r \in Col!Record, contents' = Append(contents, r), UNCHANGED colVars,
           \/ \E e \in ExternalIDs \ used, item \in Items :
                 r = Col!InsertRecord(e, Col!internalID, item)
           \/ \E e \in DOMAIN extToInt : r = Col!DeleteRecord(e, extToInt[e])
    PROVE  Carried
<1>0. FilesInv /\ RecordsInv /\ Linked
  BY DEF Together
<1>1. LogFollows /\ ~Landed
  BY <1>0, BeginFollows
<1>2. [Col!Next]_(Col!vars)
  BY <1>1, SameVars DEF LogFollows
<1>3. /\ appends' = appends + 1 /\ appends < MaxAppends /\ stage = "idle"
      /\ walPhase \in {"ready", "closed"} /\ stage' \in {"rotate", "write"}
      /\ rec'.tag = appends + 1
      /\ UNCHANGED <<walPhase, file, returned, walStops>>
  BY BeginIs
<1>4. appends \in Nat /\ MaxAppends \in Nat /\ stops \in Nat /\ faults \in Nat
  BY TogetherTypes
<1>5. op' = r
  <2>1. op' = contents'[rec'.tag]
    BY DEF op
  <2>2. Len(contents) = appends /\ contents \in Seq(Col!Record)
    BY <1>0 DEF RecordsInv
  <2>. QED
    BY <1>3, <1>4, <2>1, <2>2
<1>6. Pending'
  BY <1>5, SameMemory DEF Pending, colVars, memory, Col!InsertRecord, Col!DeleteRecord
<1>7. Phases'
  BY <1>0, <1>3 DEF Linked, Phases, Serving, colVars
<1>8. Counts'
  <2>1. \A t \in returned : t <= appends
    BY <1>0 DEF Linked, Counts
  <2>2. returned \subseteq Nat
    BY <1>0, FilesFacts DEF WP!TypeInv, WP!TypeOK
  <2>3. \A t \in returned : t <= appends + 1 /\ t # appends + 1
    BY <1>4, <2>1, <2>2
  <2>4. faults' = faults /\ stops' = stops
    BY DEF colVars
  <2>5. appends' <= MaxAppends /\ faults <= appends' /\ faults < appends'
    BY <1>0, <1>3, <1>4 DEF Linked, Counts
  <2>. QED
    BY <1>0, <1>3, <2>3, <2>4, <2>5 DEF Linked, Counts
<1>. QED
  BY <1>1, <1>2, <1>6, <1>7, <1>8 DEF Carried, LogFollows, Linked

LEMMA InsertCarried ==
    ASSUME NoTornWrite, Together,
           NEW e \in ExternalIDs, NEW item \in Items, Insert(e, item)
    PROVE  Carried
<1>1. Col!InsertRecord(e, Col!internalID, item) \in Col!Record
  BY RecordTypes DEF Together
<1>. QED
  BY <1>1, BeginCarried DEF Insert

LEMMA DeleteCarried ==
    ASSUME NoTornWrite, Together, NEW e \in ExternalIDs, Delete(e)
    PROVE  Carried
<1>1. Col!DeleteRecord(e, extToInt[e]) \in Col!Record
  BY RecordTypes DEF Together, Delete
<1>. QED
  BY <1>1, BeginCarried DEF Delete

(* A step of the append in progress.                                       *)
LEMMA CallFollows ==
    ASSUME NoTornWrite, Together, Wal!CallStep, contents' = contents
    PROVE  /\ LogFollows /\ stage # "idle" /\ op' = op
           /\ UNCHANGED <<appends, walPhase, walStops>>
           /\ returned' # returned /\ stage' = "idle" =>
                 Landed /\ returned' = returned \cup {appends}
           /\ returned' = returned /\ Landed => stage = "sync"
           /\ stage' # "idle" => returned' = returned
           /\ phase = "closed" => stage' = "idle" /\ returned' = returned /\ ~Landed
           /\ phase \in {"ready", "closed"}
<1>0. FilesInv /\ RecordsInv /\ Linked /\ WP!ControlInv
  BY FilesFacts DEF Together
<1>1. /\ WP!CallStep /\ stage # "idle" /\ appends' = appends
      /\ UNCHANGED <<walPhase, rec, walStops>>
  BY CallStepIs
<1>2. [WP!Next]_(WP!vars)
  BY <1>1 DEF WP!Next
<1>3. LogFollows
  BY <1>0, <1>1, <1>2, StepFollows
<1>4. op' = op
  BY <1>1 DEF op
<1>5. rec.tag = appends /\ appends \notin returned
  BY <1>0, <1>1 DEF FilesInv, TagsDrawn, Linked, Counts
<1>6. ASSUME returned' # returned, stage' = "idle"
      PROVE  Landed /\ returned' = returned \cup {appends}
  <2>1. returned' = returned \cup {appends} /\ (WP!Writes(rec.size) \/ stage = "sync")
    BY <1>0, <1>2, <1>5, <1>6, Constants, WP!AckStep
  <2>2. rec.size \in Nat
    BY <1>0, Constants, WP!ControlFacts
  <2>3. CASE WP!Writes(rec.size)
    BY <1>0, <1>2, <1>6, <2>1, <2>2, <2>3, OnFilesStep DEF Landed, Adds
  <2>. QED
    BY <1>6, <2>1, <2>3 DEF Landed
<1>7. ASSUME returned' = returned, Landed PROVE stage = "sync"
  <2>1. CASE WP!WriteRecord
    BY <1>5, <1>7, <2>1
       DEF WP!WriteRecord, WP!ReturnNil, WP!Fails, NoTornWrite, Landed
  <2>2. CASE WP!WriteUnusable
    <3>1. OnFiles' = OnFiles
      BY <2>2 DEF WP!WriteUnusable, OnFiles, WP!SegIDs
    <3>. QED
      BY <1>7, <3>1 DEF Landed
  <2>3. CASE WP!SyncRecord
    BY <2>3 DEF WP!SyncRecord
  <2>4. CASE stage \notin {"write", "sync"}
    BY <1>3, <1>7, <2>4 DEF LogFollows
  <2>. QED
    BY <1>1, <2>1, <2>2, <2>3, <2>4
       DEF WP!CallStep, WP!SealSegment, WP!SealUnusable, WP!CreateSegment,
           WP!WriteSegmentHeader
<1>8. stage' # "idle" => returned' = returned
  <2>1. WP!SealSegment \/ WP!SealUnusable => (stage' # "idle" => returned' = returned)
    BY DEF WP!SealSegment, WP!SealUnusable, WP!ReturnError, WP!history
  <2>2. WP!CreateSegment \/ WP!WriteSegmentHeader => (stage' # "idle" => returned' = returned)
    BY DEF WP!CreateSegment, WP!WriteSegmentHeader, WP!ReturnError, WP!history
  <2>3. WP!WriteRecord \/ WP!WriteUnusable => (stage' # "idle" => returned' = returned)
    BY DEF WP!WriteRecord, WP!WriteUnusable, WP!ReturnError, WP!ReturnNil, WP!history
  <2>4. WP!SyncRecord => (stage' # "idle" => returned' = returned)
    BY DEF WP!SyncRecord, WP!ReturnError, WP!ReturnNil, WP!history
  <2>. QED
    BY <1>1, <2>1, <2>2, <2>3, <2>4 DEF WP!CallStep
<1>9. ASSUME phase = "closed"
      PROVE  stage' = "idle" /\ returned' = returned /\ ~Landed
  <2>1. file # "open" /\ stage \in {"rotate", "write"}
    BY <1>0, <1>1, <1>9 DEF Linked, Phases
  <2>2. WP!SealUnusable \/ WP!WriteUnusable
    BY <1>1, <2>1 DEF WP!CallStep, WP!SealSegment, WP!CreateSegment,
       WP!WriteSegmentHeader, WP!WriteRecord, WP!SyncRecord
  <2>3. stage' = "idle" /\ disk' = disk /\ returned' = returned
    BY <2>2 DEF WP!SealUnusable, WP!WriteUnusable, WP!ReturnError, WP!history
  <2>4. OnFiles' = OnFiles
    BY <2>3 DEF OnFiles, WP!SegIDs
  <2>. QED
    BY <2>1, <2>3, <2>4 DEF Landed
<1>10. phase \in {"ready", "closed"}
  BY <1>1, TogetherTypes
<1>. QED
  BY <1>1, <1>3, <1>4, <1>6, <1>7, <1>8, <1>9, <1>10

LEMMA WritesIs ==
    ASSUME Together, stage # "idle"
    PROVE  \/ /\ op.op = "insert" /\ op.ext \in ExternalIDs \ used
              /\ op.int = Col!internalID /\ op.raw \in Items
              /\ op = Col!InsertRecord(op.ext, Col!internalID, op.raw)
           \/ /\ op.op = "delete" /\ op.ext \in DOMAIN extToInt
              /\ op.ext \in ExternalIDs /\ op.int = extToInt[op.ext]
              /\ op = Col!DeleteRecord(op.ext, extToInt[op.ext])
<1>1. Pending
  BY DEF Together, Linked
<1>2. CASE \E e \in ExternalIDs \ used, item \in Items :
              op = Col!InsertRecord(e, Col!internalID, item)
  BY <1>2 DEF Col!InsertRecord
<1>3. ASSUME NEW e \in DOMAIN extToInt, op = Col!DeleteRecord(e, extToInt[e])
      PROVE  /\ op.op = "delete" /\ op.ext \in DOMAIN extToInt
             /\ op.ext \in ExternalIDs /\ op.int = extToInt[op.ext]
             /\ op = Col!DeleteRecord(op.ext, extToInt[op.ext])
  <2>1. op.op = "delete" /\ op.ext = e /\ op.int = extToInt[e]
    BY <1>3 DEF Col!DeleteRecord
  <2>2. e \in ExternalIDs
    BY MemoryTypes DEF Together
  <2>. QED
    BY <1>3, <2>1, <2>2
<1>. QED
  BY <1>1, <1>2, <1>3 DEF Pending

LEMMA RoomForIt ==
    ASSUME Together, stage # "idle"
    PROVE  /\ Col!Room(1) /\ Col!internalID \notin DOMAIN index
           /\ faults < MaxAppends
<1>1. /\ Len(Log) = Cardinality(Found) /\ Cardinality(Found) \in Nat
      /\ appends \in Nat /\ MaxAppends \in Nat /\ faults \in Nat
      /\ idCounter \in Nat /\ Col!internalID = idCounter + 1
  BY TogetherTypes
<1>2. Cardinality(Found) < appends /\ appends <= MaxAppends /\ faults < appends
  BY DEF Together, RecordsInv, Linked, Counts
<1>3. Len(Log) + 1 <= MaxAppends /\ faults < MaxAppends
  BY <1>1, <1>2
<1>4. \A i \in DOMAIN index : i \in Nat /\ i <= idCounter
  BY MemoryTypes DEF Together, CP!AckInv, CP!IndexCounted
<1>5. idCounter + 1 \notin DOMAIN index
  BY <1>1, <1>4
<1>. QED
  BY <1>1, <1>3, <1>5 DEF Col!Room

LEMMA AppendStepCarried ==
    ASSUME NoTornWrite, Together, AppendStep
    PROVE  Carried
<1>1. /\ LogFollows /\ stage # "idle" /\ stage' # "idle" /\ op' = op
      /\ UNCHANGED <<appends, walPhase, walStops, returned, colVars>>
      /\ phase = "ready" /\ Linked
  BY CallFollows DEF AppendStep, Together
<1>2. ~Landed
  BY <1>1 DEF Landed
<1>3. [Col!Next]_(Col!vars)
  BY <1>1, <1>2, SameVars DEF LogFollows
<1>4. Pending'
  BY <1>1, SameMemory DEF Linked, Pending, colVars, memory, Col!InsertRecord, Col!DeleteRecord
<1>5. Phases'
  BY <1>1 DEF Linked, Phases, colVars
<1>6. Counts'
  BY <1>1 DEF Linked, Counts, colVars
<1>. QED
  BY <1>1, <1>3, <1>4, <1>5, <1>6 DEF Carried, LogFollows, Linked

(* A call that returns: the append has ended, nothing else is pending.     *)
LEMMA Returned ==
    ASSUME Together, stage # "idle", stage' = "idle", phase' = phase,
           UNCHANGED <<appends, walPhase, walStops, stops>>,
           phase = "closed" => file' # "open",
           returned' \in {returned, returned \cup {appends}},
           \/ faults' = faults
           \/ faults' = faults + 1
    PROVE  Linked'
<1>1. /\ appends \in Nat /\ faults \in Nat /\ phase \in {"ready", "closed"}
      /\ Phases /\ Counts
  BY TogetherTypes DEF Together, Linked
<1>2. Phases'
  BY <1>1 DEF Phases
<1>3. faults' <= appends
  BY <1>1 DEF Counts
<1>4. \A t \in returned' : t <= appends
  BY <1>1 DEF Counts
<1>5. Counts'
  BY <1>1, <1>3, <1>4 DEF Counts
<1>. QED
  BY <1>2, <1>5 DEF Linked

LEMMA NilCarried ==
    ASSUME NoTornWrite, Together, AppendReturnsNil
    PROVE  Carried
<1>1. /\ LogFollows /\ stage # "idle" /\ stage' = "idle" /\ phase = "ready" /\ Landed
      /\ UNCHANGED <<appends, walPhase, walStops>>
      /\ returned' = returned \cup {appends}
  BY CallFollows DEF AppendReturnsNil
<1>2. Log' = Append(Log, op)
  BY <1>1 DEF LogFollows
<1>3. Col!Room(1) /\ Col!internalID \notin DOMAIN index
  BY <1>1, RoomForIt
<1>4. ASSUME op.op = "insert" PROVE Col!Next
  <2>1. /\ op.ext \in ExternalIDs \ used /\ op.raw \in Items
        /\ op.int = Col!internalID
        /\ op = Col!InsertRecord(op.ext, Col!internalID, op.raw)
    BY <1>1, <1>4, WritesIs
  <2>2. Col!InsertOK(op.ext, op.raw)
    BY <1>1, <1>2, <1>3, <1>4, <2>1
       DEF AppendReturnsNil, Finish, Draw, Col!InsertOK, Col!Draw
  <2>. QED
    BY <2>1, <2>2 DEF Col!Next, Col!ClientStep
<1>5. ASSUME op.op = "delete" PROVE Col!Next
  <2>1. /\ op.ext \in DOMAIN extToInt /\ op.ext \in ExternalIDs
        /\ op.int = extToInt[op.ext]
        /\ op = Col!DeleteRecord(op.ext, extToInt[op.ext])
    BY <1>1, <1>5, WritesIs
  <2>2. Col!DeleteOK(op.ext)
    BY <1>1, <1>2, <1>3, <1>5, <2>1
       DEF AppendReturnsNil, Finish, Draw, Col!DeleteOK
  <2>. QED
    BY <2>1, <2>2 DEF Col!Next, Col!ClientStep
<1>6. op.op = "insert" \/ op.op = "delete"
  BY <1>1, WritesIs
<1>7. Linked'
  BY <1>1, Returned DEF AppendReturnsNil
<1>. QED
  BY <1>1, <1>4, <1>5, <1>6, <1>7 DEF Carried, LogFollows

(* An append that fails and leaves its record is one whose fsync failed.   *)
LEMMA SyncFails ==
    ASSUME NoTornWrite, Together, AppendFails, Landed
    PROVE  "present" \in AppendFaults
<1>1. stage = "sync" /\ returned' = returned /\ WP!CallStep
  BY CallFollows, CallStepIs DEF AppendFails
<1>2. WP!SyncRecord
  BY <1>1 DEF WP!CallStep, WP!SealSegment, WP!SealUnusable, WP!CreateSegment,
     WP!WriteSegmentHeader, WP!WriteRecord, WP!WriteUnusable
<1>3. SyncPolicy = "SyncAlways" /\ rec.tag = appends /\ appends \notin returned
  BY <1>1 DEF Together, FilesInv, SyncsAlways, TagsDrawn, Linked, Counts
<1>4. "sync" \in IOErrors
  BY <1>1, <1>2, <1>3 DEF WP!SyncRecord, WP!ReturnNil, WP!Fails
<1>. QED
  BY <1>3, <1>4 DEF AppendFaults

(* The append failed: its record is in the log if only its fsync failed.   *)
LEMMA FailsCarried ==
    ASSUME NoTornWrite, Together, AppendFails
    PROVE  Carried
<1>1. /\ LogFollows /\ stage # "idle" /\ stage' = "idle"
      /\ UNCHANGED <<appends, walPhase, walStops, returned, phase, stops, memory>>
      /\ phase \in {"ready", "closed"}
      /\ phase = "closed" => ~Landed
  BY CallFollows DEF AppendFails
<1>2. IF Landed THEN Log' = Append(Log, op) ELSE Log' = Log
  BY <1>1 DEF LogFollows
<1>3. Col!Room(1) /\ faults < MaxAppends
  BY <1>1, RoomForIt
<1>4. ASSUME phase = "ready" PROVE Col!Next /\ faults' = faults + 1
  <2>0. Landed => "present" \in AppendFaults
    BY <1>1, SyncFails
  <2>1. Col!Faulty(op) /\ faults' = faults + 1
    BY <1>2, <1>3, <1>4, <2>0 DEF AppendFails, Col!Faulty, AppendFaults
  <2>2. /\ Col!memory' = Col!memory /\ unsure' = unsure \cup {op.ext}
        /\ UNCHANGED <<phase, cursor, acked, deleted, stops>>
    BY <1>4 DEF AppendFails, memory, Col!memory, Col!maps
  <2>3. CASE op.op = "insert"
    <3>1. /\ op.ext \in ExternalIDs \ used /\ op.raw \in Items
          /\ op = Col!InsertRecord(op.ext, Col!internalID, op.raw)
      BY <1>1, <2>3, WritesIs
    <3>2. Col!InsertFails(op.ext, op.raw)
      BY <1>3, <1>4, <2>1, <2>2, <2>3, <3>1
         DEF AppendFails, Draw, Col!Draw, Col!InsertFails
    <3>. QED
      BY <2>1, <3>1, <3>2 DEF Col!Next, Col!ClientStep
  <2>4. CASE op.op = "delete"
    <3>1. /\ op.ext \in DOMAIN extToInt /\ op.ext \in ExternalIDs
          /\ op = Col!DeleteRecord(op.ext, extToInt[op.ext])
      BY <1>1, <2>4, WritesIs
    <3>2. Col!DeleteFails(op.ext)
      BY <1>3, <1>4, <2>1, <2>2, <2>4, <3>1
         DEF AppendFails, Draw, Col!DeleteFails
    <3>. QED
      BY <2>1, <3>1, <3>2 DEF Col!Next, Col!ClientStep
  <2>. QED
    BY <1>1, <2>3, <2>4, WritesIs
<1>5. ASSUME phase = "closed" PROVE [Col!Next]_(Col!vars) /\ faults' = faults
  <2>1. /\ Log' = Log /\ faults' = faults /\ Col!memory' = Col!memory
        /\ UNCHANGED <<phase, cursor, acked, deleted, unsure, stops>>
    BY <1>1, <1>2, <1>5 DEF AppendFails, memory, Col!memory, Col!maps
  <2>2. CASE op.op = "insert"
    <3>1. op.ext \in ExternalIDs \ used
      BY <1>1, <2>2, WritesIs
    <3>2. Col!InsertClosed(op.ext)
      BY <1>5, <2>1, <2>2, <3>1
         DEF AppendFails, Draw, Col!Draw, Col!InsertClosed, Col!history
    <3>. QED
      BY <2>1, <3>1, <3>2 DEF Col!Next, Col!ClientStep
  <2>3. CASE op.op = "delete"
    <3>1. used' = used
      BY <2>3 DEF AppendFails, Draw
    <3>2. Col!vars' = Col!vars
      BY <2>1, <3>1 DEF Col!vars, Col!history
    <3>. QED
      BY <2>1, <3>2
  <2>. QED
    BY <1>1, <2>2, <2>3, WritesIs
<1>6. [Col!Next]_(Col!vars) /\ (faults' = faults \/ faults' = faults + 1)
  BY <1>1, <1>4, <1>5
<1>7. phase = "closed" => file' # "open"
  <2>1. ASSUME phase = "closed" PROVE file' = file
    <3>1. WP!CallStep /\ file # "open" /\ stage \in {"rotate", "write"}
      BY <1>1, <2>1, CallStepIs DEF AppendFails, Together, Linked, Phases
    <3>2. WP!SealUnusable \/ WP!WriteUnusable
      BY <3>1 DEF WP!CallStep, WP!SealSegment, WP!CreateSegment,
         WP!WriteSegmentHeader, WP!WriteRecord, WP!SyncRecord
    <3>. QED
      BY <3>2 DEF WP!SealUnusable, WP!WriteUnusable, WP!walVars
  <2>. QED
    BY <1>1, <2>1 DEF Together, Linked, Phases
<1>8. Linked'
  BY <1>1, <1>6, <1>7, Returned
<1>. QED
  BY <1>1, <1>6, <1>8 DEF Carried, LogFollows

LEMMA CloseCarried ==
    ASSUME NoTornWrite, Together, Close
    PROVE  Carried
<1>0. FilesInv /\ RecordsInv /\ Linked
  BY DEF Together
<1>1. /\ WP!Close /\ appends' = appends /\ contents' = contents
  BY OtherIs DEF Close
<1>2. /\ stage = "idle" /\ stage' = "idle" /\ walPhase' = "closed" /\ file' = "nil"
      /\ returned' = returned /\ walStops' = walStops
  BY <1>1 DEF WP!Close, WP!callVars, WP!history
<1>3. LogFollows
  BY <1>0, <1>1, StepFollows DEF WP!Next
<1>4. Log' = Log
  BY <1>2, <1>3 DEF LogFollows
<1>5. Col!Next
  BY <1>4 DEF Close, Col!Close, Col!Next, Col!memory, Col!maps, Col!history, memory
<1>6. Linked'
  BY <1>0, <1>1, <1>2 DEF Close, Linked, Phases, Counts
<1>. QED
  BY <1>3, <1>5, <1>6 DEF Carried, LogFollows

LEMMA StopCarried ==
    ASSUME NoTornWrite, Together, Stop
    PROVE  Carried
<1>0. /\ FilesInv /\ RecordsInv /\ Phases /\ Counts
      /\ walStops \in Nat /\ stops \in Nat /\ MaxStops \in Nat /\ faults \in Nat
  BY TogetherTypes DEF Together, Linked
<1>1. /\ WP!Stop /\ appends' = appends /\ contents' = contents
  BY <1>0, FilesFacts, OtherIs DEF Stop
<1>2. /\ stage' = "idle" /\ walPhase' = "down" /\ disk' = disk
      /\ returned' = returned /\ walStops < MaxStops /\ walStops' = walStops + 1
  BY <1>1 DEF WP!Stop, WP!StopsTo, WP!Forget, WP!history
<1>3. LogFollows
  BY <1>0, <1>1, StepFollows DEF WP!Next
<1>4. IF stage = "sync" THEN Log' = Append(Log, op) ELSE Log' = Log
  <2>1. OnFiles' = OnFiles
    BY <1>2 DEF OnFiles, WP!SegIDs
  <2>2. Landed <=> stage = "sync"
    BY <1>2, <2>1 DEF Landed
  <2>. QED
    BY <1>3, <2>2 DEF LogFollows
<1>5. stops < MaxStops
  BY <1>0, <1>2 DEF Counts
<1>6. phase' = "down" /\ cursor' = 0
  BY <1>0 DEF Stop, ForgetMemory, Phases
<1>7. Linked'
  <2>1. Phases'
    BY <1>2, <1>6 DEF Phases
  <2>2. Counts'
    BY <1>0, <1>1, <1>2 DEF Counts, Stop
  <2>. QED
    BY <1>2, <2>1, <2>2 DEF Linked
<1>8. [Col!Next]_(Col!vars)
  <2>1. CASE phase = "down"
    <3>1. stage = "idle"
      BY <2>1, TogetherTypes
    <3>2. Col!vars' = Col!vars
      BY <1>4, <2>1, <3>1
         DEF Stop, Col!vars, Col!memory, Col!maps, Col!history, memory
    <3>. QED
      BY <3>2
  <2>2. CASE phase # "down" /\ stage # "sync"
    BY <1>4, <1>5, <2>2 DEF Stop, ForgetMemory, Col!Next, Col!Stop, Col!Forget
  <2>3. CASE phase # "down" /\ stage = "sync"
    <3>1. phase = "ready"
      BY <1>0, <2>3 DEF Phases
    <3>2. Col!Room(1)
      BY <2>3, RoomForIt
    <3>3. Col!Forget
      BY <1>5, <2>3 DEF Stop, ForgetMemory, Col!Forget
    <3>4. Log' = Append(Log, op) /\ Draw /\ unsure' = unsure \cup {op.ext}
      BY <1>4, <2>3 DEF Stop
    <3>5. CASE op.op = "insert"
      <4>1. /\ op.ext \in ExternalIDs \ used /\ op.raw \in Items
            /\ op = Col!InsertRecord(op.ext, Col!internalID, op.raw)
        BY <2>3, <3>5, WritesIs
      <4>2. Col!StopInInsert(op.ext, op.raw)
        BY <3>1, <3>2, <3>3, <3>4, <3>5, <4>1 DEF Draw, Col!Draw, Col!StopInInsert
      <4>. QED
        BY <4>1, <4>2 DEF Col!Next, Col!ClientStep
    <3>6. CASE op.op = "delete"
      <4>1. /\ op.ext \in DOMAIN extToInt /\ op.ext \in ExternalIDs
            /\ op = Col!DeleteRecord(op.ext, extToInt[op.ext])
        BY <2>3, <3>6, WritesIs
      <4>2. Col!StopInDelete(op.ext)
        BY <3>1, <3>2, <3>3, <3>4, <3>6, <4>1 DEF Draw, Col!StopInDelete
      <4>. QED
        BY <4>1, <4>2 DEF Col!Next, Col!ClientStep
    <3>. QED
      BY <2>3, <3>5, <3>6, WritesIs
  <2>. QED
    BY <2>1, <2>2, <2>3
<1>. QED
  BY <1>3, <1>7, <1>8 DEF Carried, LogFollows

LEMMA OpenCarried ==
    ASSUME NoTornWrite, Together, Open
    PROVE  Carried
<1>0. /\ FilesInv /\ RecordsInv /\ Phases /\ Counts
  BY DEF Together, Linked
<1>1. /\ WP!OpenExisting \/ WP!CreateFirst \/ WP!FirstHeader \/ WP!Recover
      /\ appends' = appends /\ contents' = contents
  BY OtherIs DEF Open
<1>2. /\ walPhase \in {"down", "opening", "opened"}
      /\ walPhase' \in {"down", "opening", "opened", "ready"}
      /\ returned' = returned /\ walStops' = walStops /\ stage' \in {stage, "idle"}
  <2>1. WP!OpenExisting \/ WP!CreateFirst =>
          /\ walPhase = "down" /\ walPhase' \in {"down", "opening", "opened"}
          /\ returned' = returned /\ walStops' = walStops /\ stage' = stage
    BY DEF WP!OpenExisting, WP!CreateFirst, WP!callVars, WP!history, WP!counters
  <2>2. WP!FirstHeader \/ WP!Recover =>
          /\ walPhase \in {"opening", "opened"} /\ walPhase' \in {"down", "ready"}
          /\ returned' = returned /\ walStops' = walStops /\ stage' \in {stage, "idle"}
    BY DEF WP!FirstHeader, WP!Recover, WP!Forget, WP!callVars, WP!history, WP!counters
  <2>. QED
    BY <1>1, <2>1, <2>2
<1>3. stage = "idle" /\ stage' = "idle"
  BY <1>2, TogetherTypes
<1>4. LogFollows
  BY <1>0, <1>1, StepFollows DEF WP!Next
<1>5. Log' = Log
  BY <1>3, <1>4 DEF LogFollows
<1>6. phase = "down" /\ cursor = 0
  BY <1>0, <1>2 DEF Phases
<1>7. UNCHANGED <<cursor, memory, used, acked, deleted, unsure, stops, faults>>
  BY DEF Open
<1>8. Linked'
  <2>1. Phases'
    BY <1>2, <1>3, <1>6, <1>7 DEF Open, LoadState, Phases
  <2>2. Counts'
    BY <1>0, <1>1, <1>2, <1>3, <1>7 DEF Counts
  <2>. QED
    BY <1>3, <2>1, <2>2 DEF Linked
<1>9. [Col!Next]_(Col!vars)
  <2>1. CASE walPhase' = "ready"
    <3>1. Col!OpenCollection
      BY <1>5, <1>6, <1>7, <2>1
         DEF Open, LoadState, Col!OpenCollection, Col!memory, Col!maps, Col!history, memory
    <3>. QED
      BY <3>1 DEF Col!Next, Col!LoadStep
  <2>2. CASE walPhase' # "ready"
    <3>1. Col!vars' = Col!vars
      BY <1>5, <1>7, <2>2
         DEF Open, LoadState, Col!vars, Col!memory, Col!maps, Col!history, memory
    <3>. QED
      BY <3>1
  <2>. QED
    BY <2>1, <2>2
<1>. QED
  BY <1>4, <1>8, <1>9 DEF Carried, LogFollows

(* OpenCollection closes the log that it cannot replay.                    *)
LEMMA FilesClosed ==
    ASSUME FilesInv, disk' = [disk EXCEPT ![active] = WP!Synced(@)],
           walPhase' = "down", WP!Forget, UNCHANGED <<appends, walStops, errors>>
    PROVE  FilesInv' /\ OnFiles' = OnFiles
<1>0. /\ WP!TypeInv /\ WP!TagsBounded /\ WP!TagsAscend
      /\ \A s \in WP!SegIDs :
            /\ disk[s] \in WP!GoodFile /\ WP!Layout(disk[s]) /\ WP!Torn(disk[s]) = {}
            /\ \A k \in disk[s].chunks : k.rec.tag # 0
      /\ disk \in [WP!SegIDs -> WP!GoodFile]
  BY FilesFacts DEF FilesInv, WP!TagsInv, WP!TypeInv, WP!FilesOK
<1>1. ASSUME NEW s \in WP!SegIDs
      PROVE  /\ disk'[s] \in WP!GoodFile /\ disk'[s] \in WP!File
             /\ disk'[s].chunks = disk[s].chunks
             /\ disk'[s].size = disk[s].size /\ disk'[s].exists = disk[s].exists
  <2>0. disk[s] \in WP!File /\ disk[s] \in WP!GoodFile
    BY <1>0 DEF WP!GoodFile
  <2>1. CASE s = active
    <3>1. disk'[s] = WP!Synced(disk[s])
      BY <1>0, <2>1
    <3>2. /\ WP!Synced(disk[s]) \in WP!File
          /\ WP!Synced(disk[s]).size = disk[s].size
          /\ WP!Synced(disk[s]).synced = disk[s].size
          /\ WP!Synced(disk[s]).chunks = disk[s].chunks
          /\ WP!Synced(disk[s]).exists = disk[s].exists
      BY <2>0, Constants, WP!SyncedFile, WP!SameExists
    <3>3. disk[s].size \in Nat
      BY <2>0 DEF WP!File
    <3>4. WP!Synced(disk[s]) \in WP!GoodFile
      BY <2>0, <3>2, <3>3 DEF WP!GoodFile
    <3>. QED
      BY <3>1, <3>2, <3>4
  <2>2. CASE s # active
    BY <1>0, <2>0, <2>2
  <2>. QED
    BY <2>1, <2>2
<1>2. /\ lsn' = 0 /\ segID' = 0 /\ active' = 0 /\ currentSize' = 0
      /\ file' = "nil" /\ stage' = "idle" /\ rec' = WP!NoRecord
      /\ UNCHANGED <<returned, promised>>
  BY DEF WP!Forget, WP!history
<1>3. disk' \in [WP!SegIDs -> WP!GoodFile] /\ disk' \in [WP!SegIDs -> WP!File]
  BY <1>0, <1>1
<1>4. WP!NoRecord \in WP!Record
  BY DEF WP!NoRecord, WP!Record
<1>5. WP!TypeOK'
  BY <1>0, <1>2, <1>3, <1>4 DEF WP!TypeInv, WP!TypeOK, WP!SegIDs, WP!Record, WP!File, WP!Chunk
<1>6. WP!TypeInv'
  BY <1>2, <1>3, <1>5
     DEF WP!TypeInv, WP!FilesOK, WP!CallOK, WP!SegIDs, WP!GoodFile, WP!File,
         WP!Chunk, WP!Record
<1>7. WP!Layouts'
  BY <1>0, <1>1, Constants, WP!SameLayout DEF WP!Layouts, WP!SegIDs, WP!Layout
<1>8. WP!ControlInv' /\ walPhase' # "off"
  BY <1>2, <1>6, <1>7 DEF WP!ControlInv, WP!Control, WP!Writing
<1>9. WP!TagsBounded' /\ WP!TagsAscend'
  BY <1>0, <1>1, <1>2 DEF WP!TagsBounded, WP!TagsAscend, WP!Writing, WP!SegIDs
<1>10. WP!Whole'
  BY <1>0, <1>1 DEF WP!Whole, WP!Torn, WP!SegIDs
<1>11. WP!SyncOK' /\ TagsDrawn' /\ SyncsAlways'
  BY <1>0, <1>1, <1>2 DEF WP!SyncOK, TagsDrawn, SyncsAlways, WP!SegIDs
<1>12. OnFiles' = OnFiles
  BY <1>1 DEF OnFiles, WP!SegIDs
<1>. QED
  BY <1>8, <1>9, <1>10, <1>11, <1>12 DEF FilesInv, WP!TagsInv, WP!WholeInv

LEMMA CollidesCarried ==
    ASSUME NoTornWrite, Together, ReplayCollides
    PROVE  Carried
<1>0. /\ FilesInv /\ RecordsInv /\ Phases /\ Counts
  BY DEF Together, Linked
<1>1. Col!ReplayCollides /\ Log' = Log /\ faults' = faults /\ stops' = stops
  BY DEF ReplayCollides, Col!ReplayCollides
<1>2. phase = "loading" /\ walPhase = "ready" /\ stage = "idle"
  BY <1>0 DEF ReplayCollides, Col!Replaying, Phases
<1>3. /\ disk' = [disk EXCEPT ![active] = WP!Synced(@)] /\ WP!Forget
      /\ walPhase' = "down"
      /\ UNCHANGED <<appends, walStops, errors, contents>>
  BY DEF ReplayCollides, Wal!Synced, WP!Synced, Wal!Forget, WP!Forget,
         Wal!NoRecord, WP!NoRecord, Wal!history, WP!history
<1>4. FilesInv' /\ OnFiles' = OnFiles
  BY <1>0, <1>3, FilesClosed
<1>5. stage' = "idle" /\ returned' = returned
  BY <1>3 DEF WP!Forget, WP!history
<1>6. Found' = Found
  BY <1>0, <1>2, <1>4, <1>5, FoundNow, FoundNext DEF InFlight
<1>7. RecordsInv'
  BY <1>0, <1>3, <1>5, <1>6 DEF RecordsInv, Ranked
<1>8. Col!Next
  BY <1>1 DEF Col!Next, Col!LoadStep
<1>9. Linked'
  <2>1. phase' = "down" /\ cursor' = 0
    BY <1>1, <1>2 DEF Col!ReplayCollides
  <2>2. Phases'
    BY <1>3, <2>1 DEF Phases
  <2>3. Counts'
    BY <1>0, <1>1, <1>3, <1>5 DEF Counts
  <2>. QED
    BY <1>5, <2>2, <2>3 DEF Linked
<1>. QED
  BY <1>4, <1>7, <1>8, <1>9 DEF Carried

LEMMA ReplayCarried ==
    ASSUME NoTornWrite, Together, Replay
    PROVE  Carried
<1>0. /\ FilesInv /\ RecordsInv /\ Phases /\ Counts
  BY DEF Together, Linked
<1>1. WP!vars' = WP!vars /\ appends' = appends /\ contents' = contents
  BY DEF Replay, walVars, WP!vars, WP!walVars, WP!callVars, WP!history, WP!counters
<1>2. LogFollows
  BY <1>0, <1>1, StepFollows
<1>3. Col!ReplayInsert \/ Col!ReplayDelete \/ Col!LoadDone
  BY DEF Replay
<1>4. phase \in {"loading", "reloading"}
  BY <1>3 DEF Col!ReplayInsert, Col!ReplayDelete, Col!LoadDone, Col!Replaying
<1>5. phase = "loading" /\ walPhase = "ready" /\ stage = "idle" /\ stage' = "idle"
  BY <1>0, <1>4 DEF Phases, Replay, walVars
<1>6. Log' = Log
  BY <1>2, <1>5 DEF LogFollows
<1>7. phase' \in {"loading", "ready"} /\ faults' = faults /\ stops' = stops
  BY <1>3, <1>5 DEF Col!ReplayInsert, Col!ReplayDelete, Col!LoadDone
<1>8. Col!Next
  BY <1>3 DEF Col!Next, Col!LoadStep
<1>9. Linked'
  BY <1>0, <1>1, <1>5, <1>7 DEF Linked, Phases, Counts, Replay, walVars
<1>. QED
  BY <1>2, <1>8, <1>9 DEF Carried, LogFollows

LEMMA StutterCarried ==
    ASSUME NoTornWrite, Together, UNCHANGED vars
    PROVE  Carried
<1>0. /\ FilesInv /\ RecordsInv /\ Linked
  BY DEF Together
<1>1. WP!vars' = WP!vars /\ stage' = stage /\ appends' = appends /\ contents' = contents
  BY DEF vars, walVars, WP!vars, WP!walVars, WP!callVars, WP!history, WP!counters
<1>2. LogFollows
  BY <1>0, <1>1, StepFollows
<1>3. Log' = Log
  BY <1>1, <1>2 DEF LogFollows, Landed
<1>4. UNCHANGED colVars
  BY DEF vars
<1>5. op' = op
  BY DEF op, vars, walVars
<1>6. Pending' <=> Pending
  BY <1>4, <1>5, SameMemory DEF Pending, colVars, memory, Col!InsertRecord, Col!DeleteRecord
<1>7. Linked'
  BY <1>0, <1>1, <1>4, <1>6
     DEF Linked, Phases, Counts, vars, walVars, colVars
<1>. QED
  BY <1>2, <1>3, <1>4, <1>7, SameVars DEF Carried, LogFollows

(* Every step keeps files, log and memory together, and is a step that     *)
(* Collection allows on the log, or none.                                  *)
LEMMA TogetherStep ==
    ASSUME NoTornWrite, Together, [Next]_vars
    PROVE  Together' /\ [Col!Next]_(Col!vars)
<1>1. Carried
  <2>1. CASE UNCHANGED vars
    BY <2>1, StutterCarried
  <2>2. CASE \E e \in ExternalIDs : \/ \E item \in Items : Insert(e, item)
                                    \/ Delete(e)
    BY <2>2, InsertCarried, DeleteCarried
  <2>3. CASE AppendStep \/ AppendReturnsNil \/ AppendFails
    BY <2>3, AppendStepCarried, NilCarried, FailsCarried
  <2>4. CASE Close \/ Stop \/ Open
    BY <2>4, CloseCarried, StopCarried, OpenCarried
  <2>5. CASE Replay \/ ReplayCollides
    BY <2>5, ReplayCarried, CollidesCarried
  <2>. QED
    BY <2>1, <2>2, <2>3, <2>4, <2>5 DEF Next
<1>2. CP!AckInv'
  <2>1. CP!AckInv /\ [CP!Next]_(CP!vars)
    BY <1>1, SameCollection DEF Together, Carried
  <2>2. CP!KeepsLog
    BY DEF CP!KeepsLog
  <2>. QED
    BY <2>1, <2>2, Constants, CP!AckStep
<1>. QED
  BY <1>1, <1>2 DEF Carried, Together

LEMMA TogetherAlways ==
    ASSUME NoTornWrite
    PROVE  Spec => []Together
<1>1. Init => Together
  BY TogetherInit
<1>2. Together /\ [Next]_vars => Together'
  BY TogetherStep
<1>. QED
  BY <1>1, <1>2, PTL DEF Spec

-----------------------------------------------------------------------------
(* On its segment files a collection does what Collection says one does on *)
(* a log that is a sequence, whatever rotates, fails or stops in between.  *)
THEOREM Implements ==
    ASSUME NoTornWrite
    PROVE  Spec => ImplementsCollection
<1>1. Init => Col!Init
  <2> SUFFICES ASSUME Init PROVE Col!Init
    OBVIOUS
  <2>1. RecordsInv /\ WP!Init
    BY RecordsInit, SameState DEF Init
  <2>2. Cardinality(Found) \in Nat /\ Cardinality(Found) <= 0
    BY <2>1, FS_CardinalityType DEF RecordsInv, WP!Init
  <2>3. Log = <<>>
    BY <2>2 DEF Log
  <2>. QED
    BY <2>3 DEF Init, Col!Init
<1>2. Together /\ [Next]_vars => [Col!Next]_(Col!vars)
  BY TogetherStep
<1>. QED
  BY <1>1, <1>2, TogetherAlways, PTL DEF Spec, ImplementsCollection, Col!Spec

(* What Insert acknowledged is served whenever the collection is, and from *)
(* its segment files again after every restart, until an operation deletes *)
(* it, or fails or is cut off on it; what Delete acknowledged never        *)
(* returns.  Fsyncs may fail here.                                         *)
THEOREM ServesAcks ==
    ASSUME NoTornWrite
    PROVE  Spec => []Col!AckedServed
<1>1. CP!KeepsLog
  BY DEF CP!KeepsLog
<1>2. CP!Spec => []CP!AckedServed
  BY <1>1, Constants, CP!AcksKept
<1>3. Col!Spec => CP!Spec
  BY SameCollection, SameTypes, PTL DEF Col!Spec, CP!Spec
<1>4. CP!AckedServed => Col!AckedServed
  BY DEF CP!AckedServed, Col!AckedServed
<1>. QED
  BY <1>2, <1>3, <1>4, Implements, PTL DEF ImplementsCollection

(* What a client sees of a collection on its segment files is a map that   *)
(* only its own Inserts and Deletes change, across restarts, whatever      *)
(* rotates, fails or stops between two file operations.  Not so when an    *)
(* append's fsync may fail: an operation that returned that error leaves   *)
(* its record and takes effect at the next restart                         *)
(* (Collection_failed_sync).                                               *)
THEOREM ServesStore ==
    ASSUME NoTornWrite, SyncPolicy # "SyncAlways" \/ "sync" \notin IOErrors
    PROVE  Spec => Col!ImplementsStore
<1>1. CP!CleanFaults
  BY DEF CP!CleanFaults, AppendFaults
<1>2. CP!Spec => CP!ImplementsStore
  BY <1>1, Constants, CP!Implements
<1>3. Col!Spec => CP!Spec
  BY SameCollection, SameTypes, PTL DEF Col!Spec, CP!Spec
<1>4. CP!ImplementsStore => Col!ImplementsStore
  <2>1. CP!Served = Col!Served /\ CP!Logged = Col!Logged
    BY DEF Col!Served, CP!Served, Col!Plain, CP!Plain, Col!JSON, CP!JSON,
           Col!Logged, CP!Logged, Col!LivePositions, CP!LivePositions,
           Col!Unit, CP!Unit
  <2>2. CP!Served' = Col!Served' /\ CP!Logged' = Col!Logged'
    BY DEF Col!Served, CP!Served, Col!Plain, CP!Plain, Col!JSON, CP!JSON,
           Col!Logged, CP!Logged, Col!LivePositions, CP!LivePositions,
           Col!Unit, CP!Unit
  <2>3. CP!Store!Init => Col!Store!Init
    BY <2>1 DEF CP!Store!Init, Col!Store!Init
  <2>4. [CP!Store!Next]_<<IF phase \in {"ready", "closed"}
                          THEN CP!Served ELSE CP!Logged, used>>
          => [Col!Store!Next]_<<IF phase \in {"ready", "closed"}
                                THEN Col!Served ELSE Col!Logged, used>>
    <3>1. \A i : CP!Document(i) = Col!Document(i)
      BY DEF CP!Document, Col!Document, CP!Unit, Col!Unit, CP!JSON, Col!JSON
    <3>2. \A e, d : CP!Store!Insert(e, d) => Col!Store!Insert(e, d)
      BY <2>1, <2>2
         DEF CP!Store!Insert, Col!Store!Insert, CP!Store!With, Col!Store!With
    <3>3. \A e : CP!Store!Delete(e) => Col!Store!Delete(e)
      BY <2>1, <2>2
         DEF CP!Store!Delete, Col!Store!Delete, CP!Store!Without, Col!Store!Without
    <3>4. \A e : CP!Store!FailInsert(e) => Col!Store!FailInsert(e)
      BY <2>1, <2>2 DEF CP!Store!FailInsert, Col!Store!FailInsert
    <3>5. CP!Store!Next => Col!Store!Next
      BY <3>1, <3>2, <3>3, <3>4 DEF CP!Store!Next, Col!Store!Next
    <3>. QED
      BY <2>1, <2>2, <3>5
  <2>. QED
    BY <2>3, <2>4, PTL DEF CP!ImplementsStore, Col!ImplementsStore, CP!Store!Spec,
       Col!Store!Spec
<1>. QED
  BY <1>2, <1>3, <1>4, Implements, PTL DEF ImplementsCollection

(* Log and memory hold values the program could hold, and the append in    *)
(* progress is the one whose record was noted last.                        *)
THEOREM TypeCorrect ==
    ASSUME NoTornWrite
    PROVE  Spec => []TypeOK
<1>1. Together => TypeOK
  <2> SUFFICES ASSUME Together PROVE TypeOK
    OBVIOUS
  <2>1. Wal!TypeOK
    BY FilesFacts, SameState DEF Together, WP!TypeInv
  <2>2. Col!TypeOK
    BY Constants, CP!TypeInvOK, SameTypes DEF Together, CP!AckInv, CP!FaultInv
  <2>3. Len(contents) = appends
    BY DEF Together, RecordsInv
  <2>4. stage # "idle" => rec.tag = appends /\ Serving
    BY TogetherTypes DEF Together, FilesInv, TagsDrawn, Serving
  <2>. QED
    BY <2>1, <2>2, <2>3, <2>4 DEF TypeOK
<1>. QED
  BY <1>1, TogetherAlways, PTL

(* What was acknowledged is in the segments at all times, also while these *)
(* are closed, half rotated or not open: an insert is there and not        *)
(* cancelled, a deleted document is gone for good.                         *)
THEOREM AcksStayOnDisk ==
    ASSUME NoTornWrite
    PROVE  Spec => []AckedOnDisk
<1>1. Together => AckedOnDisk
  <2> SUFFICES ASSUME Together PROVE AckedOnDisk
    OBVIOUS
  <2>1. CP!AcksLogged /\ Log \in Seq(Col!Record)
    BY MemoryTypes DEF Together, CP!AckInv
  <2>2. Col!LivePositions = CP!LiveNow
    <3>1. DOMAIN Log = 1 .. Len(Log)
      BY <2>1
    <3>. QED
      BY <3>1 DEF Col!LivePositions, CP!LiveNow, CP!Live
  <2>3. DOMAIN Col!Logged = {Log[p].ext : p \in CP!LiveNow}
    BY <2>2 DEF Col!Logged
  <2>. QED
    BY <2>1, <2>3 DEF CP!AcksLogged, AckedOnDisk
<1>. QED
  BY <1>1, TogetherAlways, PTL

=============================================================================
