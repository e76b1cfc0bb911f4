---------------------------- MODULE Concurrency ----------------------------
(***************************************************************************)
(* Goroutines that call one collection: its c.mu, the index's li.mu, the   *)
(* log's wal.mu, the goroutine that fsyncs every second, and Close, which  *)
(* takes wal.mu but not c.mu.  A step is what a goroutine does between two *)
(* operations on locks.  A document is the number of the insert it came    *)
(* from; modules WAL and Collection have the detail left out here, the      *)
(* appends and rotations that fail among it.                               *)
(*                                                                         *)
(* With ThroughCollection = FALSE the goroutines call the LinearIndex      *)
(* itself, as its own tests do.                                            *)
(*                                                                         *)
(* A definition named Bug_X stands before X: X with a plausible bug, used  *)
(* to see that a property notices it.                                      *)
(***************************************************************************)
EXTENDS Naturals

CONSTANTS
    Clients,           \* the goroutines that call
    Nobody,            \* no goroutine
    Calls,             \* the calls they make
    ThroughCollection, \* FALSE: the calls go to the index directly
    SyncPolicy,        \* "SyncAlways", "SyncEverySec" or "SyncOS"
    MaxCalls           \* bound on the calls

Background == "backgroundSync"
NestedReads == 4       \* Size, Dimension, Size, Size within one Search

ASSUME ClientAssumption ==
    {Nobody, Background} \cap Clients = {} /\ Nobody # Background
ASSUME CallAssumption ==
    /\ Calls \subseteq {"insert", "delete", "search", "get", "close", "peek"}
    /\ ThroughCollection \in BOOLEAN
    /\ ~ThroughCollection => Calls \subseteq {"insert", "delete", "search"}
    /\ SyncPolicy \in {"SyncAlways", "SyncEverySec", "SyncOS"}
    /\ MaxCalls \in Nat

RW == INSTANCE RWMutex WITH Goroutines <- Clients

VARIABLES
    cmu, limu,     \* c.mu and li.mu
    walmu,         \* the goroutine that holds wal.mu, or Nobody
    pc,            \* where each client is
    call, doc,     \* its call, and the document it is about
    nested,        \* in Search: the nested read locks behind it
    found,         \* in Search: what the index answered
    index, ids,    \* the documents in the index, and in the id maps
    log, synced,   \* the records in the log, and those fsynced
    sealed,        \* the records in segments that rotation closed
    file,          \* wal.activeSegment.file: open or nil
    done,          \* wal.done is closed
    once,          \* wal.closeOnce: new, running or over
    background,    \* the goroutine: select, lock, sync or gone
    acked,         \* history: records whose call returned nil
    closed,        \* history: what the Closes that returned have answered
    flushed,       \* history: Close did its work and met no fsync error
    calls          \* counter, for the bound

locks   == <<cmu, limu, walmu>>
clients == <<pc, call, doc, nested, found>>
memory  == <<index, ids>>
disk    == <<log, synced, sealed, file>>
closing == <<done, once>>
history == <<acked, closed, flushed>>
vars    == <<locks, clients, memory, disk, closing, background, history, calls>>

Record(op, d) == [op |-> op, doc |-> d]

Init ==
    /\ cmu = RW!Free /\ limu = RW!Free /\ walmu = Nobody
    /\ pc = [c \in Clients |-> "idle"] /\ call = [c \in Clients |-> "none"]
    /\ doc = [c \in Clients |-> 0] /\ nested = [c \in Clients |-> 0]
    /\ found = [c \in Clients |-> {}]
    /\ index = {} /\ ids = {}
    /\ log = {} /\ synced = {} /\ sealed = {} /\ file = "open"
    /\ done = FALSE /\ once = "new"
    /\ background = IF SyncPolicy = "SyncEverySec" THEN "select" ELSE "gone"
    /\ acked = {} /\ closed = {} /\ flushed = FALSE /\ calls = 0

At(c, step)   == pc[c] = step
Goto(c, step) == /\ pc' = [pc EXCEPT ![c] = step]
                 /\ UNCHANGED <<call, doc, nested, found>>
Return(c) == /\ pc' = [pc EXCEPT ![c] = "idle"]
             /\ call' = [call EXCEPT ![c] = "none"]
             /\ doc' = [doc EXCEPT ![c] = 0]
             /\ nested' = [nested EXCEPT ![c] = 0]
             /\ found' = [found EXCEPT ![c] = {}]

-----------------------------------------------------------------------------
(* A call begins: with c.mu, or, on the bare index, with li.mu.  A delete  *)
(* names an insert begun so far, or itself, which is no document.          *)

Begin(c, op) ==
    /\ At(c, "idle") /\ calls < MaxCalls
    /\ calls' = calls + 1
    /\ call' = [call EXCEPT ![c] = op]
    /\ pc' = [pc EXCEPT ![c] =
                CASE op \in {"close", "peek"} -> op
                  [] op \in {"insert", "delete"} ->
                       IF ThroughCollection THEN "lock" ELSE "indexLock"
                  [] op \in {"search", "get"} ->
                       IF ThroughCollection THEN "rlock" ELSE "indexRLock"]
    /\ \E d \in 0 .. calls + 1 :
          /\ CASE op = "insert" -> d = calls + 1
               [] op = "delete" -> d > 0
               [] OTHER         -> d = 0
          /\ doc' = [doc EXCEPT ![c] = d]
    /\ UNCHANGED <<locks, nested, found, memory, disk, closing, background,
                   history>>

-----------------------------------------------------------------------------
(* Insert and Delete                                                       *)

LockCollection(c) ==
    /\ At(c, "lock") /\ RW!CanLock(cmu)
    /\ cmu' = RW!Lock(cmu, c) /\ Goto(c, "append")
    /\ UNCHANGED <<limu, walmu, memory, disk, closing, background, history,
                   calls>>

UnlockCollection(c) ==
    /\ cmu' = RW!Unlock(cmu) /\ UNCHANGED limu /\ Return(c)

NotFound(c) ==
    /\ At(c, "append") /\ RW!MayWrite(cmu, c)
    /\ call[c] = "delete" /\ doc[c] \notin ids
    /\ UnlockCollection(c)
    /\ UNCHANGED <<walmu, memory, disk, closing, background, history, calls>>

LockWAL(c) ==
    /\ At(c, "append") /\ RW!MayWrite(cmu, c)
    /\ call[c] = "delete" => doc[c] \in ids
    /\ walmu = Nobody /\ walmu' = c /\ Goto(c, "write")
    /\ UNCHANGED <<cmu, limu, memory, disk, closing, background, history,
                   calls>>

(* The records of the active segment, all that an fsync reaches.           *)
Active == log \ sealed

(* A full segment is closed first, without an fsync (rotateSegment); then  *)
(* the write, and the fsync the policy asks for.  A closed log refuses.    *)
Append(c) ==
    /\ At(c, "write") /\ file = "open"
    /\ sealed' \in {sealed, log}
    /\ log' = log \cup {Record(call[c], doc[c])}
    /\ synced' = IF SyncPolicy = "SyncAlways" THEN synced \cup Active' ELSE synced
    /\ walmu' = Nobody /\ Goto(c, "indexLock")
    /\ UNCHANGED <<cmu, limu, memory, file, closing, background, history,
                   calls>>

AppendRefused(c) ==
    /\ At(c, "write") /\ file = "nil"
    /\ walmu' = Nobody /\ UnlockCollection(c)
    /\ UNCHANGED <<memory, disk, closing, background, history, calls>>

(* index.Add and index.Delete.                                             *)
LockIndex(c) ==
    /\ At(c, "indexLock") /\ RW!CanLock(limu)
    /\ limu' = RW!Lock(limu, c) /\ Goto(c, "index")
    /\ UNCHANGED <<cmu, walmu, memory, disk, closing, background, history,
                   calls>>

ChangeIndex(c) ==
    /\ At(c, "index") /\ RW!MayWrite(limu, c)
    /\ index' = IF call[c] = "insert" THEN index \cup {doc[c]}
                                      ELSE index \ {doc[c]}
    /\ limu' = RW!Unlock(limu)
    /\ IF ThroughCollection THEN Goto(c, "finish") ELSE Return(c)
    /\ UNCHANGED <<cmu, walmu, ids, disk, closing, background, history, calls>>

Finish(c) ==
    /\ At(c, "finish")
    /\ ids' = IF call[c] = "insert" THEN ids \cup {doc[c]} ELSE ids \ {doc[c]}
    /\ acked' = acked \cup {Record(call[c], doc[c])}
    /\ UnlockCollection(c)
    /\ UNCHANGED <<walmu, index, disk, closing, background, closed, flushed,
                   calls>>

-----------------------------------------------------------------------------
(* Search and Get                                                          *)

RLockCollection(c) ==
    /\ At(c, "rlock")
    /\ cmu' = RW!RLock(cmu, c)
    /\ Goto(c, IF call[c] = "search" THEN "indexRLock" ELSE "translate")
    /\ UNCHANGED <<limu, walmu, memory, disk, closing, background, history,
                   calls>>

RLockIndex(c) ==
    /\ At(c, "indexRLock") /\ RW!MayRead(cmu, c)
    /\ limu' = RW!RLock(limu, c) /\ Goto(c, "scan")
    /\ UNCHANGED <<cmu, walmu, memory, disk, closing, background, history,
                   calls>>

Bug_NestedRLock(c) ==   \* forgets the lock, not the deferred unlock
    /\ At(c, "scan") /\ RW!MayRead(limu, c) /\ nested[c] < NestedReads
    /\ nested[c] = 1 => index # {}
    /\ Goto(c, "nested")
    /\ UNCHANGED <<locks, memory, disk, closing, background, history, calls>>
(* li.Size() and li.Dimension(), called with li.mu read-locked.            *)
NestedRLock(c) ==
    /\ At(c, "scan") /\ RW!MayRead(limu, c) /\ nested[c] < NestedReads
    /\ nested[c] = 1 => index # {}
    /\ limu' = RW!RLock(limu, c) /\ Goto(c, "nested")
    /\ UNCHANGED <<cmu, walmu, memory, disk, closing, background, history,
                   calls>>

NestedRUnlock(c) ==
    /\ At(c, "nested") /\ RW!MayRead(limu, c)
    /\ limu' = RW!RUnlock(limu, c)
    /\ pc' = [pc EXCEPT ![c] = "scan"] /\ nested' = [nested EXCEPT ![c] = @ + 1]
    /\ UNCHANGED <<cmu, walmu, call, doc, found, memory, disk, closing,
                   background, history, calls>>

(* Search returns when the index is empty, when k <= 0 is refused, and     *)
(* with the whole index ranked.                                            *)
LeaveIndex(c) ==
    /\ At(c, "scan") /\ RW!MayRead(limu, c)
    /\ limu' = RW!RUnlock(limu, c)
    /\ \E answer \in {{}, index} :
          /\ \/ nested[c] = 1 /\ index = {}
             \/ nested[c] = 2 /\ answer = {}
             \/ nested[c] = NestedReads /\ answer = index
          /\ IF ThroughCollection
             THEN /\ pc' = [pc EXCEPT ![c] = "translate"]
                  /\ found' = [found EXCEPT ![c] = answer]
                  /\ UNCHANGED <<call, doc, nested>>
             ELSE Return(c)
    /\ UNCHANGED <<cmu, walmu, memory, disk, closing, background, history,
                   calls>>

Bug_RUnlockCollection(c) ==   \* gives c.mu up before it translates the ids
    /\ At(c, "scan") /\ call[c] = "search" /\ cmu.reads[c] = 1
    /\ cmu' = RW!RUnlock(cmu, c)
    /\ UNCHANGED <<limu, walmu, clients, memory, disk, closing, background,
                   history, calls>>
RUnlockCollection(c) ==
    /\ At(c, "translate") /\ RW!MayRead(cmu, c)
    /\ cmu' = RW!RUnlock(cmu, c) /\ Return(c)
    /\ UNCHANGED <<limu, walmu, memory, disk, closing, background, history,
                   calls>>

(* GetIdCounter, IDCounter, ExtToInt and IntToExt read the counter or hand *)
(* a map out, without c.mu.                                                *)
Peek(c) ==
    /\ At(c, "peek") /\ Return(c)
    /\ UNCHANGED <<locks, memory, disk, closing, background, history, calls>>

-----------------------------------------------------------------------------
(* Close: sync.Once runs the body once; another caller waits for it.       *)

StartClose(c) ==
    /\ At(c, "close") /\ once = "new"
    /\ once' = "running" /\ done' = TRUE /\ Goto(c, "wait")
    /\ UNCHANGED <<locks, memory, disk, background, history, calls>>

(* wg.Wait, and only then wal.mu.Lock.                                     *)
Bug_AwaitBackground(c) ==   \* takes wal.mu before it waits
    /\ At(c, "wait")
    /\ \/ walmu = Nobody /\ walmu' = c /\ UNCHANGED clients
       \/ walmu = c /\ background = "gone" /\ Goto(c, "flush") /\ UNCHANGED walmu
    /\ UNCHANGED <<cmu, limu, memory, disk, closing, background, history,
                   calls>>
AwaitBackground(c) ==
    /\ At(c, "wait") /\ background = "gone"
    /\ walmu = Nobody /\ walmu' = c /\ Goto(c, "flush")
    /\ UNCHANGED <<cmu, limu, memory, disk, closing, background, history,
                   calls>>

Bug_Flush(c) ==   \* closes without the fsync
    /\ At(c, "flush")
    /\ flushed' = TRUE /\ closed' = closed \cup {"nil"}
    /\ file' = "nil" /\ once' = "over" /\ walmu' = Nobody /\ Return(c)
    /\ UNCHANGED <<cmu, limu, memory, log, synced, sealed, done, background,
                   acked, calls>>
(* The fsync may fail, or the Close of the file behind it: the file is nil *)
(* all the same, and the error is returned.                                *)
Flush(c) ==
    /\ At(c, "flush")
    /\ \/ /\ synced' = synced \cup Active /\ flushed' = TRUE
          /\ \E answer \in {"nil", "error"} : closed' = closed \cup {answer}
       \/ /\ UNCHANGED <<synced, flushed>>
          /\ closed' = closed \cup {"error"}
    /\ file' = "nil" /\ once' = "over" /\ walmu' = Nobody /\ Return(c)
    /\ UNCHANGED <<cmu, limu, memory, log, sealed, done, background, acked,
                   calls>>

(* A Close that finds the work done answers nil, also when it failed.      *)
CloseAgain(c) ==
    /\ At(c, "close") /\ once = "over"
    /\ closed' = closed \cup {"nil"} /\ Return(c)
    /\ UNCHANGED <<locks, memory, disk, closing, background, acked, flushed,
                   calls>>

-----------------------------------------------------------------------------
(* backgroundSync: select takes either case when both are ready.           *)

Tick ==
    /\ background = "select" /\ background' = "lock"
    /\ UNCHANGED <<locks, clients, memory, disk, closing, history, calls>>

BackgroundLock ==
    /\ background = "lock" /\ walmu = Nobody
    /\ walmu' = Background /\ background' = "sync"
    /\ UNCHANGED <<cmu, limu, clients, memory, disk, closing, history, calls>>

(* Nothing is done about an fsync that fails.                              *)
BackgroundSync ==
    /\ background = "sync"
    /\ \/ file = "open" /\ synced' = synced \cup Active
       \/ UNCHANGED synced
    /\ walmu' = Nobody /\ background' = "select"
    /\ UNCHANGED <<cmu, limu, clients, memory, log, sealed, file, closing,
                   history, calls>>

BackgroundStop ==
    /\ background = "select" /\ done /\ background' = "gone"
    /\ UNCHANGED <<locks, clients, memory, disk, closing, history, calls>>

-----------------------------------------------------------------------------

Step(c) ==
    \/ LockCollection(c) \/ NotFound(c) \/ LockWAL(c) \/ Append(c)
    \/ AppendRefused(c) \/ LockIndex(c) \/ ChangeIndex(c) \/ Finish(c)
    \/ RLockCollection(c) \/ RLockIndex(c) \/ NestedRLock(c)
    \/ NestedRUnlock(c) \/ LeaveIndex(c) \/ RUnlockCollection(c)
    \/ Peek(c)
    \/ StartClose(c) \/ AwaitBackground(c) \/ Flush(c) \/ CloseAgain(c)

BackgroundStep == Tick \/ BackgroundLock \/ BackgroundSync \/ BackgroundStop

Next == \/ \E c \in Clients : Step(c) \/ \E op \in Calls : Begin(c, op)
        \/ BackgroundStep

Spec == Init /\ [][Next]_vars

(* A goroutine that can go on does; one that waits for a mutex gets it     *)
(* sooner or later (a Go mutex hands itself to a starved waiter), and a    *)
(* select does not choose the ticker for ever when done is closed.         *)
FairSpec ==
    /\ Spec
    /\ \A c \in Clients : SF_vars(Step(c))
    /\ WF_vars(BackgroundLock) /\ WF_vars(BackgroundSync) /\ SF_vars(BackgroundStop)

-----------------------------------------------------------------------------
(* Properties *)

Docs == 1 .. MaxCalls
Records == [op : {"insert", "delete"}, doc : Docs]

(* Every variable holds a value the program could hold.                    *)
TypeOK ==
    /\ cmu \in RW!RWLocks /\ limu \in RW!RWLocks
    /\ walmu \in Clients \cup {Nobody, Background}
    /\ pc \in [Clients -> {"idle", "lock", "append", "write", "indexLock",
                           "index", "finish", "rlock", "indexRLock", "scan",
                           "nested", "translate", "peek", "close", "wait", "flush"}]
    /\ call \in [Clients -> {"none"} \cup Calls]
    /\ doc \in [Clients -> Docs \cup {0}]
    /\ nested \in [Clients -> 0 .. NestedReads]
    /\ found \in [Clients -> SUBSET Docs]
    /\ index \subseteq Docs /\ ids \subseteq Docs
    /\ log \subseteq Records /\ synced \subseteq log /\ sealed \subseteq log
    /\ file \in {"open", "nil"} /\ done \in BOOLEAN
    /\ once \in {"new", "running", "over"}
    /\ background \in {"select", "lock", "sync", "gone"}
    /\ acked \subseteq log
    /\ closed \subseteq {"nil", "error"} /\ flushed \in BOOLEAN
    /\ calls \in 0 .. MaxCalls

(* What the index answered a Search still has its ids when they are        *)
(* translated: "id doesn't exist internal corruption" (collection.go:227)  *)
(* is never returned, whichever Inserts and Deletes run beside it.         *)
SearchTranslates ==
    \A c \in Clients :
        At(c, "translate") /\ call[c] = "search" /\ RW!MayRead(cmu, c)
            => found[c] \subseteq ids

(* While a goroutine is about to change the counter and the id maps, no    *)
(* other one is about to read or change them (DESIGN.md:49: the            *)
(* collection's lock protects them "from race conditions during concurrent *)
(* API requests").                                                         *)
Touches(c) == \/ pc[c] \in {"finish", "peek"}
              \/ At(c, "append") /\ RW!MayWrite(cmu, c)
              \/ At(c, "translate") /\ RW!MayRead(cmu, c)
NoRace == \A c, d \in Clients : c # d /\ At(c, "finish") => ~Touches(d)

(* Once a Close has returned, its own or another's, the goroutine and the  *)
(* file are gone.  If the Close that did the work met no fsync error,      *)
(* whatever is acknowledged, before or after, is fsynced or in a segment   *)
(* that rotation closed, although Close does not take c.mu and Inserts run *)
(* beside it ("Sync to disk before closing to ensure no data is lost",     *)
(* wal.go:344).                                                            *)
ClosedDurable ==
    closed # {} => /\ file = "nil"
                   /\ background = "gone"
                   /\ flushed => acked \subseteq synced \cup sealed

(* A Close that answers nil says so of the active segment.  It does not:   *)
(* the second Close answers nil when the first one's fsync failed          *)
(* (wal.go:347: "we return the sync error so the caller knows the disk     *)
(* failed").                                                               *)
NilMeansFlushed == "nil" \in closed => acked \subseteq synced \cup sealed

(* No call waits for ever, Close least of all.                             *)
EveryCallReturns == \A c \in Clients : ~At(c, "idle") ~> At(c, "idle")

(* On the bare index, too: "allows high-throughput concurrent read-heavy   *)
(* search operations while safely serializing Add and Delete mutations"    *)
(* (DESIGN.md:48).                                                         *)
SearchesReturn == \A c \in Clients : call[c] = "search" ~> call[c] = "none"
=============================================================================
