-------------------------- MODULE ConcurrencyProofs --------------------------
(***************************************************************************)
(* What holds of the goroutines around one collection for any number of    *)
(* them, any number of calls and every sync policy: who holds which mutex  *)
(* follows from where each goroutine is, and from that the type invariant, *)
(* that Search can always translate what the index answered, that a Close  *)
(* whose fsync succeeded left nothing unsynced but what rotation sealed,   *)
(* and that only the getters race.                                         *)
(***************************************************************************)
EXTENDS Concurrency, TLAPS

-----------------------------------------------------------------------------
(* The inductive invariant, part by part.                                  *)

(* Where a goroutine that holds c.mu for writing, or reads under it, is.   *)
Writing == {"append", "write", "indexLock", "index", "finish"}
Reading == {"indexRLock", "scan", "nested", "translate"}

(* Which call a goroutine is in follows from where it is.                  *)
CallsAt ==
    \A c \in Clients :
        /\ pc[c] \in Writing \cup {"lock"} => call[c] \in {"insert", "delete"}
        /\ pc[c] \in Reading \cup {"rlock"} => call[c] \in {"search", "get"}
        /\ pc[c] \in {"indexRLock", "scan", "nested"} => call[c] = "search"
        /\ pc[c] = "peek" => call[c] = "peek"
        /\ pc[c] \in {"lock", "rlock", "append", "write", "finish", "translate"}
              => ThroughCollection
        /\ call[c] \in {"insert", "delete"} => doc[c] \in Docs
        /\ pc[c] = "nested" => nested[c] < NestedReads

(* c.mu: its writer, who waits to read and how often each one reads follow *)
(* from where the goroutines are; past LockWAL nobody reads beside the     *)
(* writer.                                                                 *)
CollectionLock ==
    \A c \in Clients :
        /\ cmu.writer = c <=> ThroughCollection /\ pc[c] \in Writing
        /\ c \in cmu.waiting =>
              /\ cmu.writer # Nobody /\ ThroughCollection
              /\ \/ pc[c] = "indexRLock"
                 \/ pc[c] = "translate" /\ call[c] = "get"
        /\ cmu.reads[c] = IF /\ ThroughCollection /\ pc[c] \in Reading
                             /\ c \notin cmu.waiting
                          THEN 1 ELSE 0
        /\ ThroughCollection /\ pc[c] \in Writing \ {"append"} =>
              \A d \in Clients : cmu.reads[d] = 0

(* li.mu likewise; a Search may hold it twice.                             *)
IndexLock ==
    \A c \in Clients :
        /\ limu.writer = c <=> pc[c] = "index"
        /\ c \in limu.waiting =>
              limu.writer # Nobody /\ pc[c] \in {"scan", "nested"}
        /\ limu.reads[c] = CASE pc[c] = "scan" /\ c \notin limu.waiting -> 1
                             [] pc[c] = "nested" /\ c \notin limu.waiting -> 2
                             [] pc[c] = "nested" /\ c \in limu.waiting -> 1
                             [] OTHER -> 0

(* wal.mu: an append, the last fsync of Close or a tick holds it.          *)
LogLock ==
    /\ \A c \in Clients : walmu = c <=> pc[c] \in {"write", "flush"}
    /\ walmu = Background <=> background = "sync"

(* Close: sync.Once lets one goroutine in.  From when that one is through  *)
(* the file is nil, nothing is appended, and, unless its fsync failed, no  *)
(* record outside the sealed segments is unsynced.                         *)
Closing ==
    /\ \A c \in Clients : pc[c] \in {"wait", "flush"} => once = "running"
    /\ \A c, d \in Clients :
          pc[c] \in {"wait", "flush"} /\ pc[d] \in {"wait", "flush"} => c = d
    /\ \A c \in Clients : pc[c] = "flush" => background = "gone"
    /\ once = "over" => background = "gone"
    /\ file = "nil" <=> once = "over"
    /\ closed # {} => once = "over"
    /\ flushed => once = "over"
    /\ flushed => log \subseteq synced \cup sealed

(* What a call is about to acknowledge is in the log.                      *)
Logged ==
    \A c \in Clients :
        ThroughCollection /\ pc[c] \in {"indexLock", "index", "finish"} =>
            Record(call[c], doc[c]) \in log

(* The index has the documents of the id maps, but for the one a call that *)
(* is about to finish has put in or taken out.                             *)
After(c, docs) == IF call[c] = "insert" THEN docs \cup {doc[c]}
                                        ELSE docs \ {doc[c]}
IndexIsIds ==
    ThroughCollection =>
        /\ (\A c \in Clients : pc[c] # "finish") => index = ids
        /\ \A c \in Clients : pc[c] = "finish" => index = After(c, ids)

(* SearchTranslates, of every Search that has its answer.                  *)
Answered ==
    \A c \in Clients :
        pc[c] = "translate" /\ call[c] = "search" => found[c] \subseteq ids

IInv == /\ TypeOK /\ CallsAt /\ CollectionLock /\ IndexLock /\ LogLock
        /\ Closing /\ Logged /\ IndexIsIds /\ Answered

-----------------------------------------------------------------------------
(* What the operators on locks and goroutines do.                          *)

LEMMA NobodyApart ==
    /\ Nobody \notin Clients /\ Background \notin Clients
    /\ Nobody # Background
BY ClientAssumption

(* RLock counts the reader, or makes it wait for the writer.               *)
LEMMA RLockDoes ==
    ASSUME NEW m \in RW!RWLocks, NEW c \in Clients
    PROVE  /\ RW!RLock(m, c) \in RW!RWLocks
           /\ RW!RLock(m, c).writer = m.writer
           /\ m.writer = Nobody =>
                 /\ RW!RLock(m, c).waiting = m.waiting
                 /\ RW!RLock(m, c).reads[c] = m.reads[c] + 1
           /\ m.writer # Nobody =>
                 /\ RW!RLock(m, c).waiting = m.waiting \cup {c}
                 /\ RW!RLock(m, c).reads[c] = m.reads[c]
           /\ \A d \in Clients \ {c} : RW!RLock(m, c).reads[d] = m.reads[d]
BY DEF RW!RWLocks, RW!RLock

(* RUnlock takes one read of the goroutine back.                           *)
LEMMA RUnlockDoes ==
    ASSUME NEW m \in RW!RWLocks, NEW c \in Clients, m.reads[c] > 0
    PROVE  /\ RW!RUnlock(m, c) \in RW!RWLocks
           /\ RW!RUnlock(m, c).writer = m.writer
           /\ RW!RUnlock(m, c).waiting = m.waiting
           /\ RW!RUnlock(m, c).reads[c] = m.reads[c] - 1
           /\ \A d \in Clients \ {c} : RW!RUnlock(m, c).reads[d] = m.reads[d]
BY DEF RW!RWLocks, RW!RUnlock

(* Lock makes the goroutine the writer and leaves the readers.             *)
LEMMA LockDoes ==
    ASSUME NEW m \in RW!RWLocks, NEW c \in Clients
    PROVE  /\ RW!Lock(m, c) \in RW!RWLocks
           /\ RW!Lock(m, c).writer = c
           /\ RW!Lock(m, c).waiting = m.waiting
           /\ RW!Lock(m, c).reads = m.reads
BY DEF RW!RWLocks, RW!Lock

(* Unlock lets everyone in who waits to read.                              *)
LEMMA UnlockDoes ==
    ASSUME NEW m \in RW!RWLocks
    PROVE  /\ RW!Unlock(m) \in RW!RWLocks
           /\ RW!Unlock(m).writer = Nobody
           /\ RW!Unlock(m).waiting = {}
           /\ \A d \in Clients :
                 RW!Unlock(m).reads[d] = IF d \in m.waiting THEN m.reads[d] + 1
                                                            ELSE m.reads[d]
BY DEF RW!RWLocks, RW!Unlock

(* The other goroutines stay where they are.                               *)
OthersStay(c) ==
    \A d \in Clients \ {c} :
        /\ pc'[d] = pc[d] /\ call'[d] = call[d] /\ doc'[d] = doc[d]
        /\ nested'[d] = nested[d] /\ found'[d] = found[d]

LEMMA GotoDoes ==
    ASSUME TypeOK, NEW c \in Clients, NEW step, Goto(c, step)
    PROVE  /\ pc' = [pc EXCEPT ![c] = step] /\ pc'[c] = step
           /\ UNCHANGED <<call, doc, nested, found>>
           /\ OthersStay(c)
BY DEF TypeOK, Goto, OthersStay

LEMMA ReturnDoes ==
    ASSUME TypeOK, NEW c \in Clients, Return(c)
    PROVE  /\ pc'[c] = "idle" /\ call'[c] = "none" /\ doc'[c] = 0
           /\ nested'[c] = 0 /\ found'[c] = {}
           /\ OthersStay(c)
BY DEF TypeOK, Return, OthersStay


-----------------------------------------------------------------------------
(* The type invariant.                                                     *)

LEMMA FreeLock ==
    /\ RW!Free \in RW!RWLocks
    /\ RW!Free.writer = Nobody /\ RW!Free.waiting = {}
    /\ \A c \in Clients : RW!Free.reads[c] = 0
BY DEF RW!RWLocks, RW!Free

LEMMA TypeInit == Init => TypeOK
<1> SUFFICES ASSUME Init PROVE TypeOK
  OBVIOUS
<1>1. calls \in 0 .. MaxCalls /\ nested \in [Clients -> 0 .. NestedReads]
  BY CallAssumption DEF Init, NestedReads
<1>2. background \in {"select", "lock", "sync", "gone"}
  BY DEF Init
<1>. QED
  BY <1>1, FreeLock DEF Init, TypeOK

(* Every step leaves every variable a value of its type.                   *)
LEMMA TypeStep ==
    ASSUME TypeOK, CallsAt, CollectionLock, IndexLock, Closing, Logged, [Next]_vars
    PROVE  TypeOK'
<1> USE DEF locks, clients, memory, disk, closing, history, At, NestedReads, TypeOK
<1>1. ASSUME NEW c \in Clients, NEW op \in Calls, Begin(c, op)
      PROVE  TypeOK'
  BY <1>1, CallAssumption DEF Begin, Docs
<1>2. ASSUME NEW c \in Clients, LockCollection(c)
      PROVE  TypeOK'
  BY <1>2, LockDoes DEF LockCollection, Goto
<1>3. ASSUME NEW c \in Clients, NotFound(c)
      PROVE  TypeOK'
  BY <1>3, UnlockDoes DEF NotFound, UnlockCollection, Return
<1>4. ASSUME NEW c \in Clients, LockWAL(c)
      PROVE  TypeOK'
  BY <1>4 DEF LockWAL, Goto
<1>5. ASSUME NEW c \in Clients, Append(c)
      PROVE  TypeOK'
  BY <1>5 DEF Append, Active, Goto, CallsAt, Records, Record, Writing
<1>6. ASSUME NEW c \in Clients, AppendRefused(c)
      PROVE  TypeOK'
  BY <1>6, UnlockDoes DEF AppendRefused, UnlockCollection, Return
<1>7. ASSUME NEW c \in Clients, LockIndex(c)
      PROVE  TypeOK'
  BY <1>7, LockDoes DEF LockIndex, Goto
<1>8. ASSUME NEW c \in Clients, ChangeIndex(c)
      PROVE  TypeOK'
  BY <1>8, UnlockDoes DEF ChangeIndex, Goto, Return, CallsAt
<1>9. ASSUME NEW c \in Clients, Finish(c)
      PROVE  TypeOK'
  BY <1>9, UnlockDoes DEF Finish, UnlockCollection, Return, CallsAt, Logged
<1>10. ASSUME NEW c \in Clients, RLockCollection(c)
      PROVE  TypeOK'
  BY <1>10, RLockDoes DEF RLockCollection, Goto
<1>11. ASSUME NEW c \in Clients, RLockIndex(c)
      PROVE  TypeOK'
  BY <1>11, RLockDoes DEF RLockIndex, Goto
<1>12. ASSUME NEW c \in Clients, NestedRLock(c)
      PROVE  TypeOK'
  BY <1>12, RLockDoes DEF NestedRLock, Goto
<1>13. ASSUME NEW c \in Clients, NestedRUnlock(c)
      PROVE  TypeOK'
  BY <1>13, RUnlockDoes DEF NestedRUnlock, CallsAt, IndexLock
<1>14. ASSUME NEW c \in Clients, LeaveIndex(c)
      PROVE  TypeOK'
  <2>1. limu' \in RW!RWLocks
    BY <1>14, RUnlockDoes DEF LeaveIndex, IndexLock, RW!MayRead
  <2>2. /\ pc' \in [Clients -> {"idle", "lock", "append", "write", "indexLock",
                           "index", "finish", "rlock", "indexRLock", "scan",
                           "nested", "translate", "peek", "close", "wait", "flush"}]
        /\ call' \in [Clients -> {"none"} \cup Calls]
        /\ doc' \in [Clients -> Docs \cup {0}]
        /\ nested' \in [Clients -> 0 .. NestedReads]
        /\ found' \in [Clients -> SUBSET Docs]
    BY <1>14 DEF LeaveIndex, Return
  <2>. QED
    BY <1>14, <2>1, <2>2 DEF LeaveIndex
<1>15. ASSUME NEW c \in Clients, RUnlockCollection(c)
      PROVE  TypeOK'
  BY <1>15, RUnlockDoes DEF RUnlockCollection, Return, CallsAt,
     CollectionLock, Reading, RW!MayRead
<1>16. ASSUME NEW c \in Clients, Peek(c)
      PROVE  TypeOK'
  BY <1>16 DEF Peek, Return
<1>17. ASSUME NEW c \in Clients, StartClose(c)
      PROVE  TypeOK'
  BY <1>17 DEF StartClose, Goto
<1>18. ASSUME NEW c \in Clients, AwaitBackground(c)
      PROVE  TypeOK'
  BY <1>18 DEF AwaitBackground, Goto
<1>19. ASSUME NEW c \in Clients, Flush(c)
      PROVE  TypeOK'
  <2>1. /\ synced' \subseteq log /\ closed' \subseteq {"nil", "error"}
        /\ flushed' \in BOOLEAN
    BY <1>19 DEF Flush, Active
  <2>. QED
    BY <1>19, <2>1 DEF Flush, Return
<1>20. ASSUME NEW c \in Clients, CloseAgain(c)
      PROVE  TypeOK'
  BY <1>20 DEF CloseAgain, Return
<1>21. ASSUME Tick
      PROVE  TypeOK'
  BY <1>21 DEF Tick
<1>22. ASSUME BackgroundLock
      PROVE  TypeOK'
  BY <1>22 DEF BackgroundLock
<1>23. ASSUME BackgroundSync
      PROVE  TypeOK'
  BY <1>23 DEF BackgroundSync, Active
<1>24. ASSUME BackgroundStop
      PROVE  TypeOK'
  BY <1>24 DEF BackgroundStop
<1>25. CASE UNCHANGED vars
  BY <1>25 DEF vars
<1>. QED
  BY <1>1, <1>2, <1>3, <1>4, <1>5, <1>6, <1>7, <1>8, <1>9, <1>10, <1>11,
     <1>12, <1>13, <1>14, <1>15, <1>16, <1>17, <1>18, <1>19, <1>20, <1>21,
     <1>22, <1>23, <1>24, <1>25 DEF Next, Step, BackgroundStep

(* A goroutine gets to a place only in a call that goes there.             *)
LEMMA CallsAtStep ==
    ASSUME TypeOK, CallsAt, [Next]_vars
    PROVE  CallsAt'
<1> USE DEF locks, clients, memory, disk, closing, history, At, NestedReads, CallsAt, Writing, Reading
<1>1. ASSUME NEW c \in Clients, NEW op \in Calls, Begin(c, op)
      PROVE  CallsAt'
  BY <1>1, CallAssumption DEF Begin, TypeOK, Docs
<1>2. ASSUME NEW c \in Clients, LockCollection(c)
      PROVE  CallsAt'
  BY <1>2, GotoDoes DEF LockCollection, TypeOK
<1>3. ASSUME NEW c \in Clients, NotFound(c)
      PROVE  CallsAt'
  BY <1>3, ReturnDoes DEF NotFound, UnlockCollection, OthersStay
<1>4. ASSUME NEW c \in Clients, LockWAL(c)
      PROVE  CallsAt'
  BY <1>4, GotoDoes DEF LockWAL, TypeOK
<1>5. ASSUME NEW c \in Clients, Append(c)
      PROVE  CallsAt'
  BY <1>5, GotoDoes DEF Append, TypeOK
<1>6. ASSUME NEW c \in Clients, AppendRefused(c)
      PROVE  CallsAt'
  BY <1>6, ReturnDoes DEF AppendRefused, UnlockCollection, OthersStay
<1>7. ASSUME NEW c \in Clients, LockIndex(c)
      PROVE  CallsAt'
  BY <1>7, GotoDoes DEF LockIndex, TypeOK
<1>8. ASSUME NEW c \in Clients, ChangeIndex(c)
      PROVE  CallsAt'
  BY <1>8, GotoDoes, ReturnDoes DEF ChangeIndex, OthersStay
<1>9. ASSUME NEW c \in Clients, Finish(c)
      PROVE  CallsAt'
  BY <1>9, ReturnDoes DEF Finish, UnlockCollection, OthersStay
<1>10. ASSUME NEW c \in Clients, RLockCollection(c)
      PROVE  CallsAt'
  BY <1>10, GotoDoes DEF RLockCollection, TypeOK
<1>11. ASSUME NEW c \in Clients, RLockIndex(c)
      PROVE  CallsAt'
  BY <1>11, GotoDoes DEF RLockIndex, TypeOK
<1>12. ASSUME NEW c \in Clients, NestedRLock(c)
      PROVE  CallsAt'
  BY <1>12, GotoDoes DEF NestedRLock, TypeOK
<1>13. ASSUME NEW c \in Clients, NestedRUnlock(c)
      PROVE  CallsAt'
  BY <1>13 DEF NestedRUnlock, TypeOK
<1>14. ASSUME NEW c \in Clients, LeaveIndex(c)
      PROVE  CallsAt'
  BY <1>14, ReturnDoes DEF LeaveIndex, TypeOK, OthersStay
<1>15. ASSUME NEW c \in Clients, RUnlockCollection(c)
      PROVE  CallsAt'
  BY <1>15, ReturnDoes DEF RUnlockCollection, OthersStay
<1>16. ASSUME NEW c \in Clients, Peek(c)
      PROVE  CallsAt'
  BY <1>16, ReturnDoes DEF Peek, OthersStay
<1>17. ASSUME NEW c \in Clients, StartClose(c)
      PROVE  CallsAt'
  BY <1>17, GotoDoes DEF StartClose, TypeOK
<1>18. ASSUME NEW c \in Clients, AwaitBackground(c)
      PROVE  CallsAt'
  BY <1>18, GotoDoes DEF AwaitBackground, TypeOK
<1>19. ASSUME NEW c \in Clients, Flush(c)
      PROVE  CallsAt'
  BY <1>19, ReturnDoes DEF Flush, OthersStay
<1>20. ASSUME NEW c \in Clients, CloseAgain(c)
      PROVE  CallsAt'
  BY <1>20, ReturnDoes DEF CloseAgain, OthersStay
<1>21. ASSUME Tick
      PROVE  CallsAt'
  BY <1>21 DEF Tick
<1>22. ASSUME BackgroundLock
      PROVE  CallsAt'
  BY <1>22 DEF BackgroundLock
<1>23. ASSUME BackgroundSync
      PROVE  CallsAt'
  BY <1>23 DEF BackgroundSync
<1>24. ASSUME BackgroundStop
      PROVE  CallsAt'
  BY <1>24 DEF BackgroundStop
<1>25. CASE UNCHANGED vars
  BY <1>25 DEF vars
<1>. QED
  BY <1>1, <1>2, <1>3, <1>4, <1>5, <1>6, <1>7, <1>8, <1>9, <1>10, <1>11,
     <1>12, <1>13, <1>14, <1>15, <1>16, <1>17, <1>18, <1>19, <1>20, <1>21,
     <1>22, <1>23, <1>24, <1>25 DEF Next, Step, BackgroundStep

(* c.mu is taken and given back where the goroutines go.                   *)
LEMMA CollectionLockStep ==
    ASSUME TypeOK, CallsAt, CollectionLock, [Next]_vars
    PROVE  CollectionLock'
<1> USE DEF locks, clients, memory, disk, closing, history, At, CollectionLock, Writing, Reading
<1>1. ASSUME NEW c \in Clients, NEW op \in Calls, Begin(c, op)
      PROVE  CollectionLock'
  BY <1>1, CallAssumption DEF Begin
<1>2. ASSUME NEW c \in Clients, LockCollection(c)
      PROVE  CollectionLock'
  <2>1. /\ cmu'.writer = c /\ cmu'.waiting = cmu.waiting /\ cmu'.reads = cmu.reads
        /\ cmu.writer = Nobody
    BY <1>2, LockDoes DEF LockCollection, TypeOK, RW!CanLock
  <2>2. pc'[c] = "append" /\ call'[c] = call[c] /\ OthersStay(c)
    BY <1>2, GotoDoes DEF LockCollection
  <2>. QED
    BY <1>2, <2>1, <2>2, NobodyApart DEF LockCollection, OthersStay, CallsAt
<1>3. ASSUME NEW c \in Clients, NotFound(c)
      PROVE  CollectionLock'
  BY <1>3, UnlockDoes, NobodyApart, ReturnDoes DEF NotFound,
     UnlockCollection, TypeOK, OthersStay
<1>4. ASSUME NEW c \in Clients, LockWAL(c)
      PROVE  CollectionLock'
  BY <1>4, GotoDoes DEF LockWAL, TypeOK, RW!MayWrite
<1>5. ASSUME NEW c \in Clients, Append(c)
      PROVE  CollectionLock'
  BY <1>5, GotoDoes DEF Append, TypeOK
<1>6. ASSUME NEW c \in Clients, AppendRefused(c)
      PROVE  CollectionLock'
  BY <1>6, UnlockDoes, NobodyApart, ReturnDoes DEF AppendRefused,
     UnlockCollection, TypeOK, OthersStay
<1>7. ASSUME NEW c \in Clients, LockIndex(c)
      PROVE  CollectionLock'
  BY <1>7, GotoDoes DEF LockIndex, OthersStay
<1>8. ASSUME NEW c \in Clients, ChangeIndex(c)
      PROVE  CollectionLock'
  BY <1>8, GotoDoes DEF ChangeIndex, TypeOK
<1>9. ASSUME NEW c \in Clients, Finish(c)
      PROVE  CollectionLock'
  BY <1>9, UnlockDoes, NobodyApart, ReturnDoes DEF Finish, UnlockCollection,
     TypeOK, OthersStay
<1>10. ASSUME NEW c \in Clients, RLockCollection(c)
      PROVE  CollectionLock'
  <2>1. /\ cmu'.writer = cmu.writer
        /\ cmu.writer = Nobody =>
              cmu'.waiting = cmu.waiting /\ cmu'.reads[c] = cmu.reads[c] + 1
        /\ cmu.writer # Nobody =>
              cmu'.waiting = cmu.waiting \cup {c} /\ cmu'.reads[c] = cmu.reads[c]
        /\ \A d \in Clients \ {c} : cmu'.reads[d] = cmu.reads[d]
    BY <1>10, RLockDoes DEF RLockCollection, TypeOK
  <2>2. /\ pc'[c] = IF call[c] = "search" THEN "indexRLock" ELSE "translate"
        /\ call'[c] = call[c] /\ OthersStay(c)
    BY <1>10, GotoDoes DEF RLockCollection
  <2>3. pc[c] = "rlock" /\ call[c] \in {"search", "get"} /\ ThroughCollection
    BY <1>10 DEF RLockCollection, CallsAt
  <2>4. cmu.reads[c] = 0 /\ c \notin cmu.waiting
    BY <2>3
  <2>5. cmu.writer = Nobody =>
           \A d \in Clients : ~(ThroughCollection /\ pc[d] \in Writing)
    BY NobodyApart
  <2>6. cmu.writer # Nobody => cmu'.reads[c] = 0 /\ c \in cmu'.waiting
    BY <2>1, <2>4
  <2>7. cmu.writer = Nobody => cmu'.reads[c] = 1 /\ c \notin cmu'.waiting
    BY <2>1, <2>4
  <2>8. CASE cmu.writer = Nobody
    <3>1. cmu'.writer = Nobody /\ cmu'.waiting = cmu.waiting
      BY <2>1, <2>8
    <3>2. \A d \in Clients \ {c} :
             /\ pc'[d] = pc[d] /\ call'[d] = call[d]
             /\ cmu'.reads[d] = cmu.reads[d]
      BY <2>1, <2>2 DEF OthersStay
    <3>. QED
      BY <2>2, <2>3, <2>5, <2>7, <2>8, <3>1, <3>2
  <2>9. CASE cmu.writer # Nobody
    BY <2>1, <2>2, <2>3, <2>6, <2>9 DEF OthersStay
  <2>. QED
    BY <2>8, <2>9
<1>11. ASSUME NEW c \in Clients, RLockIndex(c)
      PROVE  CollectionLock'
  <2>1. /\ pc[c] = "indexRLock" /\ pc'[c] = "scan" /\ call'[c] = call[c]
        /\ cmu' = cmu /\ c \notin cmu.waiting /\ OthersStay(c)
    BY <1>11, GotoDoes DEF RLockIndex, RW!MayRead
  <2>. QED
    BY <2>1 DEF OthersStay
<1>12. ASSUME NEW c \in Clients, NestedRLock(c)
      PROVE  CollectionLock'
  BY <1>12, GotoDoes DEF NestedRLock, OthersStay
<1>13. ASSUME NEW c \in Clients, NestedRUnlock(c)
      PROVE  CollectionLock'
  BY <1>13 DEF NestedRUnlock
<1>14. ASSUME NEW c \in Clients, LeaveIndex(c)
      PROVE  CollectionLock'
  BY <1>14 DEF LeaveIndex, TypeOK
<1>15. ASSUME NEW c \in Clients, RUnlockCollection(c)
      PROVE  CollectionLock'
  BY <1>15, RUnlockDoes, ReturnDoes DEF RUnlockCollection, TypeOK,
     OthersStay, CallsAt, RW!MayRead
<1>16. ASSUME NEW c \in Clients, Peek(c)
      PROVE  CollectionLock'
  BY <1>16, ReturnDoes DEF Peek, OthersStay
<1>17. ASSUME NEW c \in Clients, StartClose(c)
      PROVE  CollectionLock'
  BY <1>17, GotoDoes DEF StartClose, TypeOK
<1>18. ASSUME NEW c \in Clients, AwaitBackground(c)
      PROVE  CollectionLock'
  BY <1>18, GotoDoes DEF AwaitBackground, TypeOK
<1>19. ASSUME NEW c \in Clients, Flush(c)
      PROVE  CollectionLock'
  BY <1>19, ReturnDoes DEF Flush, OthersStay
<1>20. ASSUME NEW c \in Clients, CloseAgain(c)
      PROVE  CollectionLock'
  BY <1>20, ReturnDoes DEF CloseAgain, OthersStay
<1>21. ASSUME Tick
      PROVE  CollectionLock'
  BY <1>21 DEF Tick
<1>22. ASSUME BackgroundLock
      PROVE  CollectionLock'
  BY <1>22 DEF BackgroundLock
<1>23. ASSUME BackgroundSync
      PROVE  CollectionLock'
  BY <1>23 DEF BackgroundSync
<1>24. ASSUME BackgroundStop
      PROVE  CollectionLock'
  BY <1>24 DEF BackgroundStop
<1>25. CASE UNCHANGED vars
  BY <1>25 DEF vars
<1>. QED
  BY <1>1, <1>2, <1>3, <1>4, <1>5, <1>6, <1>7, <1>8, <1>9, <1>10, <1>11,
     <1>12, <1>13, <1>14, <1>15, <1>16, <1>17, <1>18, <1>19, <1>20, <1>21,
     <1>22, <1>23, <1>24, <1>25 DEF Next, Step, BackgroundStep

(* li.mu likewise.                                                         *)
LEMMA IndexLockStep ==
    ASSUME TypeOK, CallsAt, IndexLock, [Next]_vars
    PROVE  IndexLock'
<1> USE DEF locks, clients, memory, disk, closing, history, At, IndexLock
<1>1. ASSUME NEW c \in Clients, NEW op \in Calls, Begin(c, op)
      PROVE  IndexLock'
  BY <1>1, CallAssumption DEF Begin
<1>2. ASSUME NEW c \in Clients, LockCollection(c)
      PROVE  IndexLock'
  BY <1>2, LockDoes, NobodyApart, GotoDoes, ReturnDoes DEF LockCollection,
     UnlockCollection, TypeOK, OthersStay, CallsAt, RW!CanLock, RW!MayRead,
     RW!MayWrite
<1>3. ASSUME NEW c \in Clients, NotFound(c)
      PROVE  IndexLock'
  BY <1>3, ReturnDoes DEF NotFound, UnlockCollection, OthersStay
<1>4. ASSUME NEW c \in Clients, LockWAL(c)
      PROVE  IndexLock'
  BY <1>4, GotoDoes DEF LockWAL, TypeOK
<1>5. ASSUME NEW c \in Clients, Append(c)
      PROVE  IndexLock'
  BY <1>5, GotoDoes DEF Append, TypeOK
<1>6. ASSUME NEW c \in Clients, AppendRefused(c)
      PROVE  IndexLock'
  BY <1>6, ReturnDoes DEF AppendRefused, UnlockCollection, OthersStay
<1>7. ASSUME NEW c \in Clients, LockIndex(c)
      PROVE  IndexLock'
  <2>1. /\ limu'.writer = c /\ limu'.waiting = limu.waiting
        /\ limu'.reads = limu.reads /\ limu.writer = Nobody
    BY <1>7, LockDoes DEF LockIndex, TypeOK, RW!CanLock
  <2>2. pc'[c] = "index" /\ OthersStay(c)
    BY <1>7, GotoDoes DEF LockIndex
  <2>. QED
    BY <1>7, <2>1, <2>2, NobodyApart DEF LockIndex, OthersStay
<1>8. ASSUME NEW c \in Clients, ChangeIndex(c)
      PROVE  IndexLock'
  BY <1>8, UnlockDoes, NobodyApart, GotoDoes, ReturnDoes DEF ChangeIndex,
     TypeOK, OthersStay
<1>9. ASSUME NEW c \in Clients, Finish(c)
      PROVE  IndexLock'
  BY <1>9, ReturnDoes DEF Finish, UnlockCollection, OthersStay
<1>10. ASSUME NEW c \in Clients, RLockCollection(c)
      PROVE  IndexLock'
  BY <1>10, GotoDoes DEF RLockCollection, OthersStay, CallsAt
<1>11. ASSUME NEW c \in Clients, RLockIndex(c)
      PROVE  IndexLock'
  <2>1. /\ limu'.writer = limu.writer
        /\ limu.writer = Nobody =>
              limu'.waiting = limu.waiting /\ limu'.reads[c] = limu.reads[c] + 1
        /\ limu.writer # Nobody =>
              limu'.waiting = limu.waiting \cup {c} /\ limu'.reads[c] = limu.reads[c]
        /\ \A d \in Clients \ {c} : limu'.reads[d] = limu.reads[d]
    BY <1>11, RLockDoes DEF RLockIndex, TypeOK
  <2>2. pc[c] = "indexRLock" /\ pc'[c] = "scan" /\ OthersStay(c)
    BY <1>11, GotoDoes DEF RLockIndex
  <2>3. c \notin limu.waiting
    BY <1>11 DEF RLockIndex
  <2>. QED
    BY <2>1, <2>2 DEF OthersStay
<1>12. ASSUME NEW c \in Clients, NestedRLock(c)
      PROVE  IndexLock'
  <2>1. /\ limu'.writer = limu.writer
        /\ limu.writer = Nobody =>
              limu'.waiting = limu.waiting /\ limu'.reads[c] = limu.reads[c] + 1
        /\ limu.writer # Nobody =>
              limu'.waiting = limu.waiting \cup {c} /\ limu'.reads[c] = limu.reads[c]
        /\ \A d \in Clients \ {c} : limu'.reads[d] = limu.reads[d]
    BY <1>12, RLockDoes DEF NestedRLock, TypeOK
  <2>2. pc[c] = "scan" /\ pc'[c] = "nested" /\ OthersStay(c)
    BY <1>12, GotoDoes DEF NestedRLock
  <2>3. c \notin limu.waiting
    BY <1>12 DEF NestedRLock, RW!MayRead
  <2>. QED
    BY <2>1, <2>2, <2>3 DEF OthersStay
<1>13. ASSUME NEW c \in Clients, NestedRUnlock(c)
      PROVE  IndexLock'
  BY <1>13, RUnlockDoes DEF NestedRUnlock, TypeOK
<1>14. ASSUME NEW c \in Clients, LeaveIndex(c)
      PROVE  IndexLock'
  BY <1>14, RUnlockDoes, ReturnDoes DEF LeaveIndex, TypeOK, OthersStay,
     RW!MayRead
<1>15. ASSUME NEW c \in Clients, RUnlockCollection(c)
      PROVE  IndexLock'
  BY <1>15, ReturnDoes DEF RUnlockCollection, OthersStay
<1>16. ASSUME NEW c \in Clients, Peek(c)
      PROVE  IndexLock'
  BY <1>16, ReturnDoes DEF Peek, OthersStay
<1>17. ASSUME NEW c \in Clients, StartClose(c)
      PROVE  IndexLock'
  BY <1>17, GotoDoes DEF StartClose, TypeOK
<1>18. ASSUME NEW c \in Clients, AwaitBackground(c)
      PROVE  IndexLock'
  BY <1>18, GotoDoes DEF AwaitBackground, TypeOK
<1>19. ASSUME NEW c \in Clients, Flush(c)
      PROVE  IndexLock'
  BY <1>19, ReturnDoes DEF Flush, OthersStay
<1>20. ASSUME NEW c \in Clients, CloseAgain(c)
      PROVE  IndexLock'
  BY <1>20, ReturnDoes DEF CloseAgain, OthersStay
<1>21. ASSUME Tick
      PROVE  IndexLock'
  BY <1>21 DEF Tick
<1>22. ASSUME BackgroundLock
      PROVE  IndexLock'
  BY <1>22 DEF BackgroundLock
<1>23. ASSUME BackgroundSync
      PROVE  IndexLock'
  BY <1>23 DEF BackgroundSync
<1>24. ASSUME BackgroundStop
      PROVE  IndexLock'
  BY <1>24 DEF BackgroundStop
<1>25. CASE UNCHANGED vars
  BY <1>25 DEF vars
<1>. QED
  BY <1>1, <1>2, <1>3, <1>4, <1>5, <1>6, <1>7, <1>8, <1>9, <1>10, <1>11,
     <1>12, <1>13, <1>14, <1>15, <1>16, <1>17, <1>18, <1>19, <1>20, <1>21,
     <1>22, <1>23, <1>24, <1>25 DEF Next, Step, BackgroundStep

(* wal.mu likewise.                                                        *)
LEMMA LogLockStep ==
    ASSUME TypeOK, CallsAt, LogLock, [Next]_vars
    PROVE  LogLock'
<1> USE DEF locks, clients, memory, disk, closing, history, At, LogLock
<1>1. ASSUME NEW c \in Clients, NEW op \in Calls, Begin(c, op)
      PROVE  LogLock'
  BY <1>1, CallAssumption DEF Begin
<1>2. ASSUME NEW c \in Clients, LockCollection(c)
      PROVE  LogLock'
  BY <1>2, GotoDoes DEF LockCollection, TypeOK
<1>3. ASSUME NEW c \in Clients, NotFound(c)
      PROVE  LogLock'
  BY <1>3, ReturnDoes DEF NotFound, UnlockCollection, OthersStay
<1>4. ASSUME NEW c \in Clients, LockWAL(c)
      PROVE  LogLock'
  BY <1>4, NobodyApart, GotoDoes DEF LockWAL, TypeOK
<1>5. ASSUME NEW c \in Clients, Append(c)
      PROVE  LogLock'
  BY <1>5, NobodyApart, GotoDoes DEF Append, TypeOK
<1>6. ASSUME NEW c \in Clients, AppendRefused(c)
      PROVE  LogLock'
  BY <1>6, NobodyApart, ReturnDoes DEF AppendRefused, UnlockCollection,
     OthersStay
<1>7. ASSUME NEW c \in Clients, LockIndex(c)
      PROVE  LogLock'
  BY <1>7, GotoDoes DEF LockIndex, TypeOK
<1>8. ASSUME NEW c \in Clients, ChangeIndex(c)
      PROVE  LogLock'
  BY <1>8, GotoDoes, ReturnDoes DEF ChangeIndex, OthersStay
<1>9. ASSUME NEW c \in Clients, Finish(c)
      PROVE  LogLock'
  BY <1>9, ReturnDoes DEF Finish, UnlockCollection, OthersStay
<1>10. ASSUME NEW c \in Clients, RLockCollection(c)
      PROVE  LogLock'
  BY <1>10, GotoDoes DEF RLockCollection, TypeOK
<1>11. ASSUME NEW c \in Clients, RLockIndex(c)
      PROVE  LogLock'
  BY <1>11, GotoDoes DEF RLockIndex, TypeOK
<1>12. ASSUME NEW c \in Clients, NestedRLock(c)
      PROVE  LogLock'
  BY <1>12, GotoDoes DEF NestedRLock, TypeOK
<1>13. ASSUME NEW c \in Clients, NestedRUnlock(c)
      PROVE  LogLock'
  BY <1>13 DEF NestedRUnlock
<1>14. ASSUME NEW c \in Clients, LeaveIndex(c)
      PROVE  LogLock'
  BY <1>14, ReturnDoes DEF LeaveIndex, TypeOK, OthersStay
<1>15. ASSUME NEW c \in Clients, RUnlockCollection(c)
      PROVE  LogLock'
  BY <1>15, ReturnDoes DEF RUnlockCollection, OthersStay
<1>16. ASSUME NEW c \in Clients, Peek(c)
      PROVE  LogLock'
  BY <1>16, ReturnDoes DEF Peek, OthersStay
<1>17. ASSUME NEW c \in Clients, StartClose(c)
      PROVE  LogLock'
  BY <1>17, GotoDoes DEF StartClose, TypeOK
<1>18. ASSUME NEW c \in Clients, AwaitBackground(c)
      PROVE  LogLock'
  BY <1>18, NobodyApart, GotoDoes DEF AwaitBackground, TypeOK
<1>19. ASSUME NEW c \in Clients, Flush(c)
      PROVE  LogLock'
  BY <1>19, NobodyApart, ReturnDoes DEF Flush, OthersStay
<1>20. ASSUME NEW c \in Clients, CloseAgain(c)
      PROVE  LogLock'
  BY <1>20, ReturnDoes DEF CloseAgain, OthersStay
<1>21. ASSUME Tick
      PROVE  LogLock'
  BY <1>21 DEF Tick
<1>22. ASSUME BackgroundLock
      PROVE  LogLock'
  BY <1>22, NobodyApart DEF BackgroundLock
<1>23. ASSUME BackgroundSync
      PROVE  LogLock'
  BY <1>23, NobodyApart DEF BackgroundSync
<1>24. ASSUME BackgroundStop
      PROVE  LogLock'
  BY <1>24 DEF BackgroundStop
<1>25. CASE UNCHANGED vars
  BY <1>25 DEF vars
<1>. QED
  BY <1>1, <1>2, <1>3, <1>4, <1>5, <1>6, <1>7, <1>8, <1>9, <1>10, <1>11,
     <1>12, <1>13, <1>14, <1>15, <1>16, <1>17, <1>18, <1>19, <1>20, <1>21,
     <1>22, <1>23, <1>24, <1>25 DEF Next, Step, BackgroundStep

(* Close goes its way once.                                                *)
LEMMA ClosingStep ==
    ASSUME TypeOK, LogLock, Closing, [Next]_vars
    PROVE  Closing'
<1> USE DEF locks, clients, memory, disk, closing, history, At, Closing
<1>1. ASSUME NEW c \in Clients, NEW op \in Calls, Begin(c, op)
      PROVE  Closing'
  BY <1>1, CallAssumption DEF Begin
<1>2. ASSUME NEW c \in Clients, LockCollection(c)
      PROVE  Closing'
  BY <1>2, GotoDoes DEF LockCollection, TypeOK
<1>3. ASSUME NEW c \in Clients, NotFound(c)
      PROVE  Closing'
  BY <1>3, ReturnDoes DEF NotFound, UnlockCollection, OthersStay
<1>4. ASSUME NEW c \in Clients, LockWAL(c)
      PROVE  Closing'
  BY <1>4, GotoDoes DEF LockWAL, TypeOK
<1>5. ASSUME NEW c \in Clients, Append(c)
      PROVE  Closing'
  BY <1>5, GotoDoes DEF Append, TypeOK
<1>6. ASSUME NEW c \in Clients, AppendRefused(c)
      PROVE  Closing'
  BY <1>6, ReturnDoes DEF AppendRefused, UnlockCollection, OthersStay
<1>7. ASSUME NEW c \in Clients, LockIndex(c)
      PROVE  Closing'
  BY <1>7, GotoDoes DEF LockIndex, TypeOK
<1>8. ASSUME NEW c \in Clients, ChangeIndex(c)
      PROVE  Closing'
  BY <1>8, GotoDoes, ReturnDoes DEF ChangeIndex, OthersStay
<1>9. ASSUME NEW c \in Clients, Finish(c)
      PROVE  Closing'
  BY <1>9, ReturnDoes DEF Finish, UnlockCollection, OthersStay
<1>10. ASSUME NEW c \in Clients, RLockCollection(c)
      PROVE  Closing'
  BY <1>10, GotoDoes DEF RLockCollection, TypeOK
<1>11. ASSUME NEW c \in Clients, RLockIndex(c)
      PROVE  Closing'
  BY <1>11, GotoDoes DEF RLockIndex, TypeOK
<1>12. ASSUME NEW c \in Clients, NestedRLock(c)
      PROVE  Closing'
  BY <1>12, GotoDoes DEF NestedRLock, TypeOK
<1>13. ASSUME NEW c \in Clients, NestedRUnlock(c)
      PROVE  Closing'
  BY <1>13 DEF NestedRUnlock
<1>14. ASSUME NEW c \in Clients, LeaveIndex(c)
      PROVE  Closing'
  BY <1>14, ReturnDoes DEF LeaveIndex, TypeOK, OthersStay
<1>15. ASSUME NEW c \in Clients, RUnlockCollection(c)
      PROVE  Closing'
  BY <1>15, ReturnDoes DEF RUnlockCollection, OthersStay
<1>16. ASSUME NEW c \in Clients, Peek(c)
      PROVE  Closing'
  BY <1>16, ReturnDoes DEF Peek, OthersStay
<1>17. ASSUME NEW c \in Clients, StartClose(c)
      PROVE  Closing'
  BY <1>17, GotoDoes DEF StartClose, TypeOK
<1>18. ASSUME NEW c \in Clients, AwaitBackground(c)
      PROVE  Closing'
  BY <1>18, GotoDoes DEF AwaitBackground, TypeOK
<1>19. ASSUME NEW c \in Clients, Flush(c)
      PROVE  Closing'
  BY <1>19, ReturnDoes DEF Flush, Active, OthersStay
<1>20. ASSUME NEW c \in Clients, CloseAgain(c)
      PROVE  Closing'
  BY <1>20, ReturnDoes DEF CloseAgain, OthersStay
<1>21. ASSUME Tick
      PROVE  Closing'
  BY <1>21 DEF Tick
<1>22. ASSUME BackgroundLock
      PROVE  Closing'
  BY <1>22 DEF BackgroundLock
<1>23. ASSUME BackgroundSync
      PROVE  Closing'
  BY <1>23 DEF BackgroundSync
<1>24. ASSUME BackgroundStop
      PROVE  Closing'
  BY <1>24 DEF BackgroundStop
<1>25. CASE UNCHANGED vars
  BY <1>25 DEF vars
<1>. QED
  BY <1>1, <1>2, <1>3, <1>4, <1>5, <1>6, <1>7, <1>8, <1>9, <1>10, <1>11,
     <1>12, <1>13, <1>14, <1>15, <1>16, <1>17, <1>18, <1>19, <1>20, <1>21,
     <1>22, <1>23, <1>24, <1>25 DEF Next, Step, BackgroundStep

(* Records stay in the log.                                                *)
LEMMA LoggedStep ==
    ASSUME TypeOK, CallsAt, Logged, [Next]_vars
    PROVE  Logged'
<1> USE DEF locks, clients, memory, disk, closing, history, At, Logged
<1>1. ASSUME NEW c \in Clients, NEW op \in Calls, Begin(c, op)
      PROVE  Logged'
  BY <1>1, CallAssumption DEF Begin, TypeOK
<1>2. ASSUME NEW c \in Clients, LockCollection(c)
      PROVE  Logged'
  BY <1>2, GotoDoes DEF LockCollection, TypeOK
<1>3. ASSUME NEW c \in Clients, NotFound(c)
      PROVE  Logged'
  BY <1>3, ReturnDoes DEF NotFound, UnlockCollection, OthersStay
<1>4. ASSUME NEW c \in Clients, LockWAL(c)
      PROVE  Logged'
  BY <1>4, GotoDoes DEF LockWAL, TypeOK
<1>5. ASSUME NEW c \in Clients, Append(c)
      PROVE  Logged'
  BY <1>5, GotoDoes DEF Append, TypeOK
<1>6. ASSUME NEW c \in Clients, AppendRefused(c)
      PROVE  Logged'
  BY <1>6, ReturnDoes DEF AppendRefused, UnlockCollection, OthersStay
<1>7. ASSUME NEW c \in Clients, LockIndex(c)
      PROVE  Logged'
  BY <1>7, GotoDoes DEF LockIndex, TypeOK
<1>8. ASSUME NEW c \in Clients, ChangeIndex(c)
      PROVE  Logged'
  BY <1>8, GotoDoes DEF ChangeIndex, TypeOK
<1>9. ASSUME NEW c \in Clients, Finish(c)
      PROVE  Logged'
  BY <1>9, ReturnDoes DEF Finish, UnlockCollection, OthersStay
<1>10. ASSUME NEW c \in Clients, RLockCollection(c)
      PROVE  Logged'
  BY <1>10, GotoDoes DEF RLockCollection, TypeOK
<1>11. ASSUME NEW c \in Clients, RLockIndex(c)
      PROVE  Logged'
  BY <1>11, GotoDoes DEF RLockIndex, TypeOK
<1>12. ASSUME NEW c \in Clients, NestedRLock(c)
      PROVE  Logged'
  BY <1>12, GotoDoes DEF NestedRLock, TypeOK
<1>13. ASSUME NEW c \in Clients, NestedRUnlock(c)
      PROVE  Logged'
  BY <1>13 DEF NestedRUnlock
<1>14. ASSUME NEW c \in Clients, LeaveIndex(c)
      PROVE  Logged'
  BY <1>14 DEF LeaveIndex, TypeOK
<1>15. ASSUME NEW c \in Clients, RUnlockCollection(c)
      PROVE  Logged'
  BY <1>15, ReturnDoes DEF RUnlockCollection, OthersStay
<1>16. ASSUME NEW c \in Clients, Peek(c)
      PROVE  Logged'
  BY <1>16, ReturnDoes DEF Peek, OthersStay
<1>17. ASSUME NEW c \in Clients, StartClose(c)
      PROVE  Logged'
  BY <1>17, GotoDoes DEF StartClose, TypeOK
<1>18. ASSUME NEW c \in Clients, AwaitBackground(c)
      PROVE  Logged'
  BY <1>18, GotoDoes DEF AwaitBackground, TypeOK
<1>19. ASSUME NEW c \in Clients, Flush(c)
      PROVE  Logged'
  BY <1>19, ReturnDoes DEF Flush, OthersStay
<1>20. ASSUME NEW c \in Clients, CloseAgain(c)
      PROVE  Logged'
  BY <1>20, ReturnDoes DEF CloseAgain, OthersStay
<1>21. ASSUME Tick
      PROVE  Logged'
  BY <1>21 DEF Tick
<1>22. ASSUME BackgroundLock
      PROVE  Logged'
  BY <1>22 DEF BackgroundLock
<1>23. ASSUME BackgroundSync
      PROVE  Logged'
  BY <1>23 DEF BackgroundSync
<1>24. ASSUME BackgroundStop
      PROVE  Logged'
  BY <1>24 DEF BackgroundStop
<1>25. CASE UNCHANGED vars
  BY <1>25 DEF vars
<1>. QED
  BY <1>1, <1>2, <1>3, <1>4, <1>5, <1>6, <1>7, <1>8, <1>9, <1>10, <1>11,
     <1>12, <1>13, <1>14, <1>15, <1>16, <1>17, <1>18, <1>19, <1>20, <1>21,
     <1>22, <1>23, <1>24, <1>25 DEF Next, Step, BackgroundStep

(* One writer at a time changes the index, then the maps.                  *)
LEMMA IndexIsIdsStep ==
    ASSUME TypeOK, CallsAt, CollectionLock, IndexIsIds, [Next]_vars
    PROVE  IndexIsIds'
<1> USE DEF locks, clients, memory, disk, closing, history, At, IndexIsIds, After
<1>1. ASSUME NEW c \in Clients, NEW op \in Calls, Begin(c, op)
      PROVE  IndexIsIds'
  BY <1>1, CallAssumption DEF Begin, TypeOK
<1>2. ASSUME NEW c \in Clients, LockCollection(c)
      PROVE  IndexIsIds'
  BY <1>2, GotoDoes DEF LockCollection, TypeOK
<1>3. ASSUME NEW c \in Clients, NotFound(c)
      PROVE  IndexIsIds'
  BY <1>3, ReturnDoes DEF NotFound, UnlockCollection, OthersStay
<1>4. ASSUME NEW c \in Clients, LockWAL(c)
      PROVE  IndexIsIds'
  BY <1>4, GotoDoes DEF LockWAL, TypeOK
<1>5. ASSUME NEW c \in Clients, Append(c)
      PROVE  IndexIsIds'
  BY <1>5, GotoDoes DEF Append, TypeOK
<1>6. ASSUME NEW c \in Clients, AppendRefused(c)
      PROVE  IndexIsIds'
  BY <1>6, ReturnDoes DEF AppendRefused, UnlockCollection, OthersStay
<1>7. ASSUME NEW c \in Clients, LockIndex(c)
      PROVE  IndexIsIds'
  BY <1>7, GotoDoes DEF LockIndex, TypeOK
<1>8. ASSUME NEW c \in Clients, ChangeIndex(c)
      PROVE  IndexIsIds'
  <2>1. CASE ThroughCollection
    <3>1. pc[c] = "index" /\ pc'[c] = "finish" /\ call'[c] = call[c]
          /\ doc'[c] = doc[c] /\ OthersStay(c)
      BY <1>8, <2>1, GotoDoes DEF ChangeIndex
    <3>2. \A d \in Clients \ {c} : pc[d] # "finish"
      BY <2>1, <3>1 DEF CollectionLock, Writing
    <3>3. index = ids /\ ids' = ids
      BY <1>8, <2>1, <3>2 DEF ChangeIndex
    <3>4. index' = After(c, index)
      BY <1>8 DEF ChangeIndex
    <3>5. \A d \in Clients : pc'[d] = "finish" => d = c
      BY <3>1, <3>2 DEF OthersStay
    <3>6. index' = After(c, ids)' /\ pc'[c] = "finish"
      BY <3>1, <3>3, <3>4
    <3>. QED
      BY <3>5, <3>6
  <2>. QED
    BY <2>1
<1>9. ASSUME NEW c \in Clients, Finish(c)
      PROVE  IndexIsIds'
  BY <1>9, ReturnDoes DEF Finish, UnlockCollection, OthersStay
<1>10. ASSUME NEW c \in Clients, RLockCollection(c)
      PROVE  IndexIsIds'
  BY <1>10, GotoDoes DEF RLockCollection, TypeOK
<1>11. ASSUME NEW c \in Clients, RLockIndex(c)
      PROVE  IndexIsIds'
  BY <1>11, GotoDoes DEF RLockIndex, TypeOK
<1>12. ASSUME NEW c \in Clients, NestedRLock(c)
      PROVE  IndexIsIds'
  BY <1>12, GotoDoes DEF NestedRLock, TypeOK
<1>13. ASSUME NEW c \in Clients, NestedRUnlock(c)
      PROVE  IndexIsIds'
  BY <1>13 DEF NestedRUnlock
<1>14. ASSUME NEW c \in Clients, LeaveIndex(c)
      PROVE  IndexIsIds'
  BY <1>14 DEF LeaveIndex, TypeOK
<1>15. ASSUME NEW c \in Clients, RUnlockCollection(c)
      PROVE  IndexIsIds'
  BY <1>15, ReturnDoes DEF RUnlockCollection, OthersStay
<1>16. ASSUME NEW c \in Clients, Peek(c)
      PROVE  IndexIsIds'
  BY <1>16, ReturnDoes DEF Peek, OthersStay
<1>17. ASSUME NEW c \in Clients, StartClose(c)
      PROVE  IndexIsIds'
  BY <1>17, GotoDoes DEF StartClose, TypeOK
<1>18. ASSUME NEW c \in Clients, AwaitBackground(c)
      PROVE  IndexIsIds'
  BY <1>18, GotoDoes DEF AwaitBackground, TypeOK
<1>19. ASSUME NEW c \in Clients, Flush(c)
      PROVE  IndexIsIds'
  BY <1>19, ReturnDoes DEF Flush, OthersStay
<1>20. ASSUME NEW c \in Clients, CloseAgain(c)
      PROVE  IndexIsIds'
  BY <1>20, ReturnDoes DEF CloseAgain, OthersStay
<1>21. ASSUME Tick
      PROVE  IndexIsIds'
  BY <1>21 DEF Tick
<1>22. ASSUME BackgroundLock
      PROVE  IndexIsIds'
  BY <1>22 DEF BackgroundLock
<1>23. ASSUME BackgroundSync
      PROVE  IndexIsIds'
  BY <1>23 DEF BackgroundSync
<1>24. ASSUME BackgroundStop
      PROVE  IndexIsIds'
  BY <1>24 DEF BackgroundStop
<1>25. CASE UNCHANGED vars
  BY <1>25 DEF vars
<1>. QED
  BY <1>1, <1>2, <1>3, <1>4, <1>5, <1>6, <1>7, <1>8, <1>9, <1>10, <1>11,
     <1>12, <1>13, <1>14, <1>15, <1>16, <1>17, <1>18, <1>19, <1>20, <1>21,
     <1>22, <1>23, <1>24, <1>25 DEF Next, Step, BackgroundStep

(* Between the answer and its translation no writer gets c.mu.             *)
LEMMA AnsweredStep ==
    ASSUME TypeOK, CallsAt, CollectionLock, IndexIsIds, Answered, [Next]_vars
    PROVE  Answered'
<1> USE DEF locks, clients, memory, disk, closing, history, At, Answered
<1>1. ASSUME NEW c \in Clients, NEW op \in Calls, Begin(c, op)
      PROVE  Answered'
  BY <1>1, CallAssumption DEF Begin
<1>2. ASSUME NEW c \in Clients, LockCollection(c)
      PROVE  Answered'
  BY <1>2, GotoDoes DEF LockCollection, OthersStay
<1>3. ASSUME NEW c \in Clients, NotFound(c)
      PROVE  Answered'
  BY <1>3, ReturnDoes DEF NotFound, UnlockCollection, OthersStay
<1>4. ASSUME NEW c \in Clients, LockWAL(c)
      PROVE  Answered'
  BY <1>4, GotoDoes DEF LockWAL, TypeOK
<1>5. ASSUME NEW c \in Clients, Append(c)
      PROVE  Answered'
  BY <1>5, GotoDoes DEF Append, TypeOK
<1>6. ASSUME NEW c \in Clients, AppendRefused(c)
      PROVE  Answered'
  BY <1>6, ReturnDoes DEF AppendRefused, UnlockCollection, OthersStay
<1>7. ASSUME NEW c \in Clients, LockIndex(c)
      PROVE  Answered'
  BY <1>7, GotoDoes DEF LockIndex, TypeOK, CallsAt, IndexIsIds
<1>8. ASSUME NEW c \in Clients, ChangeIndex(c)
      PROVE  Answered'
  BY <1>8, GotoDoes, ReturnDoes DEF ChangeIndex, OthersStay
<1>9. ASSUME NEW c \in Clients, Finish(c)
      PROVE  Answered'
  BY <1>9, ReturnDoes DEF Finish, UnlockCollection, OthersStay, CallsAt,
     CollectionLock, Reading, Writing
<1>10. ASSUME NEW c \in Clients, RLockCollection(c)
      PROVE  Answered'
  <2>1. /\ pc'[c] = IF call[c] = "search" THEN "indexRLock" ELSE "translate"
        /\ call'[c] = call[c] /\ OthersStay(c)
    BY <1>10, GotoDoes DEF RLockCollection
  <2>. QED
    BY <1>10, <2>1 DEF RLockCollection, OthersStay
<1>11. ASSUME NEW c \in Clients, RLockIndex(c)
      PROVE  Answered'
  BY <1>11, GotoDoes DEF RLockIndex, TypeOK, CallsAt, IndexIsIds
<1>12. ASSUME NEW c \in Clients, NestedRLock(c)
      PROVE  Answered'
  BY <1>12, GotoDoes DEF NestedRLock, TypeOK, CallsAt, IndexIsIds
<1>13. ASSUME NEW c \in Clients, NestedRUnlock(c)
      PROVE  Answered'
  BY <1>13 DEF NestedRUnlock
<1>14. ASSUME NEW c \in Clients, LeaveIndex(c)
      PROVE  Answered'
  BY <1>14, ReturnDoes DEF LeaveIndex, TypeOK, OthersStay, CollectionLock,
     IndexIsIds, Reading, Writing
<1>15. ASSUME NEW c \in Clients, RUnlockCollection(c)
      PROVE  Answered'
  BY <1>15, ReturnDoes DEF RUnlockCollection, OthersStay
<1>16. ASSUME NEW c \in Clients, Peek(c)
      PROVE  Answered'
  BY <1>16, ReturnDoes DEF Peek, OthersStay
<1>17. ASSUME NEW c \in Clients, StartClose(c)
      PROVE  Answered'
  BY <1>17, GotoDoes DEF StartClose, TypeOK
<1>18. ASSUME NEW c \in Clients, AwaitBackground(c)
      PROVE  Answered'
  BY <1>18, GotoDoes DEF AwaitBackground, TypeOK
<1>19. ASSUME NEW c \in Clients, Flush(c)
      PROVE  Answered'
  BY <1>19, ReturnDoes DEF Flush, OthersStay
<1>20. ASSUME NEW c \in Clients, CloseAgain(c)
      PROVE  Answered'
  BY <1>20, ReturnDoes DEF CloseAgain, OthersStay
<1>21. ASSUME Tick
      PROVE  Answered'
  BY <1>21 DEF Tick
<1>22. ASSUME BackgroundLock
      PROVE  Answered'
  BY <1>22 DEF BackgroundLock
<1>23. ASSUME BackgroundSync
      PROVE  Answered'
  BY <1>23 DEF BackgroundSync
<1>24. ASSUME BackgroundStop
      PROVE  Answered'
  BY <1>24 DEF BackgroundStop
<1>25. CASE UNCHANGED vars
  BY <1>25 DEF vars
<1>. QED
  BY <1>1, <1>2, <1>3, <1>4, <1>5, <1>6, <1>7, <1>8, <1>9, <1>10, <1>11,
     <1>12, <1>13, <1>14, <1>15, <1>16, <1>17, <1>18, <1>19, <1>20, <1>21,
     <1>22, <1>23, <1>24, <1>25 DEF Next, Step, BackgroundStep

-----------------------------------------------------------------------------
(* The theorems.                                                           *)

LEMMA InvInit == Init => IInv
<1> SUFFICES ASSUME Init PROVE IInv
  OBVIOUS
<1>1. \A c \in Clients : pc[c] = "idle" /\ call[c] = "none"
  BY DEF Init
<1>2. CallsAt /\ Logged /\ Answered
  BY <1>1 DEF CallsAt, Logged, Answered, Writing, Reading
<1>3. CollectionLock /\ IndexLock
  BY FreeLock, NobodyApart DEF Init, CollectionLock, IndexLock, Writing,
     Reading
<1>4. LogLock /\ Closing
  BY NobodyApart DEF Init, LogLock, Closing
<1>5. IndexIsIds
  BY DEF Init, IndexIsIds
<1>. QED
  BY <1>2, <1>3, <1>4, <1>5, TypeInit DEF IInv

LEMMA InvStep == IInv /\ [Next]_vars => IInv'
BY TypeStep, CallsAtStep, CollectionLockStep, IndexLockStep, LogLockStep,
   ClosingStep, LoggedStep, IndexIsIdsStep, AnsweredStep DEF IInv

LEMMA Invariance == Spec => []IInv
BY InvInit, InvStep, PTL DEF Spec

(* Every variable of the goroutines, the locks, the memory and the disk    *)
(* keeps a value the program could hold.                                   *)
THEOREM TypeCorrect == Spec => []TypeOK
<1>1. IInv => TypeOK
  BY DEF IInv
<1>. QED
  BY <1>1, Invariance, PTL

(* Search never finds an id of the index without its external id           *)
(* ("internal corruption", collection.go:227), however many Inserts,       *)
(* Deletes and Searches run at once.                                       *)
THEOREM TranslatesAlways == Spec => []SearchTranslates
<1>1. IInv => SearchTranslates
  BY DEF IInv, Answered, SearchTranslates, At
<1>. QED
  BY <1>1, Invariance, PTL

(* When a Close has returned, the goroutine and the file are gone.  If its *)
(* fsync succeeded, what was acknowledged is fsynced or in a segment that  *)
(* rotation sealed, which no Close reaches, although Close does not take   *)
(* c.mu and Inserts run beside it.                                         *)
THEOREM DurableOnceClosed == Spec => []ClosedDurable
<1>1. IInv => ClosedDurable
  BY DEF IInv, TypeOK, Closing, ClosedDurable
<1>. QED
  BY <1>1, Invariance, PTL

(* The race the run Concurrency_getters finds is the getters': without     *)
(* them nobody touches the counter or the maps beside a goroutine that is  *)
(* about to change them.                                                   *)
THEOREM OnlyGettersRace ==
    ASSUME "peek" \notin Calls
    PROVE  Spec => []NoRace
<1>1. IInv => NoRace
  BY DEF IInv, TypeOK, CallsAt, CollectionLock, NoRace, Touches, Writing,
     Reading, At, RW!MayRead
<1>. QED
  BY <1>1, Invariance, PTL

=============================================================================
