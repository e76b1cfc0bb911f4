---------------------------- MODULE FaultProofs ----------------------------
(***************************************************************************)
(* What holds of a collection whatever happens to it: failing appends that *)
(* leave their record or not, stops that lose the end of the log, LoadState*)
(* on a collection in use.  The log is written ahead of memory, and a      *)
(* document keeps its own vector.                                          *)
(*                                                                         *)
(* An append that failed but left its record makes the next insert log the *)
(* same internal id again, and a second LoadState replays over an index    *)
(* that still holds vectors: ids are not unique then, and the maps and the *)
(* index do not agree.  The argument is that such a log is never replayed  *)
(* past the second insert of an id in use, and that a collection whose     *)
(* reload failed at an id it holds already can insert no more.             *)
(*                                                                         *)
(* Without reloads and lost ends, what was acknowledged is served, too:    *)
(* log and memory may then differ only in documents of which an operation  *)
(* failed, so that no delete can cancel the insert of another document.    *)
(***************************************************************************)
EXTENDS CollectionProofs

-----------------------------------------------------------------------------
(* Logs                                                                    *)

(* No internal id is inserted again before it is deleted: what a replay    *)
(* has got past.                                                           *)
Clean(s, n) ==
    \A p, q \in 1 .. n :
        /\ p < q /\ s[p].op = "insert" /\ s[q].op = "insert"
        /\ s[p].int = s[q].int
        => \E r \in p + 1 .. q - 1 : s[r].op = "delete" /\ s[r].int = s[p].int

InsertAt(s, p, x, i) == s[p].op = "insert" /\ s[p].ext = x /\ s[p].int = i

(* What the record at q owes to those before it.  An insert's external id  *)
(* is new, and all internal ids below its own were inserted.  A delete's   *)
(* ids were inserted together, and in a log that can be replayed up to it  *)
(* it is the document with its internal id that it deletes, if any.        *)
InsertFollows(s, q) ==
    /\ s[q].meta = JSON(s[q].raw)
    /\ \A p \in 1 .. q - 1 : s[p].op = "insert" => s[p].ext # s[q].ext
    /\ \A k \in 1 .. s[q].int - 1 :
          \E p \in 1 .. q - 1 : s[p].op = "insert" /\ s[p].int = k
DeleteFollows(s, q) ==
    /\ \E p \in 1 .. q - 1 : InsertAt(s, p, s[q].ext, s[q].int)
    /\ Clean(s, q - 1) =>
          \A p \in Live(s, q - 1) : s[p].int = s[q].int => s[p].ext = s[q].ext

Follows(s, q) == /\ s[q].op = "insert" => InsertFollows(s, q)
                 /\ s[q].op = "delete" => DeleteFollows(s, q)

LogOK(s, n) == \A q \in 1 .. n : Follows(s, q)

LEMMA DeleteFollowing ==
    ASSUME NEW s, NEW q, NEW n, q - 1 = n, NEW x, NEW i,
           s[q].ext = x, s[q].int = i, \E p \in 1 .. n : InsertAt(s, p, x, i),
           Clean(s, n) => \A p \in Live(s, n) : s[p].int = i => s[p].ext = x
    PROVE  DeleteFollows(s, q)
BY DEF DeleteFollows

LEMMA LiveSame ==
    ASSUME NEW s, NEW t, NEW n \in Nat, \A p \in 1 .. n : t[p] = s[p]
    PROVE  Live(t, n) = Live(s, n)
<1>1. \A p \in 1 .. n : \A q \in p + 1 .. n : t[q] = s[q]
  OBVIOUS
<1>2. ASSUME NEW p \in 1 .. n
      PROVE  p \in Live(t, n) <=> p \in Live(s, n)
  BY <1>1, <1>2 DEF Live
<1>3. Live(t, n) \subseteq 1 .. n /\ Live(s, n) \subseteq 1 .. n
  BY DEF Live
<1>. QED
  BY <1>2, <1>3

LEMMA CleanSame ==
    ASSUME NEW s, NEW t, NEW n \in Nat, \A p \in 1 .. n : t[p] = s[p], Clean(s, n)
    PROVE  Clean(t, n)
<1> SUFFICES ASSUME NEW p \in 1 .. n, NEW q \in 1 .. n,
                    p < q, t[p].op = "insert", t[q].op = "insert",
                    t[p].int = t[q].int
             PROVE  \E r \in p + 1 .. q - 1 :
                       t[r].op = "delete" /\ t[r].int = t[p].int
  BY DEF Clean
<1>1. t[p] = s[p] /\ t[q] = s[q]
  OBVIOUS
<1>2. PICK r \in p + 1 .. q - 1 : s[r].op = "delete" /\ s[r].int = s[p].int
  BY <1>1 DEF Clean
<1>3. t[r] = s[r]
  OBVIOUS
<1>. QED
  BY <1>1, <1>2, <1>3

LEMMA CleanShorter ==
    ASSUME NEW s, NEW n \in Nat, NEW m \in 0 .. n, Clean(s, n)
    PROVE  Clean(s, m)
<1>1. \A p \in 1 .. m : p \in 1 .. n
  OBVIOUS
<1>. QED
  BY <1>1 DEF Clean

LEMMA CleanDelete ==
    ASSUME NEW s, NEW n \in Nat, Clean(s, n), s[n + 1].op = "delete"
    PROVE  Clean(s, n + 1)
<1> SUFFICES ASSUME NEW p \in 1 .. n + 1, NEW q \in 1 .. n + 1,
                    p < q, s[p].op = "insert", s[q].op = "insert",
                    s[p].int = s[q].int
             PROVE  \E r \in p + 1 .. q - 1 :
                       s[r].op = "delete" /\ s[r].int = s[p].int
  BY DEF Clean
<1>1. p \in 1 .. n /\ q \in 1 .. n
  OBVIOUS
<1>. QED
  BY <1>1 DEF Clean

LEMMA CleanInsert ==
    ASSUME NEW s, NEW n \in Nat, Clean(s, n),
           \A p \in Live(s, n) : s[p].int # s[n + 1].int
    PROVE  Clean(s, n + 1)
<1> SUFFICES ASSUME NEW p \in 1 .. n + 1, NEW q \in 1 .. n + 1,
                    p < q, s[p].op = "insert", s[q].op = "insert",
                    s[p].int = s[q].int
             PROVE  \E r \in p + 1 .. q - 1 :
                       s[r].op = "delete" /\ s[r].int = s[p].int
  BY DEF Clean
<1>1. CASE q = n + 1
  <2>1. p \in 1 .. n /\ p \notin Live(s, n)
    BY <1>1
  <2>2. PICK r \in p + 1 .. n : s[r].op = "delete" /\ s[r].int = s[p].int
    BY <2>1 DEF Live
  <2>. QED
    BY <1>1, <2>2
<1>2. CASE q # n + 1
  <2>1. p \in 1 .. n /\ q \in 1 .. n
    BY <1>2
  <2>. QED
    BY <2>1 DEF Clean
<1>. QED
  BY <1>1, <1>2

(* In a clean log an insert's id is that of no live one before it.         *)
LEMMA CleanLive ==
    ASSUME NEW s, NEW n \in Nat, Clean(s, n + 1), s[n + 1].op = "insert",
           NEW p \in Live(s, n)
    PROVE  s[p].int # s[n + 1].int
<1>1. /\ p \in 1 .. n /\ s[p].op = "insert"
      /\ \A q \in p + 1 .. n : s[q].op = "delete" => s[q].int # s[p].int
  BY DEF Live
<1>2. p \in 1 .. n + 1 /\ n + 1 \in 1 .. n + 1 /\ p < n + 1
  BY <1>1
<1>3. (n + 1) - 1 = n
  OBVIOUS
<1> SUFFICES ASSUME s[p].int = s[n + 1].int PROVE FALSE
  OBVIOUS
<1>4. \E r \in p + 1 .. (n + 1) - 1 : s[r].op = "delete" /\ s[r].int = s[p].int
  BY <1>1, <1>2 DEF Clean
<1>. QED
  BY <1>1, <1>3, <1>4

LEMMA FollowsSame ==
    ASSUME NEW s, NEW t, NEW q \in Nat \ {0}, \A p \in 1 .. q : t[p] = s[p],
           Follows(s, q)
    PROVE  Follows(t, q)
<1>1. q - 1 \in Nat /\ t[q] = s[q] /\ \A p \in 1 .. q - 1 : t[p] = s[p]
  OBVIOUS
<1> DEFINE m == q - 1
<1>2. m \in Nat /\ \A p \in 1 .. m : t[p] = s[p] /\ s[p] = t[p]
  BY <1>1
<1> HIDE DEF m
<1>3. Live(t, m) = Live(s, m) /\ (Clean(t, m) => Clean(s, m))
  BY <1>2, LiveSame, CleanSame
<1>4. \A p \in Live(s, m) : t[p] = s[p]
  BY <1>2 DEF Live
<1>5. t[q].op = "insert" => InsertFollows(t, q)
  BY <1>1 DEF Follows, InsertFollows
<1>6. ASSUME t[q].op = "delete"
      PROVE  DeleteFollows(t, q)
  <2>1. DeleteFollows(s, q)
    BY <1>1, <1>6 DEF Follows
  <2>2. \E p \in 1 .. q - 1 : InsertAt(t, p, t[q].ext, t[q].int)
    BY <1>1, <2>1 DEF DeleteFollows, InsertAt
  <2>3. Clean(t, m) =>
          \A p \in Live(t, m) : t[p].int = t[q].int => t[p].ext = t[q].ext
    BY <1>1, <1>3, <1>4, <2>1 DEF DeleteFollows, m
  <2>. QED
    BY <2>2, <2>3 DEF DeleteFollows, m
<1>. QED
  BY <1>5, <1>6 DEF Follows

(* A log stays in order when its end is lost, and when it is extended by a *)
(* record that follows.                                                    *)
LEMMA LogShorter ==
    ASSUME NEW s, NEW t, NEW n \in Nat, NEW m \in 0 .. n,
           \A p \in 1 .. m : t[p] = s[p], LogOK(s, n)
    PROVE  LogOK(t, m)
<1> SUFFICES ASSUME NEW q \in 1 .. m PROVE Follows(t, q)
  BY DEF LogOK
<1>1. q \in Nat \ {0} /\ q \in 1 .. n /\ \A p \in 1 .. q : t[p] = s[p]
  OBVIOUS
<1>2. Follows(s, q)
  BY <1>1 DEF LogOK
<1>. QED
  BY <1>1, <1>2, FollowsSame

LEMMA LogLonger ==
    ASSUME NEW s, NEW t, NEW n \in Nat,
           \A p \in 1 .. n : t[p] = s[p], LogOK(s, n), Follows(t, n + 1)
    PROVE  LogOK(t, n + 1)
<1>1. LogOK(t, n)
  BY LogShorter
<1>2. \A q \in 1 .. n + 1 : q \in 1 .. n \/ q = n + 1
  OBVIOUS
<1>. QED
  BY <1>1, <1>2 DEF LogOK

-----------------------------------------------------------------------------
(* Memory                                                                  *)

(* The maps are inverse to each other; the index holds at least their ids. *)
Paired ==
    /\ DOMAIN payload = DOMAIN extToInt
    /\ DOMAIN intToExt \subseteq DOMAIN index
    /\ \A e \in DOMAIN extToInt : /\ extToInt[e] \in DOMAIN intToExt
                                  /\ intToExt[extToInt[e]] = e
    /\ \A i \in DOMAIN intToExt : /\ intToExt[i] \in DOMAIN extToInt
                                  /\ extToInt[intToExt[i]] = i

(* A document's vector and payload come from one item.                     *)
SameItem(v, w) == \E item \in Items : v = Unit(item) /\ w \in {item, JSON(item)}
OwnItems == \A e \in DOMAIN extToInt : SameItem(index[extToInt[e]], payload[e])

(* Whatever is in memory was inserted by a record of the log, and the      *)
(* counter is at an id that was.                                           *)
Recorded(x, i, w) ==
    \E p \in DOMAIN log : InsertAt(log, p, x, i) /\ w \in {log[p].raw, log[p].meta}
Written == \A e \in DOMAIN extToInt : Recorded(e, extToInt[e], payload[e])

IndexInserted ==
    \A i \in DOMAIN index : \E p \in DOMAIN log : log[p].op = "insert" /\ log[p].int = i

(* The records that a replay has been through, or that are all in the log. *)
Reached == IF phase \in {"loading", "reloading"} THEN 1 .. cursor ELSE DOMAIN log

Counting ==
    /\ \A i \in DOMAIN intToExt : i <= idCounter
    /\ \A k \in 1 .. idCounter :
          \E p \in Reached : log[p].op = "insert" /\ log[p].int = k

Memory == Paired /\ OwnItems /\ Written /\ IndexInserted /\ Counting

LEMMA PairedPut ==
    ASSUME Paired, NEW e, NEW i, NEW v, NEW w,
           e \notin DOMAIN extToInt, i \notin DOMAIN index,
           index' = Put(index, i, v), extToInt' = Put(extToInt, e, i),
           intToExt' = Put(intToExt, i, e), payload' = Put(payload, e, w)
    PROVE  Paired'
<1>1. /\ DOMAIN index' = DOMAIN index \cup {i}
      /\ DOMAIN payload' = DOMAIN payload \cup {e}
  BY PutValues
<1>2. /\ DOMAIN extToInt' = DOMAIN extToInt \cup {e} /\ extToInt'[e] = i
      /\ \A x \in DOMAIN extToInt : extToInt'[x] = extToInt[x]
  BY DEF Put
<1>3. i \notin DOMAIN intToExt
  BY DEF Paired
<1>4. /\ DOMAIN intToExt' = DOMAIN intToExt \cup {i} /\ intToExt'[i] = e
      /\ \A x \in DOMAIN intToExt : intToExt'[x] = intToExt[x]
  BY <1>3 DEF Put
<1>. QED
  BY <1>1, <1>2, <1>3, <1>4 DEF Paired

LEMMA PairedDrop ==
    ASSUME Paired, NEW e, NEW i, DropDocument(e, i),
           \/ e \in DOMAIN extToInt /\ extToInt[e] = i
           \/ e \notin DOMAIN extToInt /\ i \notin DOMAIN intToExt
    PROVE  Paired'
<1>d. /\ index' = Drop(index, i) /\ payload' = Drop(payload, e)
      /\ extToInt' = Drop(extToInt, e) /\ intToExt' = Drop(intToExt, i)
  BY DEF DropDocument
<1>1. DOMAIN index' = DOMAIN index \ {i} /\ DOMAIN payload' = DOMAIN payload \ {e}
  BY <1>d DEF Drop
<1>2. /\ DOMAIN extToInt' = DOMAIN extToInt \ {e}
      /\ \A x \in DOMAIN extToInt' : extToInt'[x] = extToInt[x]
  BY <1>d DEF Drop
<1>3. /\ DOMAIN intToExt' = DOMAIN intToExt \ {i}
      /\ \A x \in DOMAIN intToExt' : intToExt'[x] = intToExt[x]
  BY <1>d DEF Drop
<1>. QED
  BY <1>1, <1>2, <1>3 DEF Paired

(* What the log and the maps say of each document, after it is put in ...  *)
LEMMA DocumentWritten ==
    ASSUME Paired, OwnItems, Written, IndexInserted,
           NEW e, NEW i, NEW v, NEW w,
           e \notin DOMAIN extToInt, i \notin DOMAIN index,
           index' = Put(index, i, v), extToInt' = Put(extToInt, e, i),
           payload' = Put(payload, e, w),
           SameItem(v, w), DOMAIN log \subseteq DOMAIN log',
           \A p \in DOMAIN log : log'[p] = log[p],
           \E p \in DOMAIN log' : /\ InsertAt(log', p, e, i)
                                  /\ w \in {log'[p].raw, log'[p].meta}
    PROVE  (OwnItems /\ Written /\ IndexInserted)'
<1>1. /\ DOMAIN extToInt' = DOMAIN extToInt \cup {e} /\ extToInt'[e] = i
      /\ \A x \in DOMAIN extToInt : extToInt'[x] = extToInt[x]
  BY DEF Put
<1>2. e \notin DOMAIN payload
  BY DEF Paired
<1>3. /\ payload'[e] = w
      /\ \A x \in DOMAIN extToInt : payload'[x] = payload[x]
  BY <1>2 DEF Put, Paired
<1>4. /\ DOMAIN index' = DOMAIN index \cup {i} /\ index'[i] = v
      /\ \A k \in DOMAIN index : index'[k] = index[k]
  BY DEF Put
<1>5. ASSUME NEW x \in DOMAIN extToInt
      PROVE  extToInt[x] \in DOMAIN index
  BY <1>5 DEF Paired
<1>6. OwnItems'
  BY <1>1, <1>3, <1>4, <1>5 DEF OwnItems
<1>7. Written'
  BY <1>1, <1>3 DEF Written, Recorded, InsertAt
<1>8. IndexInserted'
  BY <1>4 DEF IndexInserted, InsertAt
<1>. QED
  BY <1>6, <1>7, <1>8

(* ... and when memory loses a document or stays as it is.                 *)
LEMMA DocumentsStay ==
    ASSUME Paired, OwnItems, Written, IndexInserted,
           DOMAIN extToInt' \subseteq DOMAIN extToInt,
           DOMAIN index' \subseteq DOMAIN index,
           \A x \in DOMAIN extToInt' : /\ extToInt'[x] = extToInt[x]
                                       /\ payload'[x] = payload[x]
                                       /\ index'[extToInt[x]] = index[extToInt[x]],
           DOMAIN log \subseteq DOMAIN log', \A p \in DOMAIN log : log'[p] = log[p]
    PROVE  (OwnItems /\ Written /\ IndexInserted)'
<1>1. OwnItems'
  BY DEF OwnItems
<1>2. Written'
  BY DEF Written, Recorded, InsertAt
<1>3. IndexInserted'
  BY DEF IndexInserted
<1>. QED
  BY <1>1, <1>2, <1>3

LEMMA DocumentsDropped ==
    ASSUME Paired, OwnItems, Written, IndexInserted, NEW e, NEW i,
           DropDocument(e, i),
           \/ e \in DOMAIN extToInt /\ extToInt[e] = i
           \/ e \notin DOMAIN extToInt /\ i \notin DOMAIN intToExt,
           DOMAIN log \subseteq DOMAIN log', \A p \in DOMAIN log : log'[p] = log[p]
    PROVE  (OwnItems /\ Written /\ IndexInserted)'
<1>d. /\ index' = Drop(index, i) /\ payload' = Drop(payload, e)
      /\ extToInt' = Drop(extToInt, e)
  BY DEF DropDocument
<1>1. /\ DOMAIN extToInt' = DOMAIN extToInt \ {e}
      /\ \A x \in DOMAIN extToInt' : extToInt'[x] = extToInt[x]
  BY <1>d DEF Drop
<1>2. \A x \in DOMAIN extToInt' : payload'[x] = payload[x]
  BY <1>d, <1>1 DEF Drop, Paired
<1>3. DOMAIN index' \subseteq DOMAIN index
  BY <1>d DEF Drop
<1>4. ASSUME NEW x \in DOMAIN extToInt'
      PROVE  index'[extToInt[x]] = index[extToInt[x]]
  <2>1. x \in DOMAIN extToInt /\ extToInt[x] \in DOMAIN index /\ extToInt[x] # i
    BY <1>1, <1>4 DEF Paired
  <2>. QED
    BY <2>1 DEF DropDocument, Drop
<1>. QED
  BY <1>1, <1>2, <1>3, <1>4, DocumentsStay

-----------------------------------------------------------------------------
(* A collection in use                                                     *)

(* Against a log that a replay can get through: an id that was deleted and *)
(* inserted again is in the index; the live insert of a document's id is   *)
(* that of the document; and either the counter covers the deletes and the *)
(* index, or the next insert is refused.                                   *)
Stuck(ind, c) == c + 1 \in DOMAIN ind
Covers(s, n, ind, c) ==
    /\ \A q \in 1 .. n : s[q].op = "delete" => s[q].int <= c
    /\ \A i \in DOMAIN ind : i <= c

Usable(s, n, ext, ind, c) ==
    /\ \A p \in Live(s, n), q \in 1 .. n :
          s[q].op = "delete" /\ s[q].int = s[p].int => s[p].int \in DOMAIN ind
    /\ \A x \in DOMAIN ext, p \in Live(s, n) :
          s[p].int = ext[x] => s[p].ext = x
    /\ Covers(s, n, ind, c) \/ Stuck(ind, c)

UseOK(s, n, ext, ind, c) == Clean(s, n) => Usable(s, n, ext, ind, c)

LEMMA CleanBefore ==
    ASSUME NEW s, NEW t, NEW n \in Nat, \A p \in 1 .. n : t[p] = s[p],
           Clean(t, n + 1)
    PROVE  Clean(s, n)
<1>1. Clean(t, n)
  BY CleanShorter
<1>2. \A p \in 1 .. n : s[p] = t[p]
  OBVIOUS
<1>. QED
  BY <1>1, <1>2, CleanSame

(* An insert that reaches the log alone, ...                               *)
LEMMA UseLogged ==
    ASSUME NEW s, NEW t, NEW n \in Nat, NEW ext, NEW ind, NEW c \in Nat,
           UseOK(s, n, ext, ind, c), \A p \in 1 .. n : t[p] = s[p],
           t[n + 1].op = "insert", t[n + 1].int = c + 1,
           \A x \in DOMAIN ext : ext[x] \in Nat /\ ext[x] <= c
    PROVE  UseOK(t, n + 1, ext, ind, c)
<1> SUFFICES ASSUME Clean(t, n + 1) PROVE Usable(t, n + 1, ext, ind, c)
  BY DEF UseOK
<1>1. Usable(s, n, ext, ind, c)
  BY CleanBefore DEF UseOK
<1>2. Live(t, n + 1) = Live(s, n) \cup {n + 1}
  BY LiveInsert
<1>3. \A p \in Live(s, n) : p \in 1 .. n /\ t[p] = s[p]
  BY DEF Live
<1>4. \A q \in 1 .. n + 1 : t[q].op = "delete" => q \in 1 .. n /\ t[q] = s[q]
  <2>1. t[n + 1].op # "delete"
    OBVIOUS
  <2>2. \A q \in 1 .. n + 1 : q = n + 1 \/ q \in 1 .. n
    OBVIOUS
  <2>. QED
    BY <2>1, <2>2
<1>5. Covers(t, n + 1, ind, c) \/ Stuck(ind, c)
  BY <1>1, <1>4 DEF Usable, Covers
<1>6. ASSUME NEW p \in Live(t, n + 1), NEW q \in 1 .. n + 1,
             t[q].op = "delete", t[q].int = t[p].int
      PROVE  t[p].int \in DOMAIN ind
  <2>1. CASE p \in Live(s, n)
    BY <1>1, <1>3, <1>4, <1>6, <2>1 DEF Usable
  <2>2. CASE p = n + 1
    <3>1. q \in 1 .. n /\ s[q].op = "delete" /\ s[q].int = c + 1
      BY <1>4, <1>6, <2>2
    <3>2. ~ (c + 1 <= c)
      OBVIOUS
    <3>3. ~ Covers(s, n, ind, c)
      BY <3>1, <3>2 DEF Covers
    <3>. QED
      BY <1>1, <2>2, <3>3 DEF Usable, Stuck
  <2>. QED
    BY <1>2, <1>6, <2>1, <2>2
<1>7. ASSUME NEW x \in DOMAIN ext, NEW p \in Live(t, n + 1), t[p].int = ext[x]
      PROVE  t[p].ext = x
  <2>1. p # n + 1
    <3>1. ext[x] \in Nat /\ ext[x] <= c
      OBVIOUS
    <3>2. ext[x] # c + 1
      BY <3>1
    <3>. QED
      BY <1>7, <3>2
  <2>. QED
    BY <1>1, <1>2, <1>3, <1>7, <2>1 DEF Usable
<1>. QED
  BY <1>5, <1>6, <1>7 DEF Usable

(* ... or memory too; ...                                                  *)
LEMMA UsePut ==
    ASSUME NEW s, NEW t, NEW n \in Nat, NEW ext, NEW ind, NEW c \in Nat,
           UseOK(s, n, ext, ind, c), \A p \in 1 .. n : t[p] = s[p],
           t[n + 1].op = "insert", t[n + 1].int = c + 1,
           \A x \in DOMAIN ext : ext[x] \in Nat /\ ext[x] <= c,
           \A i \in DOMAIN ind : i \in Nat, \A q \in 1 .. n : s[q].int \in Nat,
           t[n + 1].ext \notin DOMAIN ext, c + 1 \notin DOMAIN ind, NEW v
    PROVE  UseOK(t, n + 1, Put(ext, t[n + 1].ext, c + 1), Put(ind, c + 1, v),
                 c + 1)
<1> DEFINE e == t[n + 1].ext
           ext2 == Put(ext, e, c + 1)
           ind2 == Put(ind, c + 1, v)
<1> SUFFICES ASSUME Clean(t, n + 1) PROVE Usable(t, n + 1, ext2, ind2, c + 1)
  BY DEF UseOK
<1>1. Usable(s, n, ext, ind, c)
  BY CleanBefore DEF UseOK
<1>2. Live(t, n + 1) = Live(s, n) \cup {n + 1}
  BY LiveInsert
<1>3. \A p \in Live(s, n) : p \in 1 .. n /\ t[p] = s[p] /\ t[p].int # c + 1
  <2>1. Live(t, n) = Live(s, n)
    BY LiveSame
  <2>2. \A p \in Live(s, n) : p \in 1 .. n
    BY DEF Live
  <2>. QED
    BY <2>1, <2>2, CleanLive
<1>4. \A q \in 1 .. n + 1 : t[q].op = "delete" => q \in 1 .. n /\ t[q] = s[q]
  <2>1. t[n + 1].op # "delete"
    OBVIOUS
  <2>2. \A q \in 1 .. n + 1 : q = n + 1 \/ q \in 1 .. n
    OBVIOUS
  <2>. QED
    BY <2>1, <2>2
<1>5. /\ DOMAIN ext2 = DOMAIN ext \cup {e} /\ ext2[e] = c + 1
      /\ \A x \in DOMAIN ext : ext2[x] = ext[x]
      /\ DOMAIN ind2 = DOMAIN ind \cup {c + 1}
  BY DEF Put
<1> HIDE DEF ext2, ind2
<1>6. Covers(s, n, ind, c)
  BY <1>1 DEF Usable, Stuck
<1>7. Covers(t, n + 1, ind2, c + 1)
  <2>1. \A q \in 1 .. n + 1 :
            t[q].op = "delete" => t[q].int \in Nat /\ t[q].int <= c
    BY <1>4, <1>6 DEF Covers
  <2>2. \A q \in 1 .. n + 1 : t[q].op = "delete" => t[q].int <= c + 1
    BY <2>1
  <2>3. \A i \in DOMAIN ind : i <= c + 1
    BY <1>6 DEF Covers
  <2>. QED
    BY <1>5, <2>2, <2>3 DEF Covers
<1>8. ASSUME NEW p \in Live(t, n + 1), NEW q \in 1 .. n + 1,
             t[q].op = "delete", t[q].int = t[p].int
      PROVE  t[p].int \in DOMAIN ind2
  BY <1>1, <1>2, <1>3, <1>4, <1>5, <1>8 DEF Usable
<1>9. ASSUME NEW x \in DOMAIN ext2, NEW p \in Live(t, n + 1), t[p].int = ext2[x]
      PROVE  t[p].ext = x
  <2>1. CASE x = e
    BY <1>2, <1>3, <1>5, <1>9, <2>1
  <2>2. CASE x # e
    <3>1. x \in DOMAIN ext /\ ext2[x] = ext[x]
      BY <1>5, <2>2
    <3>2. ext[x] \in Nat /\ ext[x] <= c
      BY <3>1
    <3>3. ext[x] # c + 1
      BY <3>2
    <3>. QED
      BY <1>1, <1>2, <1>3, <1>9, <3>1, <3>3 DEF Usable
  <2>. QED
    BY <2>1, <2>2
<1>10. Usable(t, n + 1, ext2, ind2, c + 1)
  BY <1>7, <1>8, <1>9 DEF Usable
<1>. QED
  BY <1>10 DEF ext2, ind2

(* ... a delete that reaches the log alone, ...                            *)
LEMMA UseUnlogged ==
    ASSUME NEW s, NEW t, NEW n \in Nat, NEW ext, NEW ind, NEW c \in Nat,
           UseOK(s, n, ext, ind, c), \A p \in 1 .. n : t[p] = s[p],
           t[n + 1].op = "delete",
           t[n + 1].int <= c \/ Stuck(ind, c)
    PROVE  UseOK(t, n + 1, ext, ind, c)
<1> SUFFICES ASSUME Clean(t, n + 1) PROVE Usable(t, n + 1, ext, ind, c)
  BY DEF UseOK
<1>1. Usable(s, n, ext, ind, c)
  BY CleanBefore DEF UseOK
<1>2. Live(t, n + 1) = {p \in Live(s, n) : s[p].int # t[n + 1].int}
  BY LiveDelete
<1>3. \A p \in Live(s, n) : p \in 1 .. n /\ t[p] = s[p]
  BY DEF Live
<1>4. \A q \in 1 .. n + 1 : q = n + 1 \/ (q \in 1 .. n /\ t[q] = s[q])
  <2>1. \A q \in 1 .. n + 1 : q = n + 1 \/ q \in 1 .. n
    OBVIOUS
  <2>. QED
    BY <2>1
<1>5. Covers(t, n + 1, ind, c) \/ Stuck(ind, c)
  BY <1>1, <1>4 DEF Usable, Covers
<1>6. ASSUME NEW p \in Live(t, n + 1), NEW q \in 1 .. n + 1,
             t[q].op = "delete", t[q].int = t[p].int
      PROVE  t[p].int \in DOMAIN ind
  BY <1>1, <1>2, <1>3, <1>4, <1>6 DEF Usable
<1>7. ASSUME NEW x \in DOMAIN ext, NEW p \in Live(t, n + 1), t[p].int = ext[x]
      PROVE  t[p].ext = x
  BY <1>1, <1>2, <1>3, <1>7 DEF Usable
<1>. QED
  BY <1>5, <1>6, <1>7 DEF Usable

(* ... or memory too.                                                      *)
LEMMA UseDrop ==
    ASSUME NEW s, NEW t, NEW n \in Nat, NEW ext, NEW ind, NEW c \in Nat,
           UseOK(s, n, ext, ind, c), \A p \in 1 .. n : t[p] = s[p],
           t[n + 1].op = "delete", t[n + 1].int \in Nat, t[n + 1].int <= c
    PROVE  UseOK(t, n + 1, Drop(ext, t[n + 1].ext), Drop(ind, t[n + 1].int), c)
<1> DEFINE e == t[n + 1].ext
           i == t[n + 1].int
           ext2 == Drop(ext, e)
           ind2 == Drop(ind, i)
<1> SUFFICES ASSUME Clean(t, n + 1) PROVE Usable(t, n + 1, ext2, ind2, c)
  BY DEF UseOK
<1>1. UseOK(t, n + 1, ext, ind, c)
  BY UseUnlogged
<1>2. Usable(t, n + 1, ext, ind, c)
  BY <1>1 DEF UseOK
<1>3. \A p \in Live(t, n + 1) : t[p].int # i
  <2>1. Live(t, n + 1) = {p \in Live(s, n) : s[p].int # i}
    BY LiveDelete
  <2>2. \A p \in Live(s, n) : t[p] = s[p]
    BY DEF Live
  <2>. QED
    BY <2>1, <2>2
<1>4. /\ DOMAIN ext2 = DOMAIN ext \ {e} /\ DOMAIN ind2 = DOMAIN ind \ {i}
      /\ \A x \in DOMAIN ext2 : ext2[x] = ext[x]
  BY DEF Drop
<1>5. c + 1 # i
  OBVIOUS
<1> HIDE DEF ext2, ind2
<1>6. Usable(t, n + 1, ext2, ind2, c)
  BY <1>2, <1>3, <1>4, <1>5 DEF Usable, Covers, Stuck
<1>. QED
  BY <1>6 DEF ext2, ind2

-----------------------------------------------------------------------------
(* The invariant                                                           *)

Replayed(n) ==
    /\ Serves(log, n, extToInt, index, payload)
    /\ Clean(log, n)
    /\ \A p \in 1 .. n :
          /\ log[p].int <= idCounter
          /\ log[p].op = "insert" /\ log[p].int \in DOMAIN index
                => log[p].int \in DOMAIN intToExt

(* An id that was deleted and inserted again is one of those that a reload *)
(* found in the index and has not come to.                                 *)
RevivedStale ==
    Clean(log, Len(log)) =>
        \A p \in Live(log, Len(log)), q \in 1 .. Len(log) :
            log[q].op = "delete" /\ log[q].int = log[p].int
                => log[p].int \in DOMAIN index \ DOMAIN intToExt

PhaseInv ==
    /\ phase = "down" => DOMAIN extToInt = {} /\ DOMAIN intToExt = {}
                         /\ DOMAIN payload = {} /\ DOMAIN index = {}
                         /\ idCounter = 0
    /\ phase \in {"loading", "reloading"} => cursor <= Len(log) /\ Replayed(cursor)
    /\ phase = "reloading" => RevivedStale
    /\ phase \in {"ready", "closed"} =>
         UseOK(log, Len(log), extToInt, index, idCounter)

FaultInv == TypeInv /\ LogOK(log, Len(log)) /\ Memory /\ PhaseInv

LEMMA FaultTypes ==
    ASSUME FaultInv
    PROVE  /\ log \in Seq(Record) /\ Len(log) \in Nat /\ DOMAIN log = 1 .. Len(log)
           /\ cursor \in Nat /\ idCounter \in Nat /\ internalID = idCounter + 1
           /\ \A p \in 1 .. Len(log) :
                 log[p] \in Record /\ log[p].int \in Nat \ {0}
           /\ \A e \in DOMAIN extToInt :
                 /\ e \in ExternalIDs /\ extToInt[e] \in Nat \ {0}
                 /\ extToInt[e] <= idCounter /\ extToInt[e] \in DOMAIN index
           /\ \A i \in DOMAIN index : i \in Nat \ {0}
<1>1. log \in Seq(Record) /\ cursor \in Nat /\ idCounter \in Nat
  BY DEF FaultInv, TypeInv, ValueTypes
<1>2. \A p \in 1 .. Len(log) : log[p] \in Record /\ log[p].int \in Nat \ {0}
  BY <1>1, RecordFields
<1>3. /\ \A e \in DOMAIN extToInt : e \in ExternalIDs /\ extToInt[e] \in Nat \ {0}
      /\ \A i \in DOMAIN index : i \in Nat \ {0}
  BY DEF FaultInv, TypeInv, MapTypes, IsMap
<1>4. \A e \in DOMAIN extToInt :
         extToInt[e] <= idCounter /\ extToInt[e] \in DOMAIN index
  BY DEF FaultInv, Memory, Paired, Counting
<1>. QED
  BY <1>1, <1>2, <1>3, <1>4 DEF internalID

(* The record to be replayed next, unless it collides: an insert's ids are *)
(* not in memory, a delete's are paired there or both absent.              *)
LEMMA NextReplayed ==
    ASSUME FaultInv, Replaying
    PROVE  /\ cursor + 1 \in 1 .. Len(log)
           /\ Replayed(cursor) /\ Follows(log, cursor + 1)
           /\ record.op = "insert" => record.ext \notin DOMAIN extToInt
           /\ record.op = "delete" =>
                 /\ record.int <= idCounter
                 /\ \/ /\ record.ext \in DOMAIN extToInt
                       /\ extToInt[record.ext] = record.int
                    \/ /\ record.ext \notin DOMAIN extToInt
                       /\ record.int \notin DOMAIN intToExt
                       /\ record.int \notin DOMAIN index
<1> DEFINE c == cursor
           r == log[c + 1]
<1>1. /\ c \in Nat /\ c + 1 \in 1 .. Len(log) /\ c \in 0 .. Len(log)
  BY FaultTypes DEF Replaying
<1>2. Replayed(c) /\ Follows(log, c + 1)
  BY <1>1 DEF FaultInv, PhaseInv, Replaying, LogOK
<1>3. Serves(log, c, extToInt, index, payload) /\ Clean(log, c)
  BY <1>2 DEF Replayed
<1>4. \A p \in Live(log, c) : p \in 1 .. c /\ log[p].op = "insert"
  BY DEF Live
<1>5. ASSUME r.op = "insert"
      PROVE  r.ext \notin DOMAIN extToInt
  <2>1. \A p \in 1 .. c : log[p].op = "insert" => log[p].ext # r.ext
    BY <1>1, <1>2, <1>5 DEF Follows, InsertFollows
  <2>. QED
    BY <1>3, <1>4, <2>1 DEF Serves
<1>6. ASSUME r.op = "delete"
      PROVE  /\ r.int <= idCounter
             /\ \/ r.ext \in DOMAIN extToInt /\ extToInt[r.ext] = r.int
                \/ r.ext \notin DOMAIN extToInt /\ r.int \notin DOMAIN intToExt
                   /\ r.int \notin DOMAIN index
  <2>1. (c + 1) - 1 = c
    BY <1>1
  <2>2. DeleteFollows(log, c + 1)
    BY <1>2, <1>6 DEF Follows
  <2>3. PICK p \in 1 .. c : log[p].op = "insert" /\ log[p].ext = r.ext /\ log[p].int = r.int
    BY <2>1, <2>2 DEF DeleteFollows, InsertAt
  <2>4. \A q \in Live(log, c) : log[q].int = r.int => log[q].ext = r.ext
    BY <1>3, <2>1, <2>2 DEF DeleteFollows
  <2>5. /\ r.int <= idCounter
        /\ r.int \in DOMAIN index => r.int \in DOMAIN intToExt
    BY <1>2, <2>3 DEF Replayed
  <2>6. CASE r.ext \in DOMAIN extToInt
    <3>1. PICK q \in Live(log, c) : log[q].ext = r.ext /\ extToInt[r.ext] = log[q].int
      BY <1>3, <2>6 DEF Serves
    <3>2. q \in 1 .. c /\ log[q].op = "insert"
      BY <1>4
    <3>3. Follows(log, p) /\ Follows(log, q)
      BY <1>1, <2>3, <3>2 DEF FaultInv, LogOK
    <3>4. p = q
      <4>1. ~ (p < q)
        BY <2>3, <3>1, <3>2, <3>3 DEF Follows, InsertFollows
      <4>2. ~ (q < p)
        BY <2>3, <3>1, <3>2, <3>3 DEF Follows, InsertFollows
      <4>. QED
        BY <3>2, <4>1, <4>2
    <3>. QED
      BY <2>3, <2>5, <2>6, <3>1, <3>4
  <2>7. CASE r.ext \notin DOMAIN extToInt
    <3>1. r.int \notin DOMAIN intToExt
      <4> SUFFICES ASSUME r.int \in DOMAIN intToExt PROVE FALSE
        OBVIOUS
      <4>1. PICK x \in DOMAIN extToInt : extToInt[x] = r.int
        BY DEF FaultInv, Memory, Paired
      <4>2. PICK q \in Live(log, c) : log[q].ext = x /\ extToInt[x] = log[q].int
        BY <1>3, <4>1 DEF Serves
      <4>. QED
        BY <2>4, <2>7, <4>1, <4>2
    <3>. QED
      BY <2>5, <2>7, <3>1
  <2>. QED
    BY <2>6, <2>7
<1>. QED
  BY <1>1, <1>2, <1>5, <1>6 DEF record

-----------------------------------------------------------------------------
(* What the steps do to the log                                            *)

LEMMA Extended ==
    ASSUME NEW s \in Seq(Record), NEW r \in Record
    PROVE  /\ Append(s, r) \in Seq(Record)
           /\ Len(s) \in Nat /\ Len(Append(s, r)) = Len(s) + 1
           /\ Append(s, r)[Len(s) + 1] = r
           /\ \A p \in 1 .. Len(s) : Append(s, r)[p] = s[p]
OBVIOUS

(* The log with the record of an insert or of a delete.                    *)
Inserting(e, item) == Append(log, InsertRecord(e, internalID, item))
Deleting(e)        == Append(log, DeleteRecord(e, extToInt[e]))

LogInserted(t, e, item) ==
    /\ t \in Seq(Record) /\ Len(t) = Len(log) + 1
    /\ \A p \in 1 .. Len(log) : t[p] = log[p]
    /\ InsertAt(t, Len(log) + 1, e, internalID)
    /\ t[Len(log) + 1].raw = item /\ t[Len(log) + 1].meta = JSON(item)
    /\ LogOK(t, Len(t))
LogDeleted(t, e) ==
    /\ t \in Seq(Record) /\ Len(t) = Len(log) + 1
    /\ \A p \in 1 .. Len(log) : t[p] = log[p]
    /\ t[Len(log) + 1].op = "delete" /\ t[Len(log) + 1].ext = e
    /\ t[Len(log) + 1].int = extToInt[e]
    /\ LogOK(t, Len(t))

LEMMA InsertLogged ==
    ASSUME FaultInv, phase = "ready", NEW e \in ExternalIDs, e \notin used,
           NEW item \in Items
    PROVE  LogInserted(Inserting(e, item), e, item)
<1> DEFINE r == InsertRecord(e, internalID, item)
           n == Len(log)
           t == Inserting(e, item)
<1>1. internalID \in Nat \ {0} /\ internalID = idCounter + 1
  BY Next_internalID, FaultTypes DEF FaultInv
<1>2. /\ r \in Record /\ r.op = "insert" /\ r.ext = e /\ r.int = internalID
      /\ r.raw = item /\ r.meta = JSON(item)
  BY <1>1, NewRecord DEF InsertRecord
<1> HIDE DEF r
<1>3. /\ t \in Seq(Record) /\ n \in Nat /\ Len(t) = n + 1 /\ t[n + 1] = r
      /\ \A p \in 1 .. n : t[p] = log[p]
  <2>1. t = Append(log, r)
    BY DEF r, Inserting
  <2> HIDE DEF t
  <2>. QED
    BY <1>2, <2>1, FaultTypes, Extended
<1> HIDE DEF t
<1>4. (n + 1) - 1 = n
  BY <1>3
<1>5. \A p \in 1 .. n : t[p].ext # e
  BY <1>3, FaultTypes, FreshExternalID DEF FaultInv
<1>6. ASSUME NEW k \in 1 .. internalID - 1
      PROVE  \E p \in 1 .. n : t[p].op = "insert" /\ t[p].int = k
  <2>1. k \in 1 .. idCounter
    BY <1>1, <1>6, FaultTypes
  <2>2. Reached = DOMAIN log
    BY DEF Reached
  <2>3. PICK p \in DOMAIN log : log[p].op = "insert" /\ log[p].int = k
    BY <2>1, <2>2 DEF FaultInv, Memory, Counting
  <2>. QED
    BY <1>3, <2>3, FaultTypes
<1>7. InsertFollows(t, n + 1)
  BY <1>2, <1>3, <1>4, <1>5, <1>6 DEF InsertFollows
<1>8. Follows(t, n + 1)
  BY <1>2, <1>3, <1>7 DEF Follows
<1>9. LogOK(t, n + 1)
  BY <1>3, <1>8, LogLonger DEF FaultInv
<1>. QED
  BY <1>2, <1>3, <1>9 DEF InsertAt, LogInserted, t

LEMMA DeleteLogged ==
    ASSUME FaultInv, phase = "ready", NEW e \in DOMAIN extToInt
    PROVE  LogDeleted(Deleting(e), e)
<1> DEFINE r == DeleteRecord(e, extToInt[e])
           n == Len(log)
           t == Deleting(e)
<1>1. r \in Record /\ r.op = "delete" /\ r.ext = e /\ r.int = extToInt[e]
  BY NewDelete, FaultTypes
<1> HIDE DEF r
<1>2. /\ t \in Seq(Record) /\ n \in Nat /\ Len(t) = n + 1 /\ t[n + 1] = r
      /\ \A p \in 1 .. n : t[p] = log[p]
  <2>1. t = Append(log, r)
    BY DEF r, Deleting
  <2> HIDE DEF t
  <2>. QED
    BY <1>1, <2>1, FaultTypes, Extended
<1> HIDE DEF t
<1>3. (n + 1) - 1 = n
  BY <1>2
<1>4. \E p \in 1 .. n : InsertAt(t, p, e, extToInt[e])
  <2>1. PICK p \in DOMAIN log : InsertAt(log, p, e, extToInt[e])
    BY DEF FaultInv, Memory, Written, Recorded
  <2>. QED
    BY <1>2, <2>1, FaultTypes DEF InsertAt
<1>5. ASSUME Clean(t, n), NEW p \in Live(t, n), t[p].int = extToInt[e]
      PROVE  t[p].ext = e
  <2>1. \A q \in 1 .. n : log[q] = t[q]
    BY <1>2
  <2>2. Clean(log, n) /\ Live(log, n) = Live(t, n)
    BY <1>2, <1>5, <2>1, CleanSame, LiveSame
  <2>3. p \in 1 .. n
    BY <1>5 DEF Live
  <2>4. UseOK(log, n, extToInt, index, idCounter)
    BY DEF FaultInv, PhaseInv
  <2>. QED
    BY <1>2, <1>5, <2>2, <2>3, <2>4 DEF UseOK, Usable
<1>6. DeleteFollows(t, n + 1)
  <2>1. Clean(t, n) =>
          \A p \in Live(t, n) : t[p].int = extToInt[e] => t[p].ext = e
    BY <1>5
  <2>2. t[n + 1].ext = e /\ t[n + 1].int = extToInt[e]
    BY <1>1, <1>2
  <2> DEFINE i == extToInt[e]
             q == n + 1
  <2>3. q - 1 = n /\ t[q].ext = e /\ t[q].int = i
    BY <1>3, <2>2
  <2>4. /\ \E p \in 1 .. n : InsertAt(t, p, e, i)
        /\ Clean(t, n) => \A p \in Live(t, n) : t[p].int = i => t[p].ext = e
    BY <1>4, <2>1
  <2> HIDE DEF n, i, q
  <2>5. DeleteFollows(t, q)
    BY <2>3, <2>4, DeleteFollowing
  <2>. QED
    BY <2>5 DEF q
<1>7. Follows(t, n + 1)
  BY <1>1, <1>2, <1>6 DEF Follows
<1>8. LogOK(t, n + 1)
  BY <1>2, <1>7, LogLonger DEF FaultInv
<1>. QED
  BY <1>1, <1>2, <1>8 DEF LogDeleted, t

(* The record that cancels the insert before it.                           *)
Canceling(s, e, i) == Append(s, DeleteRecord(e, i))

LEMMA CancelLogged ==
    ASSUME NEW s \in Seq(Record), LogOK(s, Len(s)), NEW n \in Nat, Len(s) = n + 1,
           NEW e \in ExternalIDs, NEW i \in Nat \ {0}, InsertAt(s, n + 1, e, i)
    PROVE  /\ Len(Canceling(s, e, i)) = n + 2
           /\ \A p \in 1 .. n + 1 : Canceling(s, e, i)[p] = s[p]
           /\ Canceling(s, e, i)[n + 2].op = "delete"
           /\ LogOK(Canceling(s, e, i), Len(Canceling(s, e, i)))
<1> DEFINE r == DeleteRecord(e, i)
           m == n + 1
           t == Canceling(s, e, i)
<1>1. r \in Record /\ r.op = "delete" /\ r.ext = e /\ r.int = i
  BY NewDelete
<1> HIDE DEF r
<1>2. /\ t \in Seq(Record) /\ m \in Nat /\ Len(t) = m + 1 /\ t[m + 1] = r
      /\ \A p \in 1 .. m : t[p] = s[p]
  <2>1. t = Append(s, r)
    BY DEF r, Canceling
  <2> HIDE DEF t
  <2>. QED
    BY <1>1, <2>1, Extended
<1> HIDE DEF t
<1>3. (m + 1) - 1 = m /\ m + 1 = n + 2 /\ m \in 1 .. m
  BY <1>2
<1>4. t[m].op = "insert" /\ t[m].ext = e /\ t[m].int = i
  BY <1>2, <1>3 DEF InsertAt
<1>5. \E p \in 1 .. m : InsertAt(t, p, e, i)
  BY <1>3, <1>4 DEF InsertAt
<1>6. ASSUME Clean(t, m), NEW p \in Live(t, m), t[p].int = i
      PROVE  t[p].ext = e
  <2>1. Live(t, m) = Live(t, n) \cup {m}
    BY <1>4, LiveInsert
  <2>2. p \notin Live(t, n)
    BY <1>4, <1>6, CleanLive
  <2>. QED
    BY <1>4, <1>6, <2>1, <2>2
<1> HIDE DEF m
<1>7. DeleteFollows(t, m + 1)
  <2>1. Clean(t, m) => \A p \in Live(t, m) : t[p].int = i => t[p].ext = e
    BY <1>6
  <2>. QED
    BY <1>1, <1>2, <1>3, <1>5, <2>1, DeleteFollowing
<1>8. Follows(t, m + 1)
  BY <1>1, <1>2, <1>7 DEF Follows
<1>9. LogOK(t, m + 1)
  BY <1>2, <1>8, LogLonger DEF m
<1>. QED
  BY <1>1, <1>2, <1>3, <1>9 DEF m, t

-----------------------------------------------------------------------------
(* What the steps do to memory                                             *)

LEMMA CleanNothing == \A s : Clean(s, 0)
BY DEF Clean

LEMMA FaultDown ==
    ASSUME TypeInv', LogOK(log, Len(log))', phase' = "down",
           extToInt' = Empty, intToExt' = Empty, payload' = Empty,
           index' = Empty, idCounter' = 0
    PROVE  FaultInv'
<1>1. /\ DOMAIN extToInt' = {} /\ DOMAIN intToExt' = {}
      /\ DOMAIN payload' = {} /\ DOMAIN index' = {}
  BY EmptyMap
<1>2. (Paired /\ OwnItems /\ Written /\ IndexInserted)'
  BY <1>1 DEF Paired, OwnItems, Written, IndexInserted
<1>3. Counting'
  BY <1>1 DEF Counting
<1>4. PhaseInv'
  BY <1>1 DEF PhaseInv
<1>. QED
  BY <1>2, <1>3, <1>4 DEF FaultInv, Memory

LEMMA FaultInit == Init => FaultInv
<1> SUFFICES ASSUME Init PROVE FaultInv
  OBVIOUS
<1>1. TypeInv
  BY TypeInit
<1>2. /\ DOMAIN extToInt = {} /\ DOMAIN intToExt = {}
      /\ DOMAIN payload = {} /\ DOMAIN index = {}
  BY EmptyMap DEF Init
<1>3. Memory
  BY <1>2 DEF Init, Memory, Paired, OwnItems, Written, IndexInserted, Counting
<1>4. PhaseInv
  BY <1>2 DEF Init, PhaseInv
<1>5. LogOK(log, Len(log))
  BY DEF Init, LogOK
<1>. QED
  BY <1>1, <1>3, <1>4, <1>5 DEF FaultInv

(* Steps that leave memory as it is, and the log or what it begins with.   *)
LEMMA MemoryLogged ==
    ASSUME FaultInv, UNCHANGED memory,
           DOMAIN log \subseteq DOMAIN log', \A p \in DOMAIN log : log'[p] = log[p],
           Reached \subseteq Reached', Reached \subseteq DOMAIN log
    PROVE  Memory'
<1>1. UNCHANGED <<idCounter, extToInt, intToExt, payload, index>>
  BY DEF memory, maps
<1>2. Paired'
  BY <1>1 DEF FaultInv, Memory, Paired
<1>3. (OwnItems /\ Written /\ IndexInserted)'
  BY <1>1, DocumentsStay DEF FaultInv, Memory
<1>4. \A p \in Reached : p \in Reached' /\ log'[p] = log[p]
  OBVIOUS
<1>5. Counting'
  BY <1>1, <1>4 DEF FaultInv, Memory, Counting
<1>. QED
  BY <1>2, <1>3, <1>5 DEF Memory

LEMMA FaultSame ==
    ASSUME FaultInv, TypeInv', UNCHANGED <<log, memory>>,
           \/ phase' = phase /\ cursor' = cursor
           \/ phase = "ready" /\ phase' = "closed"
    PROVE  FaultInv'
<1>1. UNCHANGED <<idCounter, extToInt, intToExt, payload, index>>
  BY DEF memory, maps
<1>2. Reached' = Reached
  BY DEF Reached
<1>3. Reached \subseteq DOMAIN log
  BY FaultTypes DEF Reached, FaultInv, PhaseInv
<1>4. Memory'
  BY <1>2, <1>3, MemoryLogged
<1>5. PhaseInv'
  BY <1>1 DEF FaultInv, PhaseInv, Replayed, RevivedStale
<1>. QED
  BY <1>4, <1>5 DEF FaultInv

(* An append by a collection in use that leaves its memory as it is.       *)
LEMMA FaultLogged ==
    ASSUME FaultInv, TypeInv', UNCHANGED memory, phase = "ready", phase' = "ready",
           NEW t, log' = t, Len(log) <= Len(t), LogOK(t, Len(t)),
           \A p \in 1 .. Len(log) : t[p] = log[p],
           UseOK(t, Len(t), extToInt, index, idCounter)
    PROVE  FaultInv'
<1>1. UNCHANGED <<idCounter, extToInt, intToExt, payload, index>>
  BY DEF memory, maps
<1>2. /\ DOMAIN log = 1 .. Len(log) /\ Len(log) \in Nat
      /\ DOMAIN log' = 1 .. Len(t) /\ Len(t) \in Nat
  BY FaultTypes DEF TypeInv
<1>3. DOMAIN log \subseteq DOMAIN log' /\ \A p \in DOMAIN log : log'[p] = log[p]
  BY <1>2
<1>4. Reached = DOMAIN log /\ Reached' = DOMAIN log'
  BY DEF Reached
<1>5. Memory'
  BY <1>3, <1>4, MemoryLogged
<1>6. PhaseInv'
  BY <1>1 DEF PhaseInv
<1>. QED
  BY <1>5, <1>6 DEF FaultInv

LEMMA FaultInsert ==
    ASSUME FaultInv, TypeInv', NEW e \in ExternalIDs, NEW item \in Items,
           InsertOK(e, item)
    PROVE  FaultInv'
<1> DEFINE n == Len(log)
           t == log'
<1>1. phase = "ready" /\ phase' = "ready" /\ e \notin used
      /\ internalID \notin DOMAIN index
      /\ log' = Append(log, InsertRecord(e, internalID, item))
  BY DEF InsertOK, Draw
<1>2. /\ n \in Nat /\ DOMAIN log = 1 .. n /\ idCounter \in Nat
      /\ internalID = idCounter + 1
      /\ e \notin DOMAIN extToInt
  BY <1>1, FaultTypes, FreshExternalID DEF FaultInv
<1>3. /\ t \in Seq(Record) /\ Len(t) = n + 1
      /\ \A p \in 1 .. n : t[p] = log[p]
      /\ InsertAt(t, n + 1, e, internalID)
      /\ t[n + 1].raw = item /\ t[n + 1].meta = JSON(item)
      /\ LogOK(t, Len(t))
  <2>1. t = Inserting(e, item)
    BY <1>1 DEF Inserting
  <2>2. LogInserted(t, e, item)
    BY <1>1, <2>1, InsertLogged
  <2>. QED
    BY <2>2 DEF LogInserted
<1>4. /\ index' = Put(index, internalID, Unit(item))
      /\ extToInt' = Put(extToInt, e, internalID)
      /\ intToExt' = Put(intToExt, internalID, e)
      /\ payload' = Put(payload, e, item)
      /\ idCounter' = internalID
  BY DEF InsertOK
<1>5. DOMAIN t = 1 .. n + 1 /\ n + 1 \in DOMAIN t /\ DOMAIN log \subseteq DOMAIN t
  BY <1>2, <1>3
<1>6. Paired'
  BY <1>1, <1>2, <1>4, PairedPut DEF FaultInv, Memory
<1>7. (OwnItems /\ Written /\ IndexInserted)'
  <2>1. SameItem(Unit(item), item)
    BY DEF SameItem
  <2>2. \A p \in DOMAIN log : log'[p] = log[p]
    BY <1>2, <1>3
  <2>3. \E p \in DOMAIN log' : /\ InsertAt(log', p, e, internalID)
                               /\ item \in {log'[p].raw, log'[p].meta}
    BY <1>3, <1>5
  <2>. QED
    BY <1>1, <1>2, <1>4, <1>5, <2>1, <2>2, <2>3, DocumentWritten
       DEF FaultInv, Memory
<1>8. Counting'
  <2>1. DOMAIN intToExt' = DOMAIN intToExt \cup {internalID}
    BY <1>4, PutValues
  <2>2. \A i \in DOMAIN intToExt : i \in Nat /\ i <= idCounter
    BY FaultTypes DEF FaultInv, Memory, Paired, Counting
  <2>3. \A i \in DOMAIN intToExt' : i <= idCounter'
    BY <1>2, <1>4, <2>1, <2>2
  <2>4. Reached = DOMAIN log /\ Reached' = DOMAIN t
    BY <1>1 DEF Reached
  <2>5. ASSUME NEW k \in 1 .. idCounter'
        PROVE  \E p \in DOMAIN t : t[p].op = "insert" /\ t[p].int = k
    <3>1. CASE k = internalID
      BY <1>3, <1>5, <3>1 DEF InsertAt
    <3>2. CASE k # internalID
      <4>1. k \in 1 .. idCounter
        BY <1>2, <1>4, <2>5, <3>2
      <4>2. PICK p \in DOMAIN log : log[p].op = "insert" /\ log[p].int = k
        BY <2>4, <4>1 DEF FaultInv, Memory, Counting
      <4>. QED
        BY <1>2, <1>3, <1>5, <4>2
    <3>. QED
      BY <3>1, <3>2
  <2>. QED
    BY <2>3, <2>4, <2>5 DEF Counting
<1>9. UseOK(log', Len(log'), extToInt', index', idCounter')
  <2>1. UseOK(log, n, extToInt, index, idCounter)
    BY <1>1 DEF FaultInv, PhaseInv
  <2>2. /\ \A x \in DOMAIN extToInt : extToInt[x] \in Nat /\ extToInt[x] <= idCounter
        /\ \A i \in DOMAIN index : i \in Nat
        /\ \A q \in 1 .. n : log[q].int \in Nat
    BY FaultTypes
  <2>3. t[n + 1].op = "insert" /\ t[n + 1].ext = e /\ t[n + 1].int = idCounter + 1
    BY <1>2, <1>3 DEF InsertAt
  <2> HIDE DEF t, n
  <2>4. UseOK(t, n + 1, Put(extToInt, t[n + 1].ext, idCounter + 1),
              Put(index, idCounter + 1, Unit(item)), idCounter + 1)
    BY <1>1, <1>2, <1>3, <2>1, <2>2, <2>3, UsePut
  <2>. QED
    BY <1>2, <1>3, <1>4, <2>3, <2>4 DEF t
<1>10. PhaseInv'
  BY <1>1, <1>9 DEF PhaseInv
<1>. QED
  BY <1>3, <1>6, <1>7, <1>8, <1>10 DEF FaultInv, Memory

LEMMA FaultDelete ==
    ASSUME FaultInv, TypeInv', NEW e \in ExternalIDs, DeleteOK(e)
    PROVE  FaultInv'
<1> DEFINE n == Len(log)
           t == log'
           i == extToInt[e]
<1>1. /\ phase = "ready" /\ phase' = "ready" /\ e \in DOMAIN extToInt
      /\ log' = Append(log, DeleteRecord(e, extToInt[e]))
      /\ DropDocument(e, i) /\ idCounter' = idCounter
  BY DEF DeleteOK
<1>2. /\ n \in Nat /\ DOMAIN log = 1 .. n /\ idCounter \in Nat
      /\ i \in Nat \ {0} /\ i <= idCounter
  BY <1>1, FaultTypes
<1>3. /\ t \in Seq(Record) /\ Len(t) = n + 1
      /\ \A p \in 1 .. n : t[p] = log[p]
      /\ t[n + 1].op = "delete" /\ t[n + 1].ext = e /\ t[n + 1].int = i
      /\ LogOK(t, Len(t))
  <2>1. t = Deleting(e)
    BY <1>1 DEF Deleting
  <2>2. LogDeleted(t, e)
    BY <1>1, <2>1, DeleteLogged
  <2>. QED
    BY <2>2 DEF LogDeleted
<1>4. /\ DOMAIN t = 1 .. n + 1 /\ DOMAIN log \subseteq DOMAIN t
      /\ \A p \in DOMAIN log : log'[p] = log[p]
  BY <1>2, <1>3
<1>5. Paired'
  BY <1>1, PairedDrop DEF FaultInv, Memory
<1>6. (OwnItems /\ Written /\ IndexInserted)'
  BY <1>1, <1>4, DocumentsDropped DEF FaultInv, Memory
<1>7. Counting'
  <2>1. DOMAIN intToExt' \subseteq DOMAIN intToExt
    BY <1>1 DEF DropDocument, Drop
  <2>2. Reached = DOMAIN log /\ Reached' = DOMAIN t
    BY <1>1 DEF Reached
  <2>3. \A k \in 1 .. idCounter :
           \E p \in DOMAIN log : log[p].op = "insert" /\ log[p].int = k
    BY <2>2 DEF FaultInv, Memory, Counting
  <2>. QED
    BY <1>1, <1>4, <2>1, <2>2, <2>3 DEF FaultInv, Memory, Counting
<1>8. UseOK(log', Len(log'), extToInt', index', idCounter')
  <2>1. UseOK(log, n, extToInt, index, idCounter)
    BY <1>1 DEF FaultInv, PhaseInv
  <2> HIDE DEF t, n, i
  <2>2. UseOK(t, n + 1, Drop(extToInt, t[n + 1].ext), Drop(index, t[n + 1].int),
              idCounter)
    BY <1>2, <1>3, <2>1, UseDrop
  <2>. QED
    BY <1>1, <1>3, <2>2 DEF t, DropDocument
<1>9. PhaseInv'
  BY <1>1, <1>8 DEF PhaseInv
<1>. QED
  BY <1>3, <1>5, <1>6, <1>7, <1>9 DEF FaultInv, Memory

(* A failing append may leave its record.                                  *)
LEMMA FaultInsertFails ==
    ASSUME FaultInv, TypeInv', NEW e \in ExternalIDs, NEW item \in Items,
           InsertFails(e, item)
    PROVE  FaultInv'
<1> DEFINE r == InsertRecord(e, internalID, item)
<1>1. /\ phase = "ready" /\ phase' = "ready" /\ cursor' = cursor /\ e \notin used
      /\ UNCHANGED memory /\ (log' = log \/ log' = Append(log, r))
  BY DEF InsertFails, Faulty, Draw
<1>2. CASE log' = log
  BY <1>1, <1>2, FaultSame
<1>3. CASE log' = Append(log, r)
  <2> DEFINE n == Len(log)
             t == log'
  <2>1. LogInserted(t, e, item)
    <3>1. t = Inserting(e, item)
      BY <1>3 DEF Inserting
    <3>. QED
      BY <1>1, <3>1, InsertLogged
  <2> HIDE DEF t
  <2>2. /\ Len(t) = n + 1 /\ LogOK(t, Len(t))
        /\ \A p \in 1 .. n : t[p] = log[p]
        /\ t[n + 1].op = "insert" /\ t[n + 1].int = idCounter + 1
    BY <2>1, FaultTypes DEF InsertAt, LogInserted
  <2>3. UseOK(log, n, extToInt, index, idCounter)
    BY <1>1 DEF FaultInv, PhaseInv
  <2>4. /\ n \in Nat /\ idCounter \in Nat
        /\ \A x \in DOMAIN extToInt : extToInt[x] \in Nat /\ extToInt[x] <= idCounter
    BY FaultTypes
  <2> HIDE DEF n
  <2>5. UseOK(t, n + 1, extToInt, index, idCounter)
    BY <2>2, <2>3, <2>4, UseLogged
  <2>6. Len(log) <= Len(t)
    BY <2>2, <2>4 DEF n
  <2>. QED
    BY <1>1, <2>2, <2>5, <2>6, FaultLogged DEF t, n
<1>. QED
  BY <1>1, <1>2, <1>3

LEMMA FaultDeleteFails ==
    ASSUME FaultInv, TypeInv', NEW e \in ExternalIDs, DeleteFails(e)
    PROVE  FaultInv'
<1> DEFINE r == DeleteRecord(e, extToInt[e])
<1>1. /\ phase = "ready" /\ phase' = "ready" /\ cursor' = cursor
      /\ e \in DOMAIN extToInt
      /\ UNCHANGED memory /\ (log' = log \/ log' = Append(log, r))
  BY DEF DeleteFails, Faulty
<1>2. CASE log' = log
  BY <1>1, <1>2, FaultSame
<1>3. CASE log' = Append(log, r)
  <2> DEFINE n == Len(log)
             t == log'
  <2>1. LogDeleted(t, e)
    <3>1. t = Deleting(e)
      BY <1>3 DEF Deleting
    <3>. QED
      BY <1>1, <3>1, DeleteLogged
  <2> HIDE DEF t
  <2>2. /\ Len(t) = n + 1 /\ LogOK(t, Len(t))
        /\ \A p \in 1 .. n : t[p] = log[p]
        /\ t[n + 1].op = "delete" /\ t[n + 1].int <= idCounter
    BY <1>1, <2>1, FaultTypes DEF LogDeleted
  <2>3. UseOK(log, n, extToInt, index, idCounter)
    BY <1>1 DEF FaultInv, PhaseInv
  <2>4. n \in Nat /\ idCounter \in Nat
    BY FaultTypes
  <2> HIDE DEF n
  <2>5. UseOK(t, n + 1, extToInt, index, idCounter)
    BY <2>2, <2>3, <2>4, UseUnlogged
  <2>6. Len(log) <= Len(t)
    BY <2>2, <2>4 DEF n
  <2>. QED
    BY <1>1, <2>2, <2>5, <2>6, FaultLogged DEF t, n
<1>. QED
  BY <1>1, <1>2, <1>3

(* An insert that the index refuses: the log gets it, and mostly the       *)
(* record that cancels it.                                                 *)
LEMMA FaultCompensated ==
    ASSUME FaultInv, TypeInv', NEW e \in ExternalIDs, NEW item \in Items,
           InsertCompensated(e, item)
    PROVE  FaultInv'
<1> DEFINE n == Len(log)
           s == Inserting(e, item)
           t == log'
<1>1. /\ phase = "ready" /\ phase' = "ready" /\ e \notin used
      /\ internalID \in DOMAIN index /\ UNCHANGED memory
      /\ t = s \/ t = Canceling(s, e, internalID)
  BY DEF InsertCompensated, Draw, Inserting, Canceling
<1>2. /\ n \in Nat /\ idCounter \in Nat
      /\ internalID = idCounter + 1 /\ internalID \in Nat \ {0}
      /\ \A x \in DOMAIN extToInt : extToInt[x] \in Nat /\ extToInt[x] <= idCounter
  BY FaultTypes
<1>3. /\ s \in Seq(Record) /\ Len(s) = n + 1 /\ LogOK(s, Len(s))
      /\ \A p \in 1 .. n : s[p] = log[p]
      /\ InsertAt(s, n + 1, e, internalID)
  BY <1>1, InsertLogged DEF LogInserted
<1>4. UseOK(log, n, extToInt, index, idCounter) /\ Stuck(index, idCounter)
  BY <1>1, <1>2 DEF FaultInv, PhaseInv, Stuck
<1> HIDE DEF s, t
<1>5. UseOK(s, n + 1, extToInt, index, idCounter)
  BY <1>2, <1>3, <1>4, UseLogged DEF InsertAt
<1>6. n <= Len(s) /\ \A p \in 1 .. n : p \in 1 .. n + 1
  BY <1>2, <1>3
<1>7. CASE t = s
  <2> HIDE DEF n
  <2>1. Len(t) = n + 1 /\ Len(log) <= Len(t)
    BY <1>3, <1>6, <1>7 DEF n
  <2>. QED
    BY <1>1, <1>3, <1>5, <1>7, <2>1, FaultLogged DEF t, n
<1>8. CASE t = Canceling(s, e, internalID)
  <2> HIDE DEF n
  <2>1. /\ Len(t) = n + 2 /\ LogOK(t, Len(t))
        /\ \A p \in 1 .. n + 1 : t[p] = s[p]
        /\ t[n + 2].op = "delete"
    BY <1>2, <1>3, <1>8, CancelLogged
  <2>2. n + 1 \in Nat /\ (n + 1) + 1 = n + 2 /\ n <= n + 2
    BY <1>2
  <2>3. UseOK(t, n + 2, extToInt, index, idCounter)
    <3> DEFINE m == n + 1
    <3>1. /\ m \in Nat /\ m + 1 = n + 2 /\ t[m + 1].op = "delete"
          /\ UseOK(s, m, extToInt, index, idCounter)
          /\ \A p \in 1 .. m : t[p] = s[p]
      BY <1>5, <2>1, <2>2
    <3> HIDE DEF m
    <3>2. UseOK(t, m + 1, extToInt, index, idCounter)
      BY <1>2, <1>4, <3>1, UseUnlogged
    <3>. QED
      BY <3>1, <3>2
  <2>4. /\ Len(log) <= Len(t) /\ \A p \in 1 .. n : t[p] = log[p]
    BY <1>3, <1>6, <2>1, <2>2 DEF n
  <2>. QED
    BY <1>1, <2>1, <2>3, <2>4, FaultLogged DEF t, n
<1>. QED
  BY <1>1, <1>7, <1>8

(* A replay begins, from nothing or, in a reload, with the index there is. *)
LEMMA FaultBegins ==
    ASSUME FaultInv, TypeInv', OpenCollection \/ Reload
    PROVE  FaultInv'
<1>1. /\ log' = log /\ index' = index /\ cursor' = 0 /\ idCounter' = 0
      /\ DOMAIN extToInt' = {} /\ DOMAIN intToExt' = {} /\ DOMAIN payload' = {}
      /\ OpenCollection => phase' = "loading"
      /\ Reload => phase = "ready" /\ phase' = "reloading"
  BY EmptyMap DEF OpenCollection, Reload, memory, maps, FaultInv, PhaseInv
<1>2. (Paired /\ OwnItems /\ Written /\ IndexInserted /\ Counting)'
  <2>1. (Paired /\ OwnItems /\ Written /\ Counting)'
    BY <1>1 DEF Paired, OwnItems, Written, Counting
  <2>2. IndexInserted'
    BY <1>1 DEF FaultInv, Memory, IndexInserted
  <2>. QED
    BY <2>1, <2>2
<1>3. Serves(log', 0, extToInt', index', payload') /\ Clean(log', 0)
  BY <1>1, ServesNothing, CleanNothing
<1>4. Replayed(0)'
  BY <1>3 DEF Replayed
<1>5. ASSUME Reload
      PROVE  RevivedStale'
  <2>1. UseOK(log, Len(log), extToInt, index, idCounter)
    BY <1>1, <1>5 DEF FaultInv, PhaseInv
  <2>. QED
    BY <1>1, <2>1 DEF RevivedStale, UseOK, Usable
<1>6. PhaseInv'
  <2>1. cursor' <= Len(log') /\ Replayed(cursor)'
    BY <1>1, <1>4, FaultTypes DEF Replayed
  <2>. QED
    BY <1>1, <1>5, <2>1 DEF PhaseInv
<1>. QED
  BY <1>1, <1>2, <1>6 DEF FaultInv, Memory

LEMMA FaultReplayInsert ==
    ASSUME FaultInv, TypeInv', ReplayInsert
    PROVE  FaultInv'
<1> DEFINE c == cursor
           n == Len(log)
           e == record.ext
           i == record.int
<1>1. /\ Replaying /\ record.op = "insert" /\ i \notin DOMAIN index
      /\ log' = log /\ phase' = phase /\ cursor' = c + 1
      /\ Bump(i)
      /\ index' = Put(index, i, Unit(record.raw))
      /\ extToInt' = Put(extToInt, e, i) /\ intToExt' = Put(intToExt, i, e)
      /\ payload' = Put(payload, e, record.meta)
      /\ phase \in {"loading", "reloading"}
  BY DEF ReplayInsert, Collides, Replaying
<1>2. /\ c \in Nat /\ c + 1 \in 1 .. n /\ n \in Nat /\ idCounter \in Nat
      /\ DOMAIN log = 1 .. n /\ record = log[c + 1]
      /\ Replayed(c) /\ e \notin DOMAIN extToInt
      /\ i \in Nat \ {0}
  BY <1>1, NextReplayed, FaultTypes DEF record
<1>3. InsertFollows(log, c + 1)
  BY <1>1, <1>2, NextReplayed DEF Follows
<1>4. \A p \in Live(log, c) : log[p].int # i
  <2>1. ASSUME NEW p \in Live(log, c)
        PROVE  log[p].int \in DOMAIN index
    <3>1. log[p].ext \in DOMAIN extToInt /\ extToInt[log[p].ext] = log[p].int
      BY <1>2, <2>1 DEF Replayed, Serves
    <3>. QED
      BY <3>1, FaultTypes
  <2>. QED
    BY <1>1, <2>1
<1> HIDE DEF e, i
<1>5. Paired'
  BY <1>1, <1>2, PairedPut DEF FaultInv, Memory
<1>6. (OwnItems /\ Written /\ IndexInserted)'
  <2>1. record \in Record /\ record.meta = JSON(record.raw)
    BY <1>2, <1>3, FaultTypes DEF InsertFollows
  <2>2. SameItem(Unit(record.raw), record.meta)
    <3>1. record.raw \in Items
      BY <1>1, <2>1 DEF Record
    <3>. QED
      BY <2>1, <3>1 DEF SameItem
  <2>3. \E p \in DOMAIN log' : /\ InsertAt(log', p, e, i)
                               /\ record.meta \in {log'[p].raw, log'[p].meta}
    BY <1>1, <1>2 DEF InsertAt, e, i
  <2>. QED
    BY <1>1, <1>2, <2>2, <2>3, DocumentWritten DEF FaultInv, Memory
<1>7. idCounter' \in Nat /\ idCounter <= idCounter' /\ i <= idCounter'
      /\ (idCounter' = idCounter \/ idCounter' = i)
  BY <1>1, <1>2 DEF Bump
<1>8. Counting'
  <2>1. DOMAIN intToExt' = DOMAIN intToExt \cup {i}
    <3>1. intToExt' = Put(intToExt, i, e)
      BY <1>1
    <3>. QED
      BY <3>1 DEF Put
  <2>2. \A k \in DOMAIN intToExt : k \in Nat /\ k <= idCounter
    BY FaultTypes DEF FaultInv, Memory, Paired, Counting
  <2>3. \A k \in DOMAIN intToExt' : k <= idCounter'
    BY <1>2, <1>7, <2>1, <2>2
  <2>4. Reached = 1 .. c /\ Reached' = 1 .. c + 1
    BY <1>1 DEF Reached
  <2>5. ASSUME NEW k \in 1 .. idCounter'
        PROVE  \E p \in 1 .. c + 1 : log[p].op = "insert" /\ log[p].int = k
    <3>1. CASE k = i
      <4>1. c + 1 \in 1 .. c + 1
        BY <1>2
      <4>. QED
        BY <1>1, <1>2, <3>1, <4>1 DEF i
    <3>2. CASE k \in 1 .. idCounter
      <4>1. PICK p \in 1 .. c : log[p].op = "insert" /\ log[p].int = k
        BY <2>4, <3>2 DEF FaultInv, Memory, Counting
      <4>. QED
        BY <1>2, <4>1
    <3>3. CASE k \in 1 .. i - 1
      <4>1. (c + 1) - 1 = c
        BY <1>2
      <4>2. PICK p \in 1 .. c : log[p].op = "insert" /\ log[p].int = k
        BY <1>2, <1>3, <3>3, <4>1 DEF InsertFollows, i
      <4>. QED
        BY <1>2, <4>2
    <3>. QED
      BY <1>2, <1>7, <2>5, <3>1, <3>2, <3>3
  <2>. QED
    BY <1>1, <2>3, <2>4, <2>5 DEF Counting
<1>d. /\ DOMAIN index' = DOMAIN index \cup {i}
      /\ DOMAIN intToExt' = DOMAIN intToExt \cup {i}
  <2>1. index' = Put(index, i, Unit(record.raw)) /\ intToExt' = Put(intToExt, i, e)
    BY <1>1
  <2>. QED
    BY <2>1 DEF Put
<1>9. Replayed(cursor)'
  <2>1. Serves(log, c + 1, extToInt', index', payload')
    <3>1. Serves(log, c, extToInt, index, payload)
      BY <1>2 DEF Replayed
    <3>2. Covered(extToInt, index, payload)
      BY DEF FaultInv, Memory, Paired, Covered
    <3>3. Plain(record.meta) = record.meta
      BY <1>1, <1>2, FaultTypes, RecordFields, PlainPayload
    <3>4. /\ log[c + 1].op = "insert" /\ log[c + 1].ext = e
          /\ log[c + 1].int = i /\ log[c + 1].raw = record.raw
          /\ log[c + 1].meta = record.meta
      BY <1>1, <1>2 DEF e, i
    <3>5. Serves(log, c + 1, Put(extToInt, log[c + 1].ext, log[c + 1].int),
                 Put(index, log[c + 1].int, Unit(log[c + 1].raw)),
                 Put(payload, log[c + 1].ext, record.meta))
      BY <1>1, <1>2, <3>1, <3>2, <3>3, <3>4, PutServes
    <3>. QED
      BY <1>1, <3>4, <3>5
  <2>2. Clean(log, c + 1)
    BY <1>2, <1>4, CleanInsert DEF Replayed, i
  <2>4. ASSUME NEW p \in 1 .. c + 1
        PROVE  /\ log[p].int <= idCounter'
               /\ log[p].op = "insert" /\ log[p].int \in DOMAIN index'
                     => log[p].int \in DOMAIN intToExt'
    <3>1. CASE p = c + 1
      BY <1>2, <1>7, <1>d, <3>1 DEF i
    <3>2. CASE p # c + 1
      <4>1. p \in 1 .. c /\ log[p].int \in Nat
        BY <1>2, <3>2, FaultTypes
      <4>2. log[p].int <= idCounter
        BY <1>2, <4>1 DEF Replayed
      <4>3. log[p].int <= idCounter'
        BY <1>2, <1>7, <4>1, <4>2
      <4>. QED
        BY <1>2, <1>d, <4>1, <4>3 DEF Replayed
    <3>. QED
      BY <3>1, <3>2
  <2>. QED
    BY <1>1, <2>1, <2>2, <2>4 DEF Replayed
<1>10. ASSUME phase = "reloading"
       PROVE  RevivedStale'
  <2>1. RevivedStale
    BY <1>10 DEF FaultInv, PhaseInv
  <2>. QED
    BY <1>1, <1>d, <2>1 DEF RevivedStale
<1>11. PhaseInv'
  <2>1. cursor' <= Len(log')
    BY <1>1, <1>2
  <2>. QED
    BY <1>1, <1>9, <1>10, <2>1 DEF PhaseInv
<1>. QED
  BY <1>1, <1>5, <1>6, <1>8, <1>11 DEF FaultInv, Memory

LEMMA FaultReplayDelete ==
    ASSUME FaultInv, TypeInv', ReplayDelete
    PROVE  FaultInv'
<1> DEFINE c == cursor
           n == Len(log)
           e == record.ext
           i == record.int
<1>1. /\ Replaying /\ record.op = "delete"
      /\ log' = log /\ phase' = phase /\ cursor' = c + 1
      /\ Bump(i) /\ DropDocument(e, i)
      /\ phase \in {"loading", "reloading"}
  BY DEF ReplayDelete, Replaying
<1>2. /\ c \in Nat /\ c + 1 \in 1 .. n /\ n \in Nat /\ idCounter \in Nat
      /\ DOMAIN log = 1 .. n /\ record = log[c + 1]
      /\ Replayed(c) /\ i \in Nat \ {0} /\ i <= idCounter
      /\ \/ e \in DOMAIN extToInt /\ extToInt[e] = i
         \/ e \notin DOMAIN extToInt /\ i \notin DOMAIN intToExt
            /\ i \notin DOMAIN index
  BY <1>1, NextReplayed, FaultTypes DEF record
<1> HIDE DEF e, i
<1>3. idCounter' = idCounter
  BY <1>1, <1>2 DEF Bump
<1>4. Paired'
  BY <1>1, <1>2, PairedDrop DEF FaultInv, Memory
<1>5. (OwnItems /\ Written /\ IndexInserted)'
  BY <1>1, <1>2, DocumentsDropped DEF FaultInv, Memory
<1>6. /\ DOMAIN index' = DOMAIN index \ {i}
      /\ DOMAIN intToExt' = DOMAIN intToExt \ {i}
  BY <1>1 DEF DropDocument, Drop
<1>7. Counting'
  <2>1. Reached \subseteq Reached'
    BY <1>1, <1>2 DEF Reached
  <2>. QED
    BY <1>1, <1>3, <1>6, <2>1 DEF FaultInv, Memory, Counting
<1>8. Replayed(cursor)'
  <2>1. Serves(log, c + 1, extToInt', index', payload')
    <3>1. Serves(log, c, extToInt, index, payload)
      BY <1>2 DEF Replayed
    <3>2. Covered(extToInt, index, payload)
      BY DEF FaultInv, Memory, Paired, Covered
    <3>3. \A x \in DOMAIN extToInt : extToInt[x] = i <=> x = e
      BY <1>2 DEF FaultInv, Memory, Paired
    <3>4. log[c + 1].op = "delete" /\ log[c + 1].ext = e /\ log[c + 1].int = i
      BY <1>1, <1>2 DEF e, i
    <3>5. Serves(log, c + 1, Drop(extToInt, log[c + 1].ext),
                 Drop(index, log[c + 1].int), Drop(payload, log[c + 1].ext))
      BY <1>2, <3>1, <3>2, <3>3, <3>4, DropServes
    <3>. QED
      BY <1>1, <3>4, <3>5 DEF DropDocument
  <2>2. Clean(log, c + 1)
    BY <1>1, <1>2, CleanDelete DEF Replayed
  <2>3. ASSUME NEW p \in 1 .. c + 1
        PROVE  /\ log[p].int <= idCounter'
               /\ log[p].op = "insert" /\ log[p].int \in DOMAIN index'
                     => log[p].int \in DOMAIN intToExt'
    <3>1. CASE p = c + 1
      BY <1>1, <1>2, <1>3, <3>1 DEF i
    <3>2. CASE p # c + 1
      <4>1. p \in 1 .. c
        BY <1>2, <3>2
      <4>. QED
        BY <1>2, <1>3, <1>6, <4>1 DEF Replayed
    <3>. QED
      BY <3>1, <3>2
  <2>. QED
    BY <1>1, <2>1, <2>2, <2>3 DEF Replayed
<1>9. ASSUME phase = "reloading"
      PROVE  RevivedStale'
  <2>1. RevivedStale
    BY <1>9 DEF FaultInv, PhaseInv
  <2>2. i \notin DOMAIN index \ DOMAIN intToExt
    BY <1>2 DEF FaultInv, Memory, Paired
  <2>. QED
    BY <1>1, <1>6, <2>1, <2>2 DEF RevivedStale
<1>10. PhaseInv'
  <2>1. cursor' <= Len(log')
    BY <1>1, <1>2
  <2>. QED
    BY <1>1, <1>8, <1>9, <2>1 DEF PhaseInv
<1>. QED
  BY <1>1, <1>4, <1>5, <1>7, <1>10 DEF FaultInv, Memory

(* A replay that got through the whole log leaves a usable collection.     *)
LEMMA FaultLoadDone ==
    ASSUME FaultInv, TypeInv', LoadDone
    PROVE  FaultInv'
<1> DEFINE n == Len(log)
<1>1. /\ phase \in {"loading", "reloading"} /\ phase' = "ready" /\ cursor = n
      /\ UNCHANGED <<log, memory>>
  BY DEF LoadDone
<1>2. UNCHANGED <<idCounter, extToInt, intToExt, payload, index>>
  BY <1>1 DEF memory, maps
<1>3. Replayed(n)
  BY <1>1 DEF FaultInv, PhaseInv
<1>4. n \in Nat /\ DOMAIN log = 1 .. n
  BY FaultTypes
<1>5. Memory'
  <2>1. Reached = DOMAIN log /\ Reached' = DOMAIN log
    BY <1>1, <1>4 DEF Reached
  <2>. QED
    BY <1>1, <2>1, MemoryLogged
<1>6. Usable(log, n, extToInt, index, idCounter)
  <2>1. ASSUME NEW p \in Live(log, n)
        PROVE  /\ log[p].ext \in DOMAIN extToInt
               /\ extToInt[log[p].ext] = log[p].int
               /\ log[p].int \in DOMAIN index
    <3>1. log[p].ext \in DOMAIN extToInt /\ extToInt[log[p].ext] = log[p].int
      BY <1>3, <2>1 DEF Replayed, Serves
    <3>. QED
      BY <3>1, FaultTypes
  <2>2. ASSUME NEW x \in DOMAIN extToInt, NEW p \in Live(log, n),
               log[p].int = extToInt[x]
        PROVE  log[p].ext = x
    BY <2>1, <2>2 DEF FaultInv, Memory, Paired
  <2>3. Covers(log, n, index, idCounter)
    <3>1. \A q \in 1 .. n : log[q].int <= idCounter
      BY <1>3 DEF Replayed
    <3>2. \A k \in DOMAIN index : k <= idCounter
      BY <1>4, <3>1 DEF FaultInv, Memory, IndexInserted
    <3>. QED
      BY <3>1, <3>2 DEF Covers
  <2>. QED
    BY <2>1, <2>2, <2>3 DEF Usable
<1>7. PhaseInv'
  BY <1>1, <1>2, <1>6 DEF PhaseInv, UseOK
<1>. QED
  BY <1>1, <1>5, <1>7 DEF FaultInv

(* One that met an id in the index leaves a collection that inserts no     *)
(* more, unless the log can never be replayed.                             *)
LEMMA FaultCollides ==
    ASSUME FaultInv, TypeInv', ReplayCollides
    PROVE  FaultInv'
<1> DEFINE c == cursor
           n == Len(log)
           j == record.int
<1>1. /\ Replaying /\ record.op = "insert" /\ j \in DOMAIN index /\ log' = log
      /\ \/ /\ phase = "reloading" /\ phase' = "ready" /\ UNCHANGED memory
         \/ /\ phase = "loading" /\ phase' = "down"
            /\ idCounter' = 0 /\ extToInt' = Empty /\ intToExt' = Empty
            /\ payload' = Empty /\ index' = Empty
  BY DEF ReplayCollides, Collides
<1>2. CASE phase = "loading"
  BY <1>1, <1>2, FaultDown DEF FaultInv
<1>3. CASE phase = "reloading"
  <2>1. phase' = "ready" /\ UNCHANGED <<log, memory>>
    BY <1>1, <1>3
  <2>2. UNCHANGED <<idCounter, extToInt, intToExt, payload, index>>
    BY <2>1 DEF memory, maps
  <2>3. /\ c \in Nat /\ c + 1 \in 1 .. n /\ n \in Nat /\ idCounter \in Nat
        /\ DOMAIN log = 1 .. n /\ record = log[c + 1] /\ (c + 1) - 1 = c
        /\ Replayed(c) /\ j \in Nat \ {0} /\ InsertFollows(log, c + 1)
    BY <1>1, NextReplayed, FaultTypes DEF record, Follows
  <2>4. Memory'
    <3>1. Reached = 1 .. c /\ Reached' = 1 .. n
      BY <1>3, <2>1, <2>3 DEF Reached
    <3>2. Reached \subseteq Reached' /\ Reached \subseteq DOMAIN log
      BY <2>3, <3>1
    <3>. QED
      BY <2>1, <3>2, MemoryLogged
  <2>5. ASSUME Clean(log, n)
        PROVE  Usable(log, n, extToInt, index, idCounter)
    <3>1. RevivedStale
      BY <1>3 DEF FaultInv, PhaseInv
    <3>2. \A p \in Live(log, n), q \in 1 .. n :
             log[q].op = "delete" /\ log[q].int = log[p].int
                => log[p].int \in DOMAIN index /\ log[p].int \notin DOMAIN intToExt
      BY <2>5, <3>1 DEF RevivedStale
    <3>3. ASSUME NEW x \in DOMAIN extToInt
          PROVE  \E p \in Live(log, c) : log[p].ext = x /\ log[p].int = extToInt[x]
      <4>1. PICK p \in Live(log, c) : log[p].ext = x
        BY <2>3, <3>3 DEF Replayed, Serves
      <4>. QED
        BY <2>3, <4>1 DEF Replayed, Serves
    <3>4. ASSUME NEW x \in DOMAIN extToInt, NEW q \in Live(log, n),
                 log[q].int = extToInt[x]
          PROVE  log[q].ext = x
      <4>1. /\ q \in 1 .. n /\ log[q].op = "insert"
            /\ \A r \in q + 1 .. n : log[r].op = "delete" => log[r].int # log[q].int
        BY <3>4 DEF Live
      <4>2. PICK p \in Live(log, c) : log[p].ext = x /\ log[p].int = extToInt[x]
        BY <3>3, <3>4
      <4>3. p \in 1 .. c /\ p \in 1 .. n /\ log[p].op = "insert"
        BY <2>3, <4>2 DEF Live
      <4>4. CASE q \in 1 .. c
        <5>1. q \in Live(log, c)
          BY <2>3, <4>1, <4>4 DEF Live
        <5>2. log[q].ext \in DOMAIN extToInt /\ extToInt[log[q].ext] = log[q].int
          BY <2>3, <5>1 DEF Replayed, Serves
        <5>. QED
          BY <3>4, <5>2 DEF FaultInv, Memory, Paired
      <4>5. CASE q \notin 1 .. c
        <5>1. p < q
          BY <2>3, <4>1, <4>3, <4>5
        <5>2. PICK r \in p + 1 .. q - 1 :
                 log[r].op = "delete" /\ log[r].int = log[p].int
          BY <2>5, <3>4, <4>1, <4>2, <4>3, <5>1 DEF Clean
        <5>3. r \in 1 .. n
          BY <4>1, <4>3
        <5>4. extToInt[x] \notin DOMAIN intToExt
          BY <3>2, <3>4, <4>2, <5>2, <5>3
        <5>. QED
          BY <3>4, <5>4 DEF FaultInv, Memory, Paired
      <4>. QED
        BY <4>4, <4>5
    <3>5. Clean(log, c + 1)
      BY <2>3, <2>5, CleanShorter
    <3>6. j \notin DOMAIN intToExt
      <4> SUFFICES ASSUME j \in DOMAIN intToExt PROVE FALSE
        OBVIOUS
      <4>1. PICK x \in DOMAIN extToInt : extToInt[x] = j
        BY DEF FaultInv, Memory, Paired
      <4>2. PICK p \in Live(log, c) : log[p].int = j
        BY <3>3, <4>1
      <4>. QED
        BY <1>1, <2>3, <3>5, <4>2, CleanLive
    <3>7. \A p \in 1 .. c : log[p].op = "insert" => log[p].int # j
      BY <1>1, <2>3, <3>6 DEF Replayed
    <3>8. \A k \in 1 .. idCounter :
             \E p \in 1 .. c : log[p].op = "insert" /\ log[p].int = k
      <4>1. Reached = 1 .. c
        BY <1>3 DEF Reached
      <4>. QED
        BY <4>1 DEF FaultInv, Memory, Counting
    <3>9. ~ (j <= idCounter)
      BY <2>3, <3>7, <3>8
    <3>10. \A k \in 1 .. j - 1 : k <= idCounter
      <4>1. ASSUME NEW k \in 1 .. j - 1
            PROVE  k <= idCounter
        <5>1. PICK p \in 1 .. c : log[p].op = "insert" /\ log[p].int = k
          BY <2>3, <4>1 DEF InsertFollows
        <5>. QED
          BY <2>3, <5>1 DEF Replayed
      <4>. QED
        BY <4>1
    <3>11. j = idCounter + 1
      <4>1. ~ (idCounter + 1 \in 1 .. j - 1)
        BY <2>3, <3>10
      <4>. QED
        BY <2>3, <3>9, <4>1
    <3>12. Stuck(index, idCounter)
      BY <1>1, <3>11 DEF Stuck
    <3>. QED
      BY <3>2, <3>4, <3>12 DEF Usable
  <2>6. PhaseInv'
    BY <2>1, <2>2, <2>5 DEF PhaseInv, UseOK
  <2>. QED
    BY <2>1, <2>4, <2>6 DEF FaultInv
<1>. QED
  BY <1>1, <1>2, <1>3

LEMMA FaultStop ==
    ASSUME FaultInv, TypeInv',
           \/ \E e \in ExternalIDs : \/ \E item \in Items : StopInInsert(e, item)
                                     \/ StopInDelete(e)
           \/ Stop
    PROVE  FaultInv'
<1>1. Forget
  BY DEF StopInInsert, StopInDelete, Stop
<1>2. LogOK(log, Len(log))'
  <2>1. ASSUME NEW e \in ExternalIDs, NEW item \in Items, StopInInsert(e, item)
        PROVE  LogOK(log', Len(log'))
    <3>1. phase = "ready" /\ e \notin used /\ log' = Inserting(e, item)
      BY <2>1 DEF StopInInsert, Draw, Inserting
    <3>2. LogInserted(Inserting(e, item), e, item)
      BY <3>1, InsertLogged
    <3>. QED
      BY <3>1, <3>2 DEF LogInserted
  <2>2. ASSUME NEW e \in ExternalIDs, StopInDelete(e)
        PROVE  LogOK(log', Len(log'))
    <3>1. phase = "ready" /\ e \in DOMAIN extToInt /\ log' = Deleting(e)
      BY <2>2 DEF StopInDelete, Deleting
    <3>2. LogDeleted(Deleting(e), e)
      BY <3>1, DeleteLogged
    <3>. QED
      BY <3>1, <3>2 DEF LogDeleted
  <2>3. ASSUME NEW m \in 0 .. Len(log), log' = SubSeq(log, 1, m)
        PROVE  LogOK(log', Len(log'))
    <3>1. Len(log') = m /\ \A p \in 1 .. m : log'[p] = log[p]
      BY <2>3, FaultTypes
    <3>2. LogOK(log, Len(log)) /\ Len(log) \in Nat
      BY FaultTypes DEF FaultInv
    <3>. QED
      BY <3>1, <3>2, LogShorter
  <2>4. CASE log' = log
    BY <2>4 DEF FaultInv
  <2>. QED
    BY <2>1, <2>2, <2>3, <2>4 DEF Stop
<1>. QED
  BY <1>1, <1>2, FaultDown DEF Forget

LEMMA FaultStep == FaultInv /\ [Next]_vars => FaultInv'
<1> SUFFICES ASSUME FaultInv, [Next]_vars PROVE FaultInv'
  OBVIOUS
<1>1. TypeInv'
  BY TypeStep DEF FaultInv
<1>2. ASSUME \/ Close \/ UNCHANGED vars
             \/ \E e \in ExternalIDs : InsertClosed(e)
      PROVE  FaultInv'
  <2>1. /\ UNCHANGED <<log, memory>>
        /\ \/ phase' = phase /\ cursor' = cursor
           \/ phase = "ready" /\ phase' = "closed"
    BY <1>2 DEF Close, InsertClosed, vars
  <2>. QED
    BY <1>1, <2>1, FaultSame
<1>. QED
  BY <1>1, <1>2, FaultInsert, FaultDelete, FaultInsertFails, FaultDeleteFails,
     FaultCompensated, FaultBegins, FaultReplayInsert, FaultReplayDelete,
     FaultLoadDone, FaultCollides, FaultStop
     DEF Next, ClientStep, LoadStep

(* Whatever appends fail and whatever these leave behind, however much of  *)
(* the log's end the stops lose and whenever LoadState is called: nothing  *)
(* is served whose insert is not in the log with the same ids and content. *)
THEOREM LogAhead == Spec => []WriteAhead
<1>1. FaultInv => WriteAhead
  BY DEF FaultInv, Memory, Written, Recorded, InsertAt, WriteAhead
<1>. QED
  BY <1>1, FaultInit, FaultStep, PTL DEF Spec

(* Nor, in the same circumstances, does a document ever get the vector of  *)
(* another: it is found under its own id, and Search translates that id    *)
(* back to it.                                                             *)
THEOREM KeepsOwnVector == Spec => []OwnVector
<1>1. FaultInv => OwnVector
  BY DEF FaultInv, Memory, Paired, OwnItems, SameItem, OwnVector
<1>. QED
  BY <1>1, FaultInit, FaultStep, PTL DEF Spec

-----------------------------------------------------------------------------
(* What was acknowledged is served                                         *)

(* LoadState runs only on a fresh collection and no stop loses anything of *)
(* the log; appends may fail, with their record in the log or not.         *)
KeepsLog == ~AllowReload /\ ~LossyStop

InUse   == phase \in {"ready", "closed"}
LiveNow == Live(log, Len(log))

(* The counter covers the index, so that index.Add refuses no id.          *)
IndexCounted == \A i \in DOMAIN index : i <= idCounter

(* The log knows what was acknowledged; and it knows nothing that memory   *)
(* does not serve under the same ids, but what an operation on it failed.  *)
AcksLogged ==
    /\ \A e \in acked \ (deleted \cup unsure) : \E p \in LiveNow : log[p].ext = e
    /\ \A p \in LiveNow : log[p].ext \notin deleted
LiveServed ==
    InUse =>
      /\ \A p \in LiveNow : log[p].ext \notin unsure =>
            log[p].ext \in DOMAIN extToInt /\ extToInt[log[p].ext] = log[p].int
      /\ DOMAIN extToInt \cap deleted = {}

AckInv == /\ FaultInv /\ phase # "reloading"
          /\ IndexCounted /\ AcksLogged /\ LiveServed

LEMMA AckInit == Init => AckInv
<1> SUFFICES ASSUME Init PROVE AckInv
  OBVIOUS
<1>1. LiveNow = {}
  BY LiveNone DEF Init, LiveNow
<1>. QED
  BY <1>1, FaultInit
     DEF Init, Empty, AckInv, IndexCounted, AcksLogged, LiveServed, InUse

LEMMA OneInsertEach ==
    ASSUME FaultInv, NEW p \in 1 .. Len(log), NEW q \in 1 .. Len(log),
           log[p].op = "insert", log[q].op = "insert", log[p].ext = log[q].ext
    PROVE  p = q
<1>0. Len(log) \in Nat
  BY FaultTypes
<1>1. ASSUME NEW a \in 1 .. Len(log), NEW b \in 1 .. Len(log), a < b,
             log[a].op = "insert", log[b].op = "insert"
      PROVE  log[a].ext # log[b].ext
  <2>1. InsertFollows(log, b)
    BY <1>1 DEF FaultInv, LogOK, Follows
  <2>2. a \in 1 .. b - 1
    BY <1>0, <1>1
  <2>. QED
    BY <1>1, <2>1, <2>2 DEF InsertFollows
<1>. QED
  BY <1>0, <1>1

(* Of steps that change neither log nor histories.                         *)
LEMMA AcksSame ==
    ASSUME AcksLogged, UNCHANGED <<log, acked, deleted>>, unsure \subseteq unsure'
    PROVE  AcksLogged'
BY DEF AcksLogged, LiveNow

LEMMA ServedSame ==
    ASSUME LiveServed, UNCHANGED <<log, extToInt, deleted>>,
           unsure \subseteq unsure', InUse' => InUse
    PROVE  LiveServed'
BY DEF LiveServed, LiveNow

(* An insert reaches the log; memory takes it over, or it is unsure.       *)
LEMMA AckInsert ==
    ASSUME AckInv, phase = "ready", NEW e \in ExternalIDs, e \notin used,
           NEW item \in Items, log' = Inserting(e, item), deleted' = deleted,
           \/ /\ extToInt' = Put(extToInt, e, internalID)
              /\ acked' = acked \cup {e} /\ unsure' = unsure
           \/ /\ InUse' => extToInt' = extToInt
              /\ acked' = acked /\ unsure' = unsure \cup {e}
    PROVE  AcksLogged' /\ LiveServed'
<1> DEFINE n == Len(log)
<1>0. FaultInv /\ AcksLogged /\ LiveServed /\ InUse
  BY DEF AckInv, InUse
<1>1. /\ n \in Nat /\ Len(log') = n + 1 /\ \A p \in 1 .. n : log'[p] = log[p]
      /\ log'[n + 1].op = "insert" /\ log'[n + 1].ext = e
      /\ log'[n + 1].int = internalID
  BY <1>0, InsertLogged, FaultTypes DEF LogInserted, InsertAt
<1>2. LiveNow' = LiveNow \cup {n + 1}
  <2> HIDE DEF n
  <2>1. /\ n \in Nat /\ \A p \in 1 .. n : log'[p] = log[p]
        /\ log'[n + 1].op = "insert"
    BY <1>1
  <2>2. Live(log', n + 1) = Live(log, n) \cup {n + 1}
    BY <2>1, LiveInsert
  <2>. QED
    BY <1>1, <2>2 DEF LiveNow, n
<1>3. \A p \in LiveNow : p \in 1 .. n /\ log'[p] = log[p] /\ log[p].ext # e
  <2>1. \A p \in 1 .. n : log[p].ext # e
    BY <1>0, FaultTypes, FreshExternalID DEF FaultInv
  <2>. QED
    BY <1>1, <2>1 DEF LiveNow, Live
<1>4. e \notin deleted /\ e \notin DOMAIN extToInt
  BY <1>0 DEF FaultInv, TypeInv, ValueTypes, IdsDrawn
<1>5. AcksLogged'
  <2>1. ASSUME NEW x \in acked' \ (deleted' \cup unsure')
        PROVE  \E p \in LiveNow' : log'[p].ext = x
    <3>1. CASE x = e
      BY <1>1, <1>2, <3>1
    <3>2. CASE x # e
      <4>1. x \in acked \ (deleted \cup unsure)
        BY <2>1, <3>2
      <4>2. PICK p \in LiveNow : log[p].ext = x
        BY <1>0, <4>1 DEF AcksLogged
      <4>. QED
        BY <1>2, <1>3, <4>2
    <3>. QED
      BY <3>1, <3>2
  <2>2. \A p \in LiveNow' : log'[p].ext \notin deleted'
    BY <1>0, <1>1, <1>2, <1>3, <1>4 DEF AcksLogged
  <2>. QED
    BY <2>1, <2>2 DEF AcksLogged
<1>6. LiveServed'
  <2> SUFFICES ASSUME InUse'
               PROVE  /\ \A p \in LiveNow' : log'[p].ext \notin unsure' =>
                            /\ log'[p].ext \in DOMAIN extToInt'
                            /\ extToInt'[log'[p].ext] = log'[p].int
                      /\ DOMAIN extToInt' \cap deleted' = {}
    BY DEF LiveServed
  <2>0. /\ \A p \in LiveNow : log[p].ext \notin unsure =>
              log[p].ext \in DOMAIN extToInt /\ extToInt[log[p].ext] = log[p].int
        /\ DOMAIN extToInt \cap deleted = {}
    BY <1>0 DEF LiveServed
  <2>1. CASE extToInt' = Put(extToInt, e, internalID) /\ unsure' = unsure
    <3>1. /\ DOMAIN extToInt' = DOMAIN extToInt \cup {e} /\ extToInt'[e] = internalID
          /\ \A x \in DOMAIN extToInt : x # e => extToInt'[x] = extToInt[x]
      BY <2>1 DEF Put
    <3>. QED
      BY <1>1, <1>2, <1>3, <1>4, <2>0, <2>1, <3>1
  <2>2. CASE extToInt' = extToInt /\ unsure' = unsure \cup {e}
    BY <1>1, <1>2, <1>3, <2>0, <2>2
  <2>. QED
    BY <2>1, <2>2
<1>. QED
  BY <1>5, <1>6

(* A delete reaches the log; likewise.                                     *)
LEMMA AckDelete ==
    ASSUME AckInv, phase = "ready", NEW e \in DOMAIN extToInt,
           log' = Deleting(e), acked' = acked,
           \/ extToInt' = Drop(extToInt, e) /\ deleted' = deleted \cup {e}
              /\ unsure' = unsure
           \/ /\ InUse' => extToInt' = extToInt
              /\ deleted' = deleted /\ unsure' = unsure \cup {e}
    PROVE  AcksLogged' /\ LiveServed'
<1> DEFINE n == Len(log)
           i == extToInt[e]
<1>0. FaultInv /\ AcksLogged /\ LiveServed /\ InUse
  BY DEF AckInv, InUse
<1>1. /\ n \in Nat /\ Len(log') = n + 1 /\ \A p \in 1 .. n : log'[p] = log[p]
      /\ log'[n + 1].op = "delete" /\ log'[n + 1].int = i
  BY <1>0, DeleteLogged, FaultTypes DEF LogDeleted
<1>2. LiveNow' = {p \in LiveNow : log[p].int # i}
  <2> HIDE DEF n, i
  <2>1. Live(log', n + 1) = {p \in Live(log, n) : log[p].int # i}
    BY <1>1, LiveDelete
  <2>. QED
    BY <1>1, <2>1 DEF LiveNow, n
<1>3. \A p \in LiveNow : p \in 1 .. n /\ log'[p] = log[p] /\ log[p].op = "insert"
  BY <1>1 DEF LiveNow, Live
<1>4. \A p \in LiveNow' : p \in LiveNow /\ log'[p] = log[p] /\ log[p].ext # e
  <2>1. PICK p0 \in 1 .. n : InsertAt(log, p0, e, i)
    BY <1>0, FaultTypes DEF FaultInv, Memory, Written, Recorded
  <2>2. ASSUME NEW p \in LiveNow, log[p].ext = e
        PROVE  log[p].int = i
    <3>1. p = p0
      BY <1>0, <1>3, <2>1, <2>2, OneInsertEach DEF InsertAt
    <3>. QED
      BY <2>1, <3>1 DEF InsertAt
  <2>. QED
    BY <1>2, <1>3, <2>2
<1>5. \A x \in DOMAIN extToInt : x # e => extToInt[x] # i
  BY <1>0 DEF FaultInv, Memory, Paired
<1>s. /\ \A p \in LiveNow : log[p].ext \notin unsure =>
            log[p].ext \in DOMAIN extToInt /\ extToInt[log[p].ext] = log[p].int
      /\ DOMAIN extToInt \cap deleted = {}
  BY <1>0 DEF LiveServed
<1>6. AcksLogged'
  <2>1. ASSUME NEW x \in acked' \ (deleted' \cup unsure')
        PROVE  \E p \in LiveNow' : log'[p].ext = x
    <3>1. x \in acked \ (deleted \cup unsure) /\ x # e
      BY <2>1
    <3>2. PICK p \in LiveNow : log[p].ext = x
      BY <1>0, <3>1 DEF AcksLogged
    <3>3. log[p].int # i
      BY <1>5, <1>s, <3>1, <3>2
    <3>. QED
      BY <1>2, <1>3, <3>2, <3>3
  <2>2. \A p \in LiveNow' : log'[p].ext \notin deleted'
    BY <1>0, <1>4 DEF AcksLogged
  <2>. QED
    BY <2>1, <2>2 DEF AcksLogged
<1>7. LiveServed'
  <2> SUFFICES ASSUME InUse'
               PROVE  /\ \A p \in LiveNow' : log'[p].ext \notin unsure' =>
                            /\ log'[p].ext \in DOMAIN extToInt'
                            /\ extToInt'[log'[p].ext] = log'[p].int
                      /\ DOMAIN extToInt' \cap deleted' = {}
    BY DEF LiveServed
  <2>1. CASE extToInt' = Drop(extToInt, e) /\ deleted' = deleted \cup {e}
             /\ unsure' = unsure
    <3>1. /\ DOMAIN extToInt' = DOMAIN extToInt \ {e}
          /\ \A x \in DOMAIN extToInt : x # e => extToInt'[x] = extToInt[x]
      BY <2>1 DEF Drop
    <3>. QED
      BY <1>4, <1>s, <2>1, <3>1
  <2>2. CASE extToInt' = extToInt /\ deleted' = deleted /\ unsure' = unsure \cup {e}
    BY <1>4, <1>s, <2>2
  <2>. QED
    BY <2>1, <2>2
<1>. QED
  BY <1>6, <1>7

LEMMA CountsIndex ==
    ASSUME AckInv, [Next]_vars, ~AllowReload
    PROVE  IndexCounted'
<1>0. /\ idCounter \in Nat /\ internalID = idCounter + 1
      /\ \A i \in DOMAIN index : i \in Nat /\ i <= idCounter
  BY FaultTypes DEF AckInv, IndexCounted
<1>1. ASSUME index' = index, idCounter' = idCounter
      PROVE  IndexCounted'
  BY <1>0, <1>1 DEF IndexCounted
<1>2. ASSUME index' = Empty
      PROVE  IndexCounted'
  BY <1>2 DEF IndexCounted, Empty
<1>3. ASSUME NEW e, NEW item, InsertOK(e, item)
      PROVE  IndexCounted'
  <2>1. DOMAIN index' = DOMAIN index \cup {idCounter + 1} /\ idCounter' = idCounter + 1
    BY <1>0, <1>3 DEF InsertOK, Put
  <2>. QED
    BY <1>0, <2>1 DEF IndexCounted
<1>4. ASSUME NEW e, DeleteOK(e)
      PROVE  IndexCounted'
  <2>1. DOMAIN index' \subseteq DOMAIN index /\ idCounter' = idCounter
    BY <1>4 DEF DeleteOK, DropDocument, Drop
  <2>. QED
    BY <1>0, <2>1 DEF IndexCounted
<1>5. CASE ReplayInsert \/ ReplayDelete
  <2>1. Replaying
    BY <1>5 DEF ReplayInsert, ReplayDelete
  <2>2. record.int \in Nat
    BY <2>1, NextReplayed, FaultTypes DEF AckInv, record
  <2>3. /\ DOMAIN index' \subseteq DOMAIN index \cup {record.int}
        /\ idCounter' = IF record.int > idCounter THEN record.int ELSE idCounter
    BY <1>5 DEF ReplayInsert, ReplayDelete, DropDocument, Drop, Put, Bump
  <2>. QED
    BY <1>0, <2>2, <2>3 DEF IndexCounted
<1>6. ~Reload
  BY DEF Reload
<1>7. ASSUME \/ OpenCollection \/ LoadDone \/ Close \/ UNCHANGED vars
             \/ \E e \in ExternalIDs :
                   \/ InsertClosed(e) \/ DeleteFails(e)
                   \/ \E item \in Items :
                         InsertFails(e, item) \/ InsertCompensated(e, item)
      PROVE  IndexCounted'
  <2>1. memory' = memory
    BY <1>7 DEF OpenCollection, LoadDone, Close, vars, InsertClosed, DeleteFails,
       InsertFails, InsertCompensated
  <2>. QED
    BY <1>1, <2>1 DEF memory
<1>8. ASSUME \/ ReplayCollides \/ Stop
             \/ \E e \in ExternalIDs :
                   \/ StopInDelete(e) \/ \E item \in Items : StopInInsert(e, item)
      PROVE  IndexCounted'
  BY <1>1, <1>2, <1>8
     DEF ReplayCollides, Stop, StopInDelete, StopInInsert, Forget, memory
<1>. QED
  BY <1>3, <1>4, <1>5, <1>6, <1>7, <1>8 DEF Next, ClientStep, LoadStep

LEMMA AckStep ==
    ASSUME KeepsLog, AckInv, [Next]_vars
    PROVE  AckInv'
<1>0. /\ FaultInv /\ AcksLogged /\ LiveServed /\ phase # "reloading"
      /\ FaultInv' /\ IndexCounted'
  BY FaultStep, CountsIndex DEF AckInv, KeepsLog
<1> SUFFICES phase' # "reloading" /\ AcksLogged' /\ LiveServed'
  BY <1>0 DEF AckInv
<1>1. ASSUME NEW e \in ExternalIDs, NEW item \in Items,
             \/ InsertOK(e, item) \/ InsertFails(e, item) \/ StopInInsert(e, item),
             log' # log
      PROVE  phase' # "reloading" /\ AcksLogged' /\ LiveServed'
  <2>1. /\ phase = "ready" /\ e \notin used /\ phase' \in {"ready", "down"}
        /\ log' = Inserting(e, item) /\ deleted' = deleted
        /\ \/ /\ extToInt' = Put(extToInt, e, internalID)
              /\ acked' = acked \cup {e} /\ unsure' = unsure
           \/ /\ InUse' => extToInt' = extToInt
              /\ acked' = acked /\ unsure' = unsure \cup {e}
    BY <1>1 DEF InsertOK, InsertFails, StopInInsert, Faulty, Draw, Forget,
       Inserting, InUse, memory, maps
  <2>. QED
    BY <2>1, AckInsert
<1>2. ASSUME NEW e \in ExternalIDs,
             DeleteOK(e) \/ DeleteFails(e) \/ StopInDelete(e), log' # log
      PROVE  phase' # "reloading" /\ AcksLogged' /\ LiveServed'
  <2>1. /\ phase = "ready" /\ e \in DOMAIN extToInt /\ phase' \in {"ready", "down"}
        /\ log' = Deleting(e) /\ acked' = acked
        /\ \/ extToInt' = Drop(extToInt, e) /\ deleted' = deleted \cup {e}
              /\ unsure' = unsure
           \/ /\ InUse' => extToInt' = extToInt
              /\ deleted' = deleted /\ unsure' = unsure \cup {e}
    BY <1>2 DEF DeleteOK, DeleteFails, StopInDelete, Faulty, Forget, DropDocument,
       Deleting, InUse, memory, maps
  <2>. QED
    BY <2>1, AckDelete
<1>3. ASSUME NEW e, NEW item, InsertCompensated(e, item)
      PROVE  FALSE
  <2>1. internalID = idCounter + 1 /\ idCounter \in Nat /\ internalID \in DOMAIN index
    BY <1>0, <1>3, FaultTypes DEF InsertCompensated
  <2>. QED
    BY <2>1 DEF AckInv, IndexCounted
<1>4. ASSUME \/ Close \/ UNCHANGED vars \/ OpenCollection
             \/ \E e \in ExternalIDs :
                   \/ InsertClosed(e) \/ (DeleteFails(e) /\ log' = log)
                   \/ \E item \in Items : InsertFails(e, item) /\ log' = log
      PROVE  phase' # "reloading" /\ AcksLogged' /\ LiveServed'
  <2>1. /\ UNCHANGED <<log, extToInt, acked, deleted>> /\ unsure \subseteq unsure'
        /\ phase' # "reloading" /\ (InUse' => InUse)
    BY <1>0, <1>4 DEF Close, vars, OpenCollection, InsertClosed, DeleteFails,
       InsertFails, memory, maps, history, InUse
  <2>. QED
    BY <1>0, <2>1, AcksSame, ServedSame
<1>5. ASSUME ReplayInsert \/ ReplayDelete \/ ReplayCollides \/ Stop
      PROVE  phase' # "reloading" /\ AcksLogged' /\ LiveServed'
  <2>1. /\ UNCHANGED <<log, acked, deleted, unsure>>
        /\ phase' \in {"down", "loading"}
    BY <1>0, <1>5 DEF ReplayInsert, ReplayDelete, ReplayCollides, Replaying, Stop,
       Forget, history, KeepsLog
  <2>. QED
    BY <1>0, <2>1, AcksSame DEF LiveServed, InUse
<1>6. ASSUME LoadDone
      PROVE  phase' # "reloading" /\ AcksLogged' /\ LiveServed'
  <2>1. /\ UNCHANGED <<log, extToInt, acked, deleted, unsure>> /\ phase' = "ready"
        /\ phase = "loading" /\ cursor = Len(log)
    BY <1>0, <1>6 DEF LoadDone, memory, maps, history
  <2>2. Serves(log, Len(log), extToInt, index, payload)
    BY <1>0, <2>1 DEF FaultInv, PhaseInv, Replayed
  <2>3. /\ DOMAIN extToInt = {log[p].ext : p \in LiveNow}
        /\ \A p \in LiveNow : extToInt[log[p].ext] = log[p].int
    BY <2>2 DEF Serves, LiveNow
  <2>4. DOMAIN extToInt \cap deleted = {}
    BY <1>0, <2>3 DEF AcksLogged
  <2>5. LiveNow' = LiveNow
    BY <2>1 DEF LiveNow
  <2>6. LiveServed'
    BY <2>1, <2>3, <2>4, <2>5 DEF LiveServed
  <2>. QED
    BY <1>0, <2>1, <2>6, AcksSame
<1>7. ~Reload
  BY DEF Reload, KeepsLog
<1>8. ASSUME NEW e \in ExternalIDs, log' = log,
             \/ DeleteOK(e) \/ StopInDelete(e)
             \/ \E item \in Items : InsertOK(e, item) \/ StopInInsert(e, item)
      PROVE  FALSE
  <2>1. \E r : log' = Append(log, r)
    BY <1>8 DEF DeleteOK, StopInDelete, InsertOK, StopInInsert
  <2>2. log \in Seq(Record) /\ Len(log) \in Nat
    BY <1>0, FaultTypes
  <2>. QED
    BY <1>8, <2>1, <2>2
<1>. QED
  BY <1>1, <1>2, <1>3, <1>4, <1>5, <1>6, <1>7, <1>8 DEF Next, ClientStep, LoadStep

(* Across any number of stops and replays, whichever appends fail and      *)
(* whether these leave their records in the log: a document whose Insert   *)
(* returned nil is served until its Delete returns nil, or one that fails  *)
(* or is cut off leaves it open, and one whose Delete returned nil is      *)
(* never served again.                                                     *)
THEOREM AcksKept ==
    ASSUME KeepsLog
    PROVE  Spec => []AckedServed
<1>1. AckInv => AckedServed
  <2> SUFFICES ASSUME AckInv, phase = "ready"
               PROVE  /\ acked \ (deleted \cup unsure) \subseteq DOMAIN extToInt
                      /\ deleted \cap DOMAIN extToInt = {}
    BY DEF AckedServed, AckInv, FaultInv, Memory, Paired
  <2>. QED
    BY DEF AckInv, AcksLogged, LiveServed, InUse
<1>. QED
  BY <1>1, AckInit, AckStep, PTL DEF Spec

=============================================================================
