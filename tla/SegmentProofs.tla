--------------------------- MODULE SegmentProofs ---------------------------
(***************************************************************************)
(* What a scan of one segment file returns, for any payloads and any       *)
(* number of torn writes, lost tails and damaged words.  The first part is *)
(* about the codec: what a record's words are and that they decode to what *)
(* was encoded.  The second is the invariant that says, of every word of   *)
(* the file, which append wrote it.  The third is the loop of              *)
(* scanSegmentFile and of getLatestLSN, as functions of the offset; the    *)
(* fourth what they make of such a file.                                   *)
(***************************************************************************)
EXTENDS Segment, FiniteSetTheorems, FunctionTheorems, SequenceTheorems, TLAPS

-----------------------------------------------------------------------------
(* Words                                                                   *)

BodyWord == [field : {"magic", "segid", "length", "lsn", "op", "data"}, val : Nat]
CrcWord  == [field : {"crc"}, val : Seq(BodyWord)]
Word     == BodyWord \cup CrcWord

Enc(k) == encode(k.rec.lsn, k.rec.payload)

-----------------------------------------------------------------------------
(* The file                                                                *)

(* The chunks lie end to end behind the header, and nothing else is there. *)
Layout ==
    /\ \A i \in DOMAIN chunks :
          LET k == chunks[i]
          IN  /\ k.at \in Nat /\ k.at >= SegmentHeaderSize
              /\ k.n \in 1 .. k.rec.size /\ k.at + k.n <= Len(file)
              /\ k.rec \in [lsn : Nat, payload : Payloads, size : Nat]
              /\ k.rec.size = Len(Enc(k)) /\ k.rec.size <= MaxSegment
    /\ \A i, j \in DOMAIN chunks :
          i < j => chunks[i].at + chunks[i].n <= chunks[j].at
    /\ \A p \in SegmentHeaderSize + 1 .. Len(file) :
          \E i \in DOMAIN chunks : chunks[i].at < p /\ p <= chunks[i].at + chunks[i].n

(* Word w stands at position p, as it was written or damaged.              *)
Holds(p, w) == IF p = damaged THEN /\ file[p].field = w.field
                                   /\ file[p].val \in Damages(w)
                              ELSE file[p] = w
Contents ==
    /\ \A p \in 1 .. SegmentHeaderSize :
          p <= Len(file) => Holds(p, encodeSegmentHeader[p])
    /\ \A i \in DOMAIN chunks : \A q \in 1 .. chunks[i].n :
          Holds(chunks[i].at + q, Enc(chunks[i])[q])

(* The records that nothing torn or damaged stands before are numbered     *)
(* through, and a process that opened the file goes on behind them.        *)
Numbered ==
    /\ \A i \in DOMAIN chunks :
          /\ \A j \in 1 .. i - 1 : Whole(chunks[j])
          /\ damaged = 0 \/ chunks[i].at < damaged
          => chunks[i].rec.lsn = i
    /\ open /\ damaged = 0 =>
          \A m \in 0 .. Len(chunks) :
             (\A j \in 1 .. m : Whole(chunks[j])) =>
                m <= lsn /\ (m = Len(chunks) => lsn = m)

Types ==
    /\ file \in Seq(Word) /\ Len(file) <= MaxSegment
    /\ open \in BOOLEAN /\ lsn \in Nat
    /\ chunks \in Seq([at : Nat, n : Nat,
                       rec : [lsn : Nat, payload : Payloads, size : Nat]])
    /\ Len(chunks) <= MaxRecords
    /\ damaged \in 0 .. Len(file) /\ torn \in Nat /\ cuts \in Nat
    /\ open => Len(file) >= SegmentHeaderSize

SegmentInv == Types /\ Layout /\ Contents /\ Numbered

-----------------------------------------------------------------------------
(* The words of a record                                                   *)

LEMMA PayloadKinds ==
    ASSUME NEW p \in Payloads
    PROVE  /\ p.ext \in Seq(Nat) /\ p.int \in Nat
           /\ \/ p.op = 2 /\ p = DeletePayload(p.ext, p.int)
              \/ /\ p.op = 1 /\ p = InsertPayload(p.ext, p.int, p.vec, p.meta)
                 /\ p.vec \in Seq(Nat) /\ p.meta \in Seq(Nat)
BY PayloadAssumption DEF InsertPayload, DeletePayload

LEMMA DataWords ==
    ASSUME NEW s \in Seq(Nat)
    PROVE  /\ Data(s) \in Seq(BodyWord) /\ Len(Data(s)) = Len(s)
           /\ \A i \in 1 .. Len(s) : Data(s)[i].field = "data" /\ Data(s)[i].val = s[i]
<1>1. DOMAIN s = 1 .. Len(s) /\ Len(s) \in Nat
  OBVIOUS
<1>2. \A i \in 1 .. Len(s) : Field("data", s[i]) \in BodyWord
  BY DEF Field, BodyWord
<1>3. Data(s) = [i \in 1 .. Len(s) |-> Field("data", s[i])]
  BY <1>1 DEF Data
<1>4. Data(s) \in Seq(BodyWord)
  BY <1>1, <1>2, <1>3
<1>. QED
  BY <1>1, <1>3, <1>4 DEF Field

(* The plain numbers that an encoded payload is made of.                   *)
InsertNumbers(ext, int, vec, meta) ==
    <<Len(ext)>> \o ext \o <<int>> \o <<Len(vec)>> \o vec \o <<Len(meta)>> \o meta
DeleteNumbers(ext, int) == <<Len(ext)>> \o ext \o <<int>>

Numbers(p) == IF p.op = 1 THEN InsertNumbers(p.ext, p.int, p.vec, p.meta)
                          ELSE DeleteNumbers(p.ext, p.int)

LEMMA One == ASSUME NEW n \in Nat PROVE <<n>> \in Seq(Nat) /\ Len(<<n>>) = 1 /\ <<n>>[1] = n
OBVIOUS

LEMMA JoinedIn ==
    ASSUME NEW S, NEW s \in Seq(S), NEW t \in Seq(S)
    PROVE  /\ s \o t \in Seq(S) /\ Len(s \o t) = Len(s) + Len(t)
           /\ \A i \in 1 .. Len(s) : (s \o t)[i] = s[i]
           /\ \A i \in 1 .. Len(t) : (s \o t)[i + Len(s)] = t[i]
<1>1. Len(s) \in Nat /\ Len(t) \in Nat
  OBVIOUS
<1>2. /\ \A i \in 1 .. Len(s) : i \in 1 .. Len(s) + Len(t)
      /\ \A i \in 1 .. Len(t) : /\ i + Len(s) \in 1 .. Len(s) + Len(t)
                               /\ ~(i + Len(s) <= Len(s)) /\ (i + Len(s)) - Len(s) = i
  BY <1>1
<1>. QED
  BY <1>1, <1>2, ConcatProperties

LEMMA Joined ==
    ASSUME NEW s \in Seq(Nat), NEW t \in Seq(Nat)
    PROVE  /\ s \o t \in Seq(Nat) /\ Len(s \o t) = Len(s) + Len(t)
           /\ \A i \in 1 .. Len(s) : (s \o t)[i] = s[i]
           /\ \A i \in 1 .. Len(t) : (s \o t)[i + Len(s)] = t[i]
BY JoinedIn

LEMMA JoinedWords ==
    ASSUME NEW s \in Seq(BodyWord), NEW t \in Seq(BodyWord)
    PROVE  /\ s \o t \in Seq(BodyWord) /\ Len(s \o t) = Len(s) + Len(t)
           /\ \A i \in 1 .. Len(s) : (s \o t)[i] = s[i]
           /\ \A i \in 1 .. Len(t) : (s \o t)[i + Len(s)] = t[i]
BY JoinedIn

(* The parts of a payload stand in s behind their lengths.                 *)
InsertParts(s, ext, int, vec, meta) ==
    /\ s \in Seq(Nat)
    /\ Len(s) = Len(ext) + Len(vec) + Len(meta) + 4
    /\ s[1] = Len(ext)
    /\ \A i \in 1 .. Len(ext) : s[i + 1] = ext[i]
    /\ s[Len(ext) + 2] = int
    /\ s[Len(ext) + 3] = Len(vec)
    /\ \A i \in 1 .. Len(vec) : s[i + (Len(ext) + 3)] = vec[i]
    /\ s[Len(ext) + Len(vec) + 4] = Len(meta)
    /\ \A i \in 1 .. Len(meta) : s[i + (Len(ext) + Len(vec) + 4)] = meta[i]

DeleteParts(s, ext, int) ==
    /\ s \in Seq(Nat) /\ Len(s) = Len(ext) + 2
    /\ s[1] = Len(ext)
    /\ \A i \in 1 .. Len(ext) : s[i + 1] = ext[i]
    /\ s[Len(ext) + 2] = int

LEMMA NumbersOfInsert ==
    ASSUME NEW ext \in Seq(Nat), NEW int \in Nat, NEW vec \in Seq(Nat),
           NEW meta \in Seq(Nat)
    PROVE  InsertParts(InsertNumbers(ext, int, vec, meta), ext, int, vec, meta)
<1> DEFINE s == InsertNumbers(ext, int, vec, meta)
           a == Len(ext)
           b == Len(vec)
           c == Len(meta)
           s1 == <<a>> \o ext
           s2 == s1 \o <<int>>
           s3 == s2 \o <<b>>
           s4 == s3 \o vec
           s5 == s4 \o <<c>>
<1>0. a \in Nat /\ b \in Nat /\ c \in Nat
  OBVIOUS
<1>a. <<a>> \in Seq(Nat) /\ <<b>> \in Seq(Nat) /\ <<c>> \in Seq(Nat) /\ <<int>> \in Seq(Nat)
      /\ Len(<<a>>) = 1 /\ Len(<<b>>) = 1 /\ Len(<<c>>) = 1 /\ Len(<<int>>) = 1
      /\ <<a>>[1] = a /\ <<b>>[1] = b /\ <<c>>[1] = c /\ <<int>>[1] = int
  BY <1>0, One
<1>b. s = s5 \o meta
  BY DEF InsertNumbers
<1>c. Len(vec) = b /\ Len(meta) = c /\ Len(ext) = a
  OBVIOUS
<1> HIDE DEF a, b, c
<1>1. /\ s1 \in Seq(Nat) /\ Len(s1) = 1 + a /\ s1[1] = a
      /\ \A i \in 1 .. a : s1[i + 1] = ext[i]
  BY <1>0, <1>a, <1>c, Joined
<1> HIDE DEF s1
<1>2. /\ s2 \in Seq(Nat) /\ Len(s2) = 1 + a + 1 /\ s2[1 + (1 + a)] = int
      /\ \A i \in 1 .. 1 + a : s2[i] = s1[i]
  <2>1. /\ s2 \in Seq(Nat) /\ Len(s2) = Len(s1) + Len(<<int>>)
        /\ \A i \in 1 .. Len(s1) : s2[i] = s1[i]
        /\ \A i \in 1 .. Len(<<int>>) : s2[i + Len(s1)] = <<int>>[i]
    BY <1>0, <1>a, <1>1, Joined
  <2>2. s2[1 + Len(s1)] = int
    BY <1>a, <2>1
  <2>3. Len(s1) = 1 + a /\ Len(<<int>>) = 1
    BY <1>a, <1>1
  <2>. QED
    BY <1>0, <2>1, <2>2, <2>3
<1> HIDE DEF s2
<1>3. /\ s3 \in Seq(Nat) /\ Len(s3) = a + 3 /\ s3[1 + (1 + a + 1)] = b
      /\ \A i \in 1 .. 1 + a + 1 : s3[i] = s2[i]
  <2>1. /\ s3 \in Seq(Nat) /\ Len(s3) = Len(s2) + Len(<<b>>)
        /\ \A i \in 1 .. Len(s2) : s3[i] = s2[i]
        /\ \A i \in 1 .. Len(<<b>>) : s3[i + Len(s2)] = <<b>>[i]
    BY <1>0, <1>a, <1>2, Joined
  <2>. QED
    BY <1>0, <1>a, <1>2, <2>1
<1> HIDE DEF s3
<1>4. /\ s4 \in Seq(Nat) /\ Len(s4) = (a + 3) + b
      /\ \A i \in 1 .. b : s4[i + (a + 3)] = vec[i]
      /\ \A i \in 1 .. a + 3 : s4[i] = s3[i]
  <2>1. /\ s4 \in Seq(Nat) /\ Len(s4) = Len(s3) + Len(vec)
        /\ \A i \in 1 .. Len(s3) : s4[i] = s3[i]
        /\ \A i \in 1 .. Len(vec) : s4[i + Len(s3)] = vec[i]
    BY <1>0, <1>c, <1>3, Joined
  <2>. QED
    BY <1>0, <1>c, <1>3, <2>1
<1> HIDE DEF s4
<1>5. /\ s5 \in Seq(Nat) /\ Len(s5) = a + b + 4 /\ s5[1 + (a + 3 + b)] = c
      /\ \A i \in 1 .. a + 3 + b : s5[i] = s4[i]
  <2>1. /\ s5 \in Seq(Nat) /\ Len(s5) = Len(s4) + Len(<<c>>)
        /\ \A i \in 1 .. Len(s4) : s5[i] = s4[i]
        /\ \A i \in 1 .. Len(<<c>>) : s5[i + Len(s4)] = <<c>>[i]
    <3>1. s4 \in Seq(Nat) /\ <<c>> \in Seq(Nat)
      BY <1>a, <1>4
    <3>. QED
      BY <3>1, Joined
  <2>. QED
    BY <1>0, <1>a, <1>4, <2>1
<1> HIDE DEF s5
<1>6. /\ s \in Seq(Nat) /\ Len(s) = (a + b + 4) + c
      /\ \A i \in 1 .. c : s[i + (a + b + 4)] = meta[i]
      /\ \A i \in 1 .. a + b + 4 : s[i] = s5[i]
  <2>1. /\ s \in Seq(Nat) /\ Len(s) = Len(s5) + Len(meta)
        /\ \A i \in 1 .. Len(s5) : s[i] = s5[i]
        /\ \A i \in 1 .. Len(meta) : s[i + Len(s5)] = meta[i]
    <3>1. s5 \in Seq(Nat) /\ meta \in Seq(Nat)
      BY <1>5
    <3> DEFINE u == s5 \o meta
    <3>2. /\ u \in Seq(Nat) /\ Len(u) = Len(s5) + Len(meta)
          /\ \A i \in 1 .. Len(s5) : u[i] = s5[i]
          /\ \A i \in 1 .. Len(meta) : u[i + Len(s5)] = meta[i]
      BY <3>1, Joined
    <3>3. s = u
      BY <1>b
    <3> HIDE DEF u
    <3>. QED
      BY <3>2, <3>3
  <2>. QED
    BY <1>0, <1>b, <1>c, <1>5, <2>1
<1>7. /\ \A i \in 1 .. a + 3 + b : s[i] = s4[i]
      /\ s[a + b + 4] = c
  <2>1. \A i \in 1 .. a + 3 + b : i \in 1 .. a + b + 4
    BY <1>0
  <2>2. a + b + 4 \in 1 .. a + b + 4 /\ 1 + (a + 3 + b) = a + b + 4
    BY <1>0
  <2>. QED
    BY <1>5, <1>6, <2>1, <2>2
<1>8. /\ \A i \in 1 .. a + 3 : s[i] = s3[i]
      /\ \A i \in 1 .. b : s[i + (a + 3)] = vec[i]
  <2>1. /\ \A i \in 1 .. a + 3 : i \in 1 .. a + 3 + b
        /\ \A i \in 1 .. b : i + (a + 3) \in 1 .. a + 3 + b
    BY <1>0
  <2>. QED
    BY <1>4, <1>7, <2>1
<1>9. s[a + 3] = b /\ \A i \in 1 .. a + 2 : s[i] = s2[i]
  <2>1. \A i \in 1 .. a + 2 : i \in 1 .. a + 3 /\ i \in 1 .. 1 + a + 1
    BY <1>0
  <2>2. a + 3 \in 1 .. a + 3 /\ 1 + (1 + a + 1) = a + 3
    BY <1>0
  <2>. QED
    BY <1>3, <1>8, <2>1, <2>2
<1>10. s[a + 2] = int /\ \A i \in 1 .. a + 1 : s[i] = s1[i]
  <2>1. \A i \in 1 .. a + 1 : i \in 1 .. a + 2 /\ i \in 1 .. 1 + a
    BY <1>0
  <2>2. a + 2 \in 1 .. a + 2 /\ 1 + (1 + a) = a + 2
    BY <1>0
  <2>. QED
    BY <1>2, <1>9, <2>1, <2>2
<1>11. s[1] = a /\ \A i \in 1 .. a : s[i + 1] = ext[i]
  <2>1. 1 \in 1 .. a + 1 /\ \A i \in 1 .. a : i + 1 \in 1 .. a + 1
    BY <1>0
  <2>. QED
    BY <1>1, <1>10, <2>1
<1>12. Len(s) = a + b + c + 4
  BY <1>0, <1>6
<1>. QED
  BY <1>6, <1>7, <1>8, <1>9, <1>10, <1>11, <1>12 DEF InsertParts, a, b, c

LEMMA NumbersOfDelete ==
    ASSUME NEW ext \in Seq(Nat), NEW int \in Nat
    PROVE  DeleteParts(DeleteNumbers(ext, int), ext, int)
<1> DEFINE s == DeleteNumbers(ext, int)
           a == Len(ext)
           s1 == <<a>> \o ext
<1>0. a \in Nat
  OBVIOUS
<1>a. /\ <<a>> \in Seq(Nat) /\ Len(<<a>>) = 1 /\ <<a>>[1] = a
      /\ <<int>> \in Seq(Nat) /\ Len(<<int>>) = 1 /\ <<int>>[1] = int
  BY <1>0, One
<1>1. /\ s1 \in Seq(Nat) /\ Len(s1) = a + 1 /\ s1[1] = a
      /\ \A i \in 1 .. a : s1[i + 1] = ext[i]
  BY <1>0, <1>a, ConcatProperties
<1> HIDE DEF a
<1>2. /\ s \in Seq(Nat) /\ Len(s) = a + 2 /\ s[a + 2] = int
      /\ \A i \in 1 .. a + 1 : s[i] = s1[i]
  <2>1. s = s1 \o <<int>>
    BY DEF a, DeleteNumbers
  <2> HIDE DEF s1
  <2>. QED
    BY <1>0, <1>a, <1>1, <2>1, ConcatProperties
<1> HIDE DEF s1
<1>3. s[1] = a /\ \A i \in 1 .. a : s[i + 1] = ext[i]
  <2>1. 1 \in 1 .. a + 1 /\ \A i \in 1 .. a : i + 1 \in 1 .. a + 1
    BY <1>0
  <2>. QED
    BY <1>1, <1>2, <2>1
<1> HIDE DEF s
<1>4. DeleteParts(s, ext, int)
  BY <1>2, <1>3 DEF a, DeleteParts
<1>. QED
  BY <1>4 DEF s

(* What was encoded is what is decoded.                                    *)
LEMMA PartFound ==
    ASSUME NEW s \in Seq(Nat), NEW t \in Seq(Nat), NEW o \in 1 .. Len(s),
           s[o] = Len(t), o + Len(t) <= Len(s),
           \A i \in 1 .. Len(t) : s[i + o] = t[i]
    PROVE  Part(s, o) = t /\ Fits(s, o)
<1>1. Fits(s, o)
  BY DEF Fits
<1>2. Part(s, o) = t
  <2> DEFINE u == SubSeq(s, o + 1, o + Len(t))
  <2>1. o \in Nat /\ Len(t) \in Nat /\ Len(s) \in Nat
    OBVIOUS
  <2>2. \A i \in o + 1 .. o + Len(t) : s[i] \in Nat
    BY <2>1
  <2>3. /\ u \in Seq(Nat)
        /\ Len(u) = IF o + 1 <= o + Len(t) THEN (o + Len(t)) - (o + 1) + 1 ELSE 0
        /\ \A i \in 1 .. (o + Len(t)) - (o + 1) + 1 : u[i] = s[(o + 1) + i - 1]
    <3>1. o + 1 \in Int /\ o + Len(t) \in Int
      BY <2>1
    <3>. QED
      BY <2>2, <3>1, SubSeqProperties
  <2> HIDE DEF u
  <2>4. Len(u) = Len(t)
    BY <2>1, <2>3
  <2>5. \A i \in 1 .. Len(t) : u[i] = t[i]
    <3>1. \A i \in 1 .. Len(t) : /\ i \in 1 .. (o + Len(t)) - (o + 1) + 1
                                 /\ (o + 1) + i - 1 = i + o
      BY <2>1
    <3>. QED
      BY <2>3, <3>1
  <2>6. u = t
    BY <2>3, <2>4, <2>5, SeqEqual
  <2>. QED
    BY <2>6 DEF Part, u
<1>. QED
  BY <1>1, <1>2

LEMMA InsertDecodes ==
    ASSUME NEW p \in Payloads, p.op = 1
    PROVE  decodeInsert(Numbers(p)) = p /\ Numbers(p) \in Seq(Nat)
<1> DEFINE s == Numbers(p)
           a == Len(p.ext)
           b == Len(p.vec)
           c == Len(p.meta)
<1>1. /\ p.ext \in Seq(Nat) /\ p.int \in Nat /\ p.vec \in Seq(Nat) /\ p.meta \in Seq(Nat)
      /\ p = InsertPayload(p.ext, p.int, p.vec, p.meta)
  BY PayloadKinds
<1>0. a \in Nat /\ b \in Nat /\ c \in Nat
  BY <1>1
<1>2. s = InsertNumbers(p.ext, p.int, p.vec, p.meta)
  BY DEF Numbers
<1> HIDE DEF s
<1>3. /\ s \in Seq(Nat)
      /\ Len(s) = a + b + c + 4
      /\ s[1] = a
      /\ \A i \in 1 .. a : s[i + 1] = p.ext[i]
      /\ s[a + 2] = p.int
      /\ s[a + 3] = b
      /\ \A i \in 1 .. b : s[i + (a + 3)] = p.vec[i]
      /\ s[a + b + 4] = c
      /\ \A i \in 1 .. c : s[i + (a + b + 4)] = p.meta[i]
  <2>1. InsertParts(s, p.ext, p.int, p.vec, p.meta)
    BY <1>1, <1>2, NumbersOfInsert
  <2>. QED
    BY <2>1 DEF InsertParts
<1> HIDE DEF a, b, c
<1>4. Part(s, 1) = p.ext /\ Fits(s, 1)
  <2>1. 1 \in 1 .. Len(s) /\ 1 + a <= Len(s)
    BY <1>0, <1>3
  <2>. QED
    BY <1>1, <1>3, <2>1, PartFound DEF a
<1>5. Part(s, a + 3) = p.vec /\ Fits(s, a + 3)
  <2>1. a + 3 \in 1 .. Len(s) /\ (a + 3) + b <= Len(s)
    BY <1>0, <1>3
  <2>. QED
    BY <1>1, <1>3, <2>1, PartFound DEF b
<1>6. Part(s, a + b + 4) = p.meta /\ Fits(s, a + b + 4)
  <2>1. a + b + 4 \in 1 .. Len(s) /\ (a + b + 4) + c <= Len(s)
    BY <1>0, <1>3
  <2>. QED
    BY <1>1, <1>3, <2>1, PartFound DEF c
<1>7. /\ ~(s[1] + 2 > Len(s)) /\ 1 + s[1] + 2 = a + 3
      /\ (a + 3) + s[a + 3] + 1 = a + b + 4 /\ (a + 3) - 1 = a + 2
  BY <1>0, <1>3
<1>8. decodeInsert(s) = InsertPayload(p.ext, p.int, p.vec, p.meta)
  BY <1>3, <1>4, <1>5, <1>6, <1>7 DEF decodeInsert
<1>. QED
  BY <1>1, <1>3, <1>8 DEF s

LEMMA DeleteDecodes ==
    ASSUME NEW p \in Payloads, p.op = 2
    PROVE  decodeDelete(Numbers(p)) = p /\ Numbers(p) \in Seq(Nat)
<1> DEFINE s == Numbers(p)
           a == Len(p.ext)
<1>1. /\ p.ext \in Seq(Nat) /\ p.int \in Nat /\ p = DeletePayload(p.ext, p.int)
  BY PayloadKinds
<1>0. a \in Nat
  BY <1>1
<1>2. s = DeleteNumbers(p.ext, p.int)
  BY DEF Numbers
<1> HIDE DEF s
<1>3. /\ s \in Seq(Nat) /\ Len(s) = a + 2 /\ s[1] = a
      /\ \A i \in 1 .. a : s[i + 1] = p.ext[i]
      /\ s[a + 2] = p.int
  <2>1. DeleteParts(s, p.ext, p.int)
    BY <1>1, <1>2, NumbersOfDelete
  <2>. QED
    BY <2>1 DEF DeleteParts
<1> HIDE DEF a
<1>4. Part(s, 1) = p.ext /\ Fits(s, 1)
  <2>1. 1 \in 1 .. Len(s) /\ 1 + a <= Len(s)
    BY <1>0, <1>3
  <2>. QED
    BY <1>1, <1>3, <2>1, PartFound DEF a
<1>5. ~(s[1] + 2 > Len(s)) /\ s[1] + 2 = a + 2
  BY <1>0, <1>3
<1>6. decodeDelete(s) = DeletePayload(p.ext, p.int)
  BY <1>3, <1>4, <1>5 DEF decodeDelete
<1>. QED
  BY <1>1, <1>3, <1>6 DEF s

LEMMA PayloadWords ==
    ASSUME NEW p \in Payloads
    PROVE  /\ encodePayload(p) \in Seq(BodyWord)
           /\ \A i \in 1 .. Len(encodePayload(p)) : encodePayload(p)[i].field = "data"
           /\ decodePayload(p.op, encodePayload(p)) = p
           /\ p # Failed /\ p.op \in 1 .. 2
<1> DEFINE w == encodePayload(p)
           s == Numbers(p)
<1>1. p.op \in {1, 2}
  BY PayloadKinds
<1>2. s \in Seq(Nat)
  BY <1>1, InsertDecodes, DeleteDecodes
<1>3. w = Data(s)
  BY <1>1 DEF encodePayload, encodeInsert, encodeDelete, Numbers,
     InsertNumbers, DeleteNumbers
<1> HIDE DEF w, s
<1>4. /\ w \in Seq(BodyWord) /\ Len(w) = Len(s)
      /\ \A i \in 1 .. Len(s) : w[i].field = "data" /\ w[i].val = s[i]
  BY <1>2, <1>3, DataWords
<1>5. Value(w) = s
  <2>1. DOMAIN w = 1 .. Len(s) /\ s = [i \in 1 .. Len(s) |-> s[i]]
    BY <1>2, <1>4
  <2>2. Value(w) = [i \in 1 .. Len(s) |-> w[i].val]
    BY <2>1 DEF Value
  <2>3. [i \in 1 .. Len(s) |-> w[i].val] = [i \in 1 .. Len(s) |-> s[i]]
    BY <1>4
  <2>. QED
    BY <2>1, <2>2, <2>3
<1>6. decodePayload(p.op, w) = p
  BY <1>1, <1>5, InsertDecodes, DeleteDecodes DEF decodePayload, s
<1>7. p # Failed
  <2>1. p.op # Failed.op
    BY <1>1 DEF Failed
  <2>. QED
    BY <2>1
<1>. QED
  BY <1>1, <1>4, <1>6, <1>7 DEF w

(* A record: four words of header, the payload, and the checksum of both.  *)
RecordOf(e, l, p) ==
    /\ e \in Seq(Word) /\ Len(e) = Len(encodePayload(p)) + 5
    /\ e[1] = Field("magic", 1) /\ e[2] = Field("length", Len(e))
    /\ e[3] = Field("lsn", l) /\ e[4] = Field("op", p.op)
    /\ \A i \in 1 .. Len(encodePayload(p)) : e[i + 4] = encodePayload(p)[i]
    /\ \A i \in 1 .. Len(e) - 1 : e[i] \in BodyWord
    /\ e[Len(e)] = checksum(SubSeq(e, 1, Len(e) - 1))

LEMMA RecordWords ==
    ASSUME NEW l \in Nat, NEW p \in Payloads
    PROVE  RecordOf(encode(l, p), l, p)
<1> DEFINE e == encode(l, p)
           w == encodePayload(p)
           length == RecordHeaderSize + Len(w) + 1
           head == <<Field("magic", 1), Field("length", length), Field("lsn", l),
                     Field("op", p.op)>>
           body == head \o w
<1>1. w \in Seq(BodyWord) /\ Len(w) \in Nat
  BY PayloadWords
<1>2. e = Append(body, checksum(body))
  BY DEF encode
<1> HIDE DEF w, e
<1>3. length \in Nat /\ p.op \in Nat /\ length = Len(w) + 5
  BY <1>1, PayloadWords DEF RecordHeaderSize
<1> HIDE DEF length
<1>4. /\ head \in Seq(BodyWord) /\ Len(head) = 4
      /\ head[1] = Field("magic", 1) /\ head[2] = Field("length", length)
      /\ head[3] = Field("lsn", l) /\ head[4] = Field("op", p.op)
  <2>1. /\ Field("magic", 1) \in BodyWord /\ Field("length", length) \in BodyWord
        /\ Field("lsn", l) \in BodyWord /\ Field("op", p.op) \in BodyWord
    BY <1>3 DEF Field, BodyWord
  <2>. QED
    BY <2>1
<1> HIDE DEF head
<1>5. /\ body \in Seq(BodyWord) /\ Len(body) = 4 + Len(w)
      /\ \A i \in 1 .. 4 : body[i] = head[i]
      /\ \A i \in 1 .. Len(w) : body[i + 4] = w[i]
  <2>1. /\ body \in Seq(BodyWord) /\ Len(body) = Len(head) + Len(w)
        /\ \A i \in 1 .. Len(head) : body[i] = head[i]
        /\ \A i \in 1 .. Len(w) : body[i + Len(head)] = w[i]
    BY <1>1, <1>4, JoinedWords
  <2>. QED
    BY <1>4, <2>1
<1> HIDE DEF body
<1>6. Field("crc", body) \in CrcWord
  BY <1>5 DEF Field, CrcWord
<1>7. /\ e \in Seq(Word) /\ Len(e) = Len(body) + 1
      /\ \A i \in 1 .. Len(body) : e[i] = body[i]
      /\ e[Len(body) + 1] = checksum(body)
  <2>1. body \in Seq(Word) /\ checksum(body) \in Word
    BY <1>5, <1>6, SeqMonotonic DEF Word, checksum
  <2>. QED
    BY <1>2, <2>1, AppendProperties
<1>8. Len(e) = Len(w) + 5 /\ Len(e) - 1 = Len(body) /\ length = Len(e)
  BY <1>1, <1>3, <1>5, <1>7
<1>9. SubSeq(e, 1, Len(e) - 1) = body
  <2> DEFINE u == SubSeq(e, 1, Len(e) - 1)
             n == Len(body)
  <2>1. n \in Nat /\ 1 \in Int /\ n \in Int
    BY <1>5
  <2>2. \A i \in 1 .. n : e[i] \in BodyWord
    BY <1>5, <1>7
  <2>3. u = SubSeq(e, 1, n)
    BY <1>8
  <2> HIDE DEF n
  <2>4. /\ SubSeq(e, 1, n) \in Seq(BodyWord)
        /\ Len(SubSeq(e, 1, n)) = IF 1 <= n THEN n - 1 + 1 ELSE 0
        /\ \A i \in 1 .. n - 1 + 1 : SubSeq(e, 1, n)[i] = e[1 + i - 1]
    BY <2>1, <2>2, SubSeqProperties
  <2>5. (IF 1 <= n THEN n - 1 + 1 ELSE 0) = n
    BY <2>1
  <2>6. \A i \in 1 .. n : i \in 1 .. n - 1 + 1 /\ 1 + i - 1 = i
    BY <2>1
  <2> HIDE DEF u
  <2>7. u \in Seq(BodyWord) /\ Len(u) = Len(body) /\ \A i \in 1 .. Len(body) : u[i] = body[i]
    BY <1>7, <2>3, <2>4, <2>5, <2>6 DEF n
  <2>8. u = body
    BY <1>5, <2>7, SeqEqual
  <2>. QED
    BY <2>8 DEF u
<1>10. /\ e[1] = Field("magic", 1) /\ e[2] = Field("length", Len(e))
       /\ e[3] = Field("lsn", l) /\ e[4] = Field("op", p.op)
  <2>1. \A i \in 1 .. 4 : e[i] = head[i]
    BY <1>1, <1>5, <1>7
  <2>. QED
    BY <1>4, <1>8, <2>1
<1>11. \A i \in 1 .. Len(w) : e[i + 4] = w[i]
  BY <1>1, <1>5, <1>7
<1>12. \A i \in 1 .. Len(e) - 1 : e[i] \in BodyWord
  BY <1>5, <1>7, <1>8
<1>. QED
  BY <1>7, <1>8, <1>9, <1>10, <1>11, <1>12 DEF w, e, RecordOf

-----------------------------------------------------------------------------
(* The loops                                                               *)
(*                                                                         *)
(* scan and walk go from smaller to larger offsets.  What they compute is  *)
(* proved from the end of the file backwards: what holds of n, and of a    *)
(* number when it holds of the next, holds of 0.                           *)

LEMMA SmallestNumber ==
    ASSUME NEW T \in SUBSET Nat, T # {}
    PROVE  \E m \in T : \A k \in T : m <= k
<1>1. PICK m \in T : \A k \in T : ~ (<<k, m>> \in OpToRel(<, Nat))
  BY NatLessThanWellFounded, WFMin
<1>2. ASSUME NEW k \in T
      PROVE  m <= k
  <2>1. ~ (k < m)
    BY <1>1 DEF OpToRel
  <2>. QED
    BY <2>1
<1>. QED
  BY <1>2

LEMMA Downward ==
    ASSUME NEW n \in Nat, NEW T \in SUBSET (0 .. n), n \in T,
           \A k \in 0 .. n - 1 : k + 1 \in T => k \in T
    PROVE  T = 0 .. n
<1> SUFFICES ASSUME (0 .. n) \ T # {} PROVE FALSE
  OBVIOUS
<1> DEFINE B == {k \in 0 .. n : n - k \notin T}
<1>1. B \in SUBSET Nat /\ B # {}
  <2>1. PICK x \in 0 .. n : x \notin T
    OBVIOUS
  <2>2. n - x \in 0 .. n /\ n - (n - x) = x
    BY <2>1
  <2>3. n - x \in B
    BY <2>1, <2>2
  <2>4. \A k \in 0 .. n : k \in Nat
    OBVIOUS
  <2>. QED
    BY <2>3, <2>4
<1>2. PICK b \in B : \A k \in B : b <= k
  <2> HIDE DEF B
  <2>. QED
    BY <1>1, SmallestNumber
<1>3. b \in 1 .. n
  BY <1>2
<1>4. b - 1 \in 0 .. n /\ ~(b <= b - 1) /\ n - (b - 1) = (n - b) + 1 /\ n - b \in 0 .. n - 1
  BY <1>3
<1>5. b - 1 \notin B
  BY <1>2, <1>4
<1>6. (n - b) + 1 \in T
  BY <1>4, <1>5
<1>. QED
  BY <1>2, <1>4, <1>6

LEMMA WordFields ==
    ASSUME Types, NEW p \in 1 .. Len(file)
    PROVE  /\ file[p] \in Word
           /\ AsLength(file[p]) \in Nat /\ AsLsn(file[p]) \in Nat
<1>1. file[p] \in Word
  BY DEF Types
<1>2. CASE file[p] \in BodyWord
  BY <1>1, <1>2, BoundAssumption DEF AsLength, AsLsn, BodyWord, BigLsn
<1>3. CASE file[p] \in CrcWord
  BY <1>1, <1>3, BoundAssumption DEF AsLength, AsLsn, CrcWord, BigLsn
<1>. QED
  BY <1>1, <1>2, <1>3 DEF Word

(* One round of the loop of scanSegmentFile, which goes on as g says.      *)
ScanRound(g, o) ==
    IF o > Len(file) \/ HeaderTorn(o) THEN Scanned(<<>>)
    ELSE IF ~decodeRecordHeader(o) THEN Refused
    ELSE IF BodyTorn(o) THEN Scanned(<<>>)
    ELSE LET next == o + AsLength(file[o + 1])
             op   == AsOp(file[o + 3])
         IN  IF ~ChecksumOK(o, next - 1) THEN Refused
             ELSE LET p    == decodePayload(op, SubSeq(file, o + RecordHeaderSize, next - 2))
                      rest == g[next]
                  IN  IF p = Failed \/ ~rest.ok THEN Refused
                      ELSE Scanned(<<[lsn |-> AsLsn(file[o + 2]), payload |-> p]>>
                                   \o rest.records)

LEMMA ScanRoundLocal ==
    ASSUME Types, NEW o \in Nat, NEW g, NEW h, \A x \in Nat : x > o => g[x] = h[x]
    PROVE  ScanRound(g, o) = ScanRound(h, o)
<1>1. CASE \/ o > Len(file) \/ HeaderTorn(o) \/ ~decodeRecordHeader(o) \/ BodyTorn(o)
  BY <1>1 DEF ScanRound
<1>2. CASE ~(\/ o > Len(file) \/ HeaderTorn(o) \/ ~decodeRecordHeader(o) \/ BodyTorn(o))
  <2> DEFINE next == o + AsLength(file[o + 1])
  <2>1. o + 1 \in 1 .. Len(file)
    <3>1. Len(file) \in Nat
      BY DEF Types
    <3>2. ~(o + RecordHeaderSize - 1 > Len(file))
      BY <1>2 DEF HeaderTorn
    <3>. QED
      BY <3>1, <3>2 DEF RecordHeaderSize
  <2>2. AsLength(file[o + 1]) >= 5 /\ AsLength(file[o + 1]) \in Nat
    BY <1>2, <2>1, WordFields DEF decodeRecordHeader, MinRecordLength, RecordHeaderSize
  <2>3. next \in Nat /\ next > o
    BY <2>2
  <2>4. g[next] = h[next]
    BY <2>3
  <2>. QED
    BY <1>2, <2>4 DEF ScanRound
<1>. QED
  BY <1>1, <1>2

LEMMA ScanLoop ==
    ASSUME Types
    PROVE  \A o \in Nat : scan[o] = ScanRound(scan, o)
<1> DEFINE N == Len(file)
           Sol(g, k) == \A o \in Nat : k <= o => g[o] = ScanRound(g, o)
           T == {k \in 0 .. N + 1 : \E g : Sol(g, k)}
<1>0. N \in Nat
  BY DEF Types
<1>1. N + 1 \in T
  <2> DEFINE g == [o \in Nat |-> Scanned(<<>>)]
  <2>1. ASSUME NEW o \in Nat, N + 1 <= o PROVE g[o] = ScanRound(g, o)
    <3>1. o > N
      BY <1>0, <2>1
    <3>. QED
      BY <3>1 DEF ScanRound
  <2>2. Sol(g, N + 1)
    BY <2>1
  <2>3. N + 1 \in 0 .. N + 1
    BY <1>0
  <2>. QED
    BY <2>2, <2>3
<1>2. ASSUME NEW k \in 0 .. (N + 1) - 1, k + 1 \in T
      PROVE  k \in T
  <2>1. PICK g : Sol(g, k + 1)
    BY <1>2
  <2> DEFINE h == [o \in Nat |-> IF o = k THEN ScanRound(g, k) ELSE g[o]]
  <2>2. k \in Nat /\ k \in 0 .. N + 1
    BY <1>0
  <2>3. h[k] = ScanRound(g, k) /\ \A o \in Nat : o > k => h[o] = g[o]
    BY <2>2
  <2> HIDE DEF h
  <2>4. ASSUME NEW o \in Nat, k <= o
        PROVE  h[o] = ScanRound(h, o)
    <3>1. \A x \in Nat : x > o => h[x] = g[x]
      BY <2>2, <2>3, <2>4
    <3>2. ScanRound(h, o) = ScanRound(g, o)
      BY <3>1, ScanRoundLocal
    <3>3. CASE o = k
      BY <2>3, <3>2, <3>3
    <3>4. CASE o # k
      <4>1. k + 1 <= o /\ o > k
        BY <2>2, <2>4, <3>4
      <4>. QED
        BY <2>1, <2>3, <3>2, <4>1
    <3>. QED
      BY <3>3, <3>4
  <2>5. Sol(h, k)
    BY <2>4
  <2>. QED
    BY <2>2, <2>5
<1>3. T = 0 .. N + 1
  <2>1. N + 1 \in Nat /\ T \in SUBSET (0 .. N + 1)
    BY <1>0
  <2> HIDE DEF T
  <2>. QED
    BY <1>1, <1>2, <2>1, Downward
<1>4. 0 \in T
  BY SMTT(30), <1>0, <1>3
<1>5. PICK g : Sol(g, 0)
  BY <1>4
<1> DEFINE h == [o \in Nat |-> g[o]]
<1>6. h = [o \in Nat |-> ScanRound(h, o)]
  <2>1. ASSUME NEW o \in Nat
        PROVE  h[o] = ScanRound(h, o)
    <3>1. \A x \in Nat : x > o => h[x] = g[x]
      OBVIOUS
    <3>2. ScanRound(h, o) = ScanRound(g, o)
      <4> HIDE DEF h
      <4>. QED
        BY <3>1, ScanRoundLocal
    <3>3. g[o] = ScanRound(g, o)
      BY <1>5
    <3>. QED
      BY <3>2, <3>3
  <2>. QED
    BY <2>1
<1>7. \E f : f = [o \in Nat |-> ScanRound(f, o)]
  <2> HIDE DEF h
  <2>. QED
    BY <1>6
<1>8. scan = CHOOSE f : f = [o \in Nat |-> ScanRound(f, o)]
  BY DEF scan, ScanRound
<1>9. scan = [o \in Nat |-> ScanRound(scan, o)]
  BY <1>7, <1>8
<1>. QED
  BY <1>9

(* The same of getLatestLSN.                                               *)
WalkEnds(o) == \/ o + RecordHeaderSize - 1 > Len(file)
               \/ AsLength(file[o + 1]) < MinRecordLength
WalkRound(g, o) ==
    IF WalkEnds(o) THEN <<>>
    ELSE <<AsLsn(file[o + 2])>> \o g[o + AsLength(file[o + 1])]

LEMMA WalkGoesOn ==
    ASSUME Types, NEW o \in Nat, ~WalkEnds(o)
    PROVE  /\ o + 1 \in 1 .. Len(file) /\ o + 2 \in 1 .. Len(file)
           /\ o + AsLength(file[o + 1]) \in Nat /\ o + AsLength(file[o + 1]) > o
           /\ AsLsn(file[o + 2]) \in Nat
<1>1. Len(file) \in Nat
  BY DEF Types
<1>2. ~(o + RecordHeaderSize - 1 > Len(file)) /\ ~(AsLength(file[o + 1]) < MinRecordLength)
  BY DEF WalkEnds
<1>3. o + 1 \in 1 .. Len(file) /\ o + 2 \in 1 .. Len(file)
  BY <1>1, <1>2 DEF RecordHeaderSize
<1>4. AsLength(file[o + 1]) >= 5 /\ AsLength(file[o + 1]) \in Nat
  BY <1>2, <1>3, WordFields DEF MinRecordLength, RecordHeaderSize
<1>5. o + AsLength(file[o + 1]) \in Nat /\ o + AsLength(file[o + 1]) > o
  BY <1>4
<1>6. AsLsn(file[o + 2]) \in Nat
  BY <1>3, WordFields
<1>. QED
  BY <1>3, <1>5, <1>6

LEMMA WalkRoundLocal ==
    ASSUME Types, NEW o \in Nat, NEW g, NEW h, \A x \in Nat : x > o => g[x] = h[x]
    PROVE  WalkRound(g, o) = WalkRound(h, o)
<1>1. CASE WalkEnds(o)
  BY <1>1 DEF WalkRound
<1>2. CASE ~WalkEnds(o)
  BY <1>2, WalkGoesOn DEF WalkRound
<1>. QED
  BY <1>1, <1>2

LEMMA WalkLoop ==
    ASSUME Types
    PROVE  \A o \in Nat : walk[o] = WalkRound(walk, o)
<1> DEFINE N == Len(file)
           Sol(g, k) == \A o \in Nat : k <= o => g[o] = WalkRound(g, o)
           T == {k \in 0 .. N + 1 : \E g : Sol(g, k)}
<1>0. N \in Nat
  BY DEF Types
<1>1. N + 1 \in T
  <2> DEFINE g == [o \in Nat |-> <<>>]
  <2>1. ASSUME NEW o \in Nat, N + 1 <= o PROVE g[o] = WalkRound(g, o)
    <3>1. o + RecordHeaderSize - 1 > Len(file)
      BY <1>0, <2>1 DEF RecordHeaderSize
    <3>. QED
      BY <3>1 DEF WalkRound, WalkEnds
  <2>2. Sol(g, N + 1)
    BY <2>1
  <2>3. N + 1 \in 0 .. N + 1
    BY <1>0
  <2>. QED
    BY <2>2, <2>3
<1>2. ASSUME NEW k \in 0 .. (N + 1) - 1, k + 1 \in T
      PROVE  k \in T
  <2>1. PICK g : Sol(g, k + 1)
    BY <1>2
  <2> DEFINE h == [o \in Nat |-> IF o = k THEN WalkRound(g, k) ELSE g[o]]
  <2>2. k \in Nat /\ k \in 0 .. N + 1
    BY <1>0
  <2>3. h[k] = WalkRound(g, k) /\ \A o \in Nat : o > k => h[o] = g[o]
    BY <2>2
  <2> HIDE DEF h
  <2>4. ASSUME NEW o \in Nat, k <= o
        PROVE  h[o] = WalkRound(h, o)
    <3>1. \A x \in Nat : x > o => h[x] = g[x]
      BY <2>2, <2>3, <2>4
    <3>2. WalkRound(h, o) = WalkRound(g, o)
      BY <3>1, WalkRoundLocal
    <3>3. CASE o = k
      BY <2>3, <3>2, <3>3
    <3>4. CASE o # k
      <4>1. k + 1 <= o /\ o > k
        BY <2>2, <2>4, <3>4
      <4>. QED
        BY <2>1, <2>3, <3>2, <4>1
    <3>. QED
      BY <3>3, <3>4
  <2>5. Sol(h, k)
    BY <2>4
  <2>. QED
    BY <2>2, <2>5
<1>3. T = 0 .. N + 1
  <2>1. N + 1 \in Nat /\ T \in SUBSET (0 .. N + 1)
    BY <1>0
  <2> HIDE DEF T
  <2>. QED
    BY <1>1, <1>2, <2>1, Downward
<1>4. 0 \in T
  BY SMTT(30), <1>0, <1>3
<1>5. PICK g : Sol(g, 0)
  BY <1>4
<1> DEFINE h == [o \in Nat |-> g[o]]
<1>6. h = [o \in Nat |-> WalkRound(h, o)]
  <2>1. ASSUME NEW o \in Nat
        PROVE  h[o] = WalkRound(h, o)
    <3>1. \A x \in Nat : x > o => h[x] = g[x]
      OBVIOUS
    <3>2. WalkRound(h, o) = WalkRound(g, o)
      <4> HIDE DEF h
      <4>. QED
        BY <3>1, WalkRoundLocal
    <3>3. g[o] = WalkRound(g, o)
      BY <1>5
    <3>. QED
      BY <3>2, <3>3
  <2>. QED
    BY <2>1
<1>7. \E f : f = [o \in Nat |-> WalkRound(f, o)]
  <2> HIDE DEF h
  <2>. QED
    BY <1>6
<1>8. walk = CHOOSE f : f = [o \in Nat |-> WalkRound(f, o)]
  BY DEF walk, WalkRound, WalkEnds
<1>9. walk = [o \in Nat |-> WalkRound(walk, o)]
  BY <1>7, <1>8
<1>. QED
  BY <1>9

LEMMA WalkType ==
    ASSUME Types
    PROVE  \A o \in Nat : walk[o] \in Seq(Nat)
<1> DEFINE N == Len(file) + 1
           T == {k \in 0 .. N : \A o \in Nat : k <= o => walk[o] \in Seq(Nat)}
<1>0. N \in Nat /\ Len(file) \in Nat
  BY DEF Types
<1>1. ASSUME NEW o \in Nat, \A x \in Nat : x > o => walk[x] \in Seq(Nat)
      PROVE  walk[o] \in Seq(Nat)
  <2>1. walk[o] = WalkRound(walk, o)
    BY WalkLoop
  <2>2. CASE WalkEnds(o)
    BY <2>1, <2>2 DEF WalkRound
  <2>3. CASE ~WalkEnds(o)
    <3>1. walk[o + AsLength(file[o + 1])] \in Seq(Nat)
      BY <1>1, <2>3, WalkGoesOn
    <3>2. <<AsLsn(file[o + 2])>> \in Seq(Nat)
      BY <2>3, WalkGoesOn, One
    <3>3. walk[o] = <<AsLsn(file[o + 2])>> \o walk[o + AsLength(file[o + 1])]
      BY <2>1, <2>3 DEF WalkRound
    <3>. QED
      BY <3>1, <3>2, <3>3, Joined
  <2>. QED
    BY <2>2, <2>3
<1>2. N \in T
  <2>1. ASSUME NEW o \in Nat, N <= o
        PROVE  walk[o] \in Seq(Nat)
    <3>1. WalkEnds(o)
      BY <1>0, <2>1 DEF WalkEnds, RecordHeaderSize
    <3>2. walk[o] = <<>>
      BY <3>1, WalkLoop DEF WalkRound
    <3>. QED
      BY <3>2
  <2>. QED
    BY <1>0, <2>1
<1>3. ASSUME NEW k \in 0 .. N - 1, k + 1 \in T
      PROVE  k \in T
  <2>1. ASSUME NEW o \in Nat, k <= o
        PROVE  walk[o] \in Seq(Nat)
    <3>1. \A x \in Nat : x > o => k + 1 <= x
      BY <1>0, <2>1
    <3>. QED
      BY <1>1, <1>3, <3>1
  <2>2. k \in 0 .. N
    BY <1>0
  <2>. QED
    BY <2>1, <2>2
<1>4. T = 0 .. N
  <2>1. T \in SUBSET (0 .. N)
    OBVIOUS
  <2> HIDE DEF T, N
  <2>. QED
    BY <1>0, <1>2, <1>3, <2>1, Downward
<1>5. 0 \in T
  BY <1>0, <1>4
<1>. QED
  BY <1>5

-----------------------------------------------------------------------------
(* What stands in the file                                                 *)

ChunkFacts(k) ==
    /\ RecordOf(Enc(k), k.rec.lsn, k.rec.payload)
    /\ k.at \in Nat /\ k.at >= 2 /\ k.n \in Nat /\ k.n >= 1 /\ k.n <= k.rec.size
    /\ k.at + k.n <= Len(file)
    /\ k.rec.lsn \in Nat /\ k.rec.payload \in Payloads
    /\ k.rec.size \in Nat /\ k.rec.size = Len(Enc(k))
    /\ k.rec.size >= 5 /\ k.rec.size <= MaxSegment

LEMMA ChunkWords ==
    ASSUME Types, Layout, NEW i \in DOMAIN chunks
    PROVE  ChunkFacts(chunks[i])
<1> DEFINE k == chunks[i]
<1>1. /\ k.at \in Nat /\ k.at >= SegmentHeaderSize
      /\ k.n \in 1 .. k.rec.size /\ k.at + k.n <= Len(file)
      /\ k.rec \in [lsn : Nat, payload : Payloads, size : Nat]
      /\ k.rec.size = Len(Enc(k)) /\ k.rec.size <= MaxSegment
  BY DEF Layout
<1> HIDE DEF k
<1>2. k.rec.lsn \in Nat /\ k.rec.payload \in Payloads /\ k.rec.size \in Nat
  BY <1>1
<1>3. RecordOf(Enc(k), k.rec.lsn, k.rec.payload)
  BY <1>2, RecordWords DEF Enc
<1>4. Len(encodePayload(k.rec.payload)) \in Nat
  BY <1>2, PayloadWords
<1>5. k.rec.size >= 5
  BY <1>1, <1>3, <1>4 DEF RecordOf
<1>6. k.n \in Nat /\ k.n >= 1 /\ k.n <= k.rec.size
  BY <1>1, <1>2
<1>. QED
  BY <1>1, <1>2, <1>3, <1>5, <1>6 DEF ChunkFacts, SegmentHeaderSize, k

(* A damaged word keeps its field and is another one.                      *)
LEMMA DamagedWord ==
    ASSUME NEW w \in Word, NEW v \in Damages(w)
    PROVE  /\ [w EXCEPT !.val = v] \in Word
           /\ w.field = "crc" => v = <<>>
           /\ w.field = "magic" => v = 0
           /\ w.field \notin {"crc", "magic"} => v # w.val
<1>1. CASE w \in BodyWord
  <2>1. v \in Nat /\ w.val \in Nat /\ w.field # "crc"
    BY <1>1, BoundAssumption DEF BodyWord, Damages
  <2>2. [w EXCEPT !.val = v] \in BodyWord
    BY <1>1, <2>1 DEF BodyWord
  <2>3. w.field \notin {"crc", "magic"} => v # w.val
    BY <2>1 DEF Damages
  <2>4. w.field = "magic" => v = 0
    BY <2>1 DEF Damages
  <2>. QED
    BY <2>1, <2>2, <2>3, <2>4 DEF Word
<1>2. CASE w \in CrcWord
  <2>1. w.field = "crc" /\ v = <<>>
    BY <1>2 DEF CrcWord, Damages
  <2>2. [w EXCEPT !.val = v] \in CrcWord
    <3>1. v \in Seq(BodyWord)
      BY <2>1
    <3>. QED
      BY <1>2, <3>1 DEF CrcWord
  <2>. QED
    BY <2>1, <2>2 DEF Word
<1>. QED
  BY <1>1, <1>2 DEF Word

(* Chunk i is whole and all its words are as they were written.            *)
Readable(i) ==
    /\ Whole(chunks[i])
    /\ \A q \in 1 .. chunks[i].rec.size : file[chunks[i].at + q] = Enc(chunks[i])[q]

(* What the loops find at position o, where record r starts.               *)
Reads(o, r) ==
    /\ o \in Nat /\ o + 3 <= Len(file) /\ r.size \in Nat /\ r.size >= 5
    /\ decodeRecordHeader(o) /\ AsLength(file[o + 1]) = r.size
    /\ AsLsn(file[o + 2]) = r.lsn
    /\ ~BodyTorn(o) /\ ChecksumOK(o, o + r.size - 1)
    /\ decodePayload(AsOp(file[o + 3]), SubSeq(file, o + RecordHeaderSize, o + r.size - 2))
         = r.payload
    /\ r.payload # Failed

PieceOf(u, s, a, n) == /\ Len(u) = n
                       /\ \A q \in 1 .. n : u[q] = s[a + q - 1]

LEMMA Piece ==
    ASSUME NEW S, NEW s \in Seq(S), NEW a \in Nat, NEW n \in Nat, NEW b \in Int,
           a >= 1, a + n - 1 <= Len(s), b = a + n - 1
    PROVE  SubSeq(s, a, b) \in Seq(S) /\ PieceOf(SubSeq(s, a, b), s, a, n)
<1>1. a \in Int /\ b \in Int /\ Len(s) \in Nat
  OBVIOUS
<1>2. \A i \in a .. b : s[i] \in S
  <2>1. \A i \in a .. b : i \in 1 .. Len(s)
    BY <1>1
  <2>. QED
    BY <2>1
<1>3. /\ SubSeq(s, a, b) \in Seq(S)
      /\ Len(SubSeq(s, a, b)) = IF a <= b THEN b - a + 1 ELSE 0
      /\ \A i \in 1 .. b - a + 1 : SubSeq(s, a, b)[i] = s[a + i - 1]
  BY <1>1, <1>2, SubSeqProperties
<1>4. b - a + 1 = n /\ (IF a <= b THEN b - a + 1 ELSE 0) = n
  BY <1>1
<1>. QED
  BY <1>3, <1>4 DEF PieceOf

LEMMA ReadRecord ==
    ASSUME Types, Layout, NEW i \in DOMAIN chunks, Readable(i)
    PROVE  Reads(chunks[i].at + 1, chunks[i].rec)
<1> DEFINE k == chunks[i]
           r == k.rec
           e == Enc(k)
           o == k.at + 1
<1>1. /\ ChunkFacts(k) /\ k.n = r.size
      /\ \A q \in 1 .. r.size : file[k.at + q] = e[q]
  BY ChunkWords DEF Readable, Whole
<1> HIDE DEF k
<1>2. /\ k.at \in Nat /\ k.at >= 2 /\ r.size \in Nat /\ r.size = Len(e) /\ r.size >= 5
      /\ k.at + r.size <= Len(file) /\ r.size <= MaxSegment /\ r.lsn \in Nat
      /\ r.payload \in Payloads /\ RecordOf(e, r.lsn, r.payload)
  BY <1>1 DEF ChunkFacts
<1> HIDE DEF r, e
<1>3. /\ e \in Seq(Word) /\ r.size = Len(encodePayload(r.payload)) + 5
      /\ e[1] = Field("magic", 1) /\ e[2] = Field("length", r.size)
      /\ e[3] = Field("lsn", r.lsn) /\ e[4] = Field("op", r.payload.op)
      /\ \A q \in 1 .. Len(encodePayload(r.payload)) : e[q + 4] = encodePayload(r.payload)[q]
      /\ e[r.size] = checksum(SubSeq(e, 1, r.size - 1))
  BY <1>2 DEF RecordOf
<1>4. /\ \A q \in 1 .. r.size : file[k.at + q] = e[q]
      /\ file \in Seq(Word) /\ Len(file) \in Nat
  BY <1>1 DEF Types, r, e
<1>5. /\ file[o] = e[1] /\ file[o + 1] = e[2] /\ file[o + 2] = e[3] /\ file[o + 3] = e[4]
      /\ file[o + r.size - 1] = e[r.size]
  <2>1. o = k.at + 1 /\ o + 1 = k.at + 2 /\ o + 2 = k.at + 3 /\ o + 3 = k.at + 4
        /\ o + r.size - 1 = k.at + r.size
    BY SMTT(30), <1>2
  <2>2. 1 \in 1 .. r.size /\ 2 \in 1 .. r.size /\ 3 \in 1 .. r.size /\ 4 \in 1 .. r.size
        /\ r.size \in 1 .. r.size
    BY <1>2
  <2>. QED
    BY <1>4, <2>1, <2>2
<1>6. r.payload.op \in 1 .. 2 /\ r.payload # Failed
      /\ encodePayload(r.payload) \in Seq(BodyWord)
      /\ decodePayload(r.payload.op, encodePayload(r.payload)) = r.payload
  BY <1>2, PayloadWords
<1>7. /\ AsLength(file[o + 1]) = r.size /\ AsLsn(file[o + 2]) = r.lsn
      /\ AsOp(file[o + 3]) = r.payload.op /\ AsMagic(file[o])
  BY <1>3, <1>5 DEF AsLength, AsLsn, AsOp, AsMagic, Field
<1>8. decodeRecordHeader(o)
  BY <1>2, <1>6, <1>7 DEF decodeRecordHeader, MinRecordLength, RecordHeaderSize
<1>9. ~BodyTorn(o)
  BY <1>2, <1>4, <1>7 DEF BodyTorn
<1>10. ChecksumOK(o, o + r.size - 1)
  <2> DEFINE u == SubSeq(file, o, (o + r.size - 1) - 1)
             v == SubSeq(e, 1, r.size - 1)
             n == r.size - 1
  <2>1. n \in Nat /\ o \in Nat /\ o >= 1 /\ o + n - 1 <= Len(file)
        /\ (o + r.size - 1) - 1 = o + n - 1 /\ (o + r.size - 1) - 1 \in Int
    BY SMTT(30), <1>2, <1>4
  <2>2. u \in Seq(Word) /\ PieceOf(u, file, o, n)
    BY <1>4, <2>1, Piece
  <2>3. v \in Seq(Word) /\ PieceOf(v, e, 1, n)
    <3>1. 1 + n - 1 <= Len(e) /\ r.size - 1 = 1 + n - 1 /\ r.size - 1 \in Int
      BY <1>2
    <3>. QED
      BY <1>3, <2>1, <3>1, Piece
  <2>4. \A q \in 1 .. n : u[q] = v[q]
    <3>1. ASSUME NEW q \in 1 .. n
          PROVE  u[q] = v[q]
      <4>1. o + q - 1 = k.at + q /\ q \in 1 .. r.size /\ 1 + q - 1 = q
        BY <1>2
      <4>2. u[q] = file[o + q - 1] /\ v[q] = e[1 + q - 1]
        BY <2>2, <2>3 DEF PieceOf
      <4>. QED
        BY <1>4, <4>1, <4>2
    <3>. QED
      BY <3>1
  <2>5. u = v
    <3> HIDE DEF u, v, n
    <3>1. Len(u) = Len(v) /\ Len(u) = n
      BY <2>2, <2>3 DEF PieceOf
    <3>. QED
      BY <2>2, <2>3, <2>4, <3>1, SeqEqual
  <2>. QED
    BY <1>3, <1>5, <2>5 DEF ChecksumOK
<1>11. SubSeq(file, o + RecordHeaderSize, o + r.size - 2) = encodePayload(r.payload)
  <2> DEFINE u == SubSeq(file, o + RecordHeaderSize, o + r.size - 2)
             w == encodePayload(r.payload)
             n == Len(w)
  <2>0. n \in Nat /\ r.size = n + 5
    BY <1>3, <1>6
  <2> HIDE DEF w, n
  <2>1. o + 4 \in Nat /\ o + 4 >= 1 /\ (o + 4) + n - 1 <= Len(file)
        /\ o + r.size - 2 = (o + 4) + n - 1 /\ o + r.size - 2 \in Int
    <3>1. k.at \in Nat /\ n \in Nat /\ r.size = n + 5 /\ k.at + r.size <= Len(file)
          /\ Len(file) \in Nat
      BY <1>2, <1>4, <2>0
    <3>2. \A x, y, z, l \in Nat :
             z = y + 5 /\ x + z <= l =>
               /\ (x + 1) + 4 \in Nat /\ (x + 1) + 4 >= 1 /\ ((x + 1) + 4) + y - 1 <= l
               /\ (x + 1) + z - 2 = ((x + 1) + 4) + y - 1 /\ (x + 1) + z - 2 \in Int
      OBVIOUS
    <3>3. r.size \in Nat
      BY <1>2
    <3>. QED
      BY <3>1, <3>2, <3>3
  <2>2. u \in Seq(Word) /\ PieceOf(u, file, o + 4, n)
    BY <1>4, <2>0, <2>1, Piece DEF RecordHeaderSize
  <2>3. \A q \in 1 .. n : u[q] = w[q]
    <3>1. ASSUME NEW q \in 1 .. n
          PROVE  u[q] = w[q]
      <4>1. (o + 4) + q - 1 = k.at + (q + 4) /\ q + 4 \in 1 .. r.size
        BY <1>2, <2>0
      <4>2. u[q] = file[(o + 4) + q - 1]
        BY <2>2 DEF PieceOf
      <4>3. e[q + 4] = w[q]
        BY <1>3 DEF w, n
      <4>. QED
        BY <1>4, <4>1, <4>2, <4>3
    <3>. QED
      BY <3>1
  <2>4. w \in Seq(Word)
    BY <1>6, SeqMonotonic DEF Word, w
  <2>5. u = w
    <3> HIDE DEF u
    <3>1. Len(u) = Len(w)
      BY <2>2 DEF PieceOf, n
    <3>. QED
      BY <2>2, <2>3, <2>4, <3>1, SeqEqual DEF n
  <2>. QED
    BY <2>5 DEF w
<1>12. Reads(o, r)
  <2>1. o \in Nat /\ o + 3 <= Len(file)
    BY <1>2, <1>4
  <2>. QED
    BY <1>2, <1>6, <1>7, <1>8, <1>9, <1>10, <1>11, <2>1 DEF Reads
<1>. QED
  BY <1>12 DEF k, r

(* The loops go on behind a record they can read.                          *)
LEMMA ScanRecord ==
    ASSUME Types, NEW o, NEW r, Reads(o, r)
    PROVE  /\ o + r.size \in Nat /\ o \in Nat
           /\ scan[o] = IF scan[o + r.size].ok
                        THEN Scanned(<<[lsn |-> r.lsn, payload |-> r.payload]>>
                                     \o scan[o + r.size].records)
                        ELSE Refused
           /\ walk[o] = <<r.lsn>> \o walk[o + r.size]
<1>1. /\ o \in Nat /\ o + 3 <= Len(file) /\ r.size \in Nat /\ r.size >= 5
      /\ Len(file) \in Nat
  BY DEF Reads, Types
<1>2. /\ ~(o > Len(file)) /\ ~HeaderTorn(o) /\ ~(o + RecordHeaderSize - 1 > Len(file))
      /\ ~(AsLength(file[o + 1]) < MinRecordLength)
  <2>1. AsLength(file[o + 1]) = r.size
    BY DEF Reads
  <2>. QED
    BY <1>1, <2>1 DEF HeaderTorn, RecordHeaderSize, MinRecordLength
<1>3. scan[o] = ScanRound(scan, o) /\ walk[o] = WalkRound(walk, o)
  BY <1>1, ScanLoop, WalkLoop
<1>4. walk[o] = <<r.lsn>> \o walk[o + r.size]
  BY <1>2, <1>3 DEF Reads, WalkRound, WalkEnds
<1>5. scan[o] = IF ~scan[o + r.size].ok THEN Refused
                ELSE Scanned(<<[lsn |-> r.lsn, payload |-> r.payload]>>
                             \o scan[o + r.size].records)
  BY SMTT(30), <1>2, <1>3 DEF Reads, ScanRound
<1>. QED
  BY <1>1, <1>4, <1>5

LEMMA ScanShape ==
    ASSUME Types, NEW o \in Nat
    PROVE  \/ scan[o] = Refused /\ ~scan[o].ok
           \/ scan[o] = Scanned(scan[o].records) /\ scan[o].ok
<1>1. scan[o] = ScanRound(scan, o)
  BY ScanLoop
<1>2. ScanRound(scan, o) = Refused \/ \E s : ScanRound(scan, o) = Scanned(s)
  BY DEF ScanRound
<1>. QED
  BY <1>1, <1>2 DEF Refused, Scanned

(* A checksum that is right was written as such: a record stands there,    *)
(* with nothing of it missing or changed.                                  *)
LEMMA Checked ==
    ASSUME Types, Layout, Contents, NEW o \in Nat, o >= 3, o + 3 <= Len(file),
           decodeRecordHeader(o), ~BodyTorn(o),
           ChecksumOK(o, o + AsLength(file[o + 1]) - 1)
    PROVE  \E j \in DOMAIN chunks : chunks[j].at = o - 1 /\ Readable(j)
<1> DEFINE L == AsLength(file[o + 1])
           E == o + L - 1
           u == SubSeq(file, o, E - 1)
<1>0. Len(file) \in Nat /\ file \in Seq(Word)
  BY DEF Types
<1>1. L \in Nat /\ L >= 5
  <2>1. o + 1 \in 1 .. Len(file)
    BY <1>0
  <2>2. L \in Nat
    BY <2>1, WordFields
  <2>. QED
    BY <2>2 DEF decodeRecordHeader, MinRecordLength, RecordHeaderSize
<1>2. E \in Nat /\ E >= 3 /\ E <= Len(file) /\ E \in SegmentHeaderSize + 1 .. Len(file)
  BY <1>0, <1>1 DEF BodyTorn, SegmentHeaderSize
<1>3. file[E] = Field("crc", u)
  BY DEF ChecksumOK, checksum
<1> HIDE DEF L
<1>4. PieceOf(u, file, o, L - 1) /\ u \in Seq(Word)
  <2>1. L - 1 \in Nat /\ E - 1 \in Int /\ o >= 1 /\ o + (L - 1) - 1 <= Len(file)
        /\ E - 1 = o + (L - 1) - 1
    BY <1>0, <1>1, <1>2
  <2>. QED
    BY <1>0, <2>1, Piece
<1>5. Len(u) = L - 1 /\ u # <<>>
  <2>1. Len(u) = L - 1
    BY <1>4 DEF PieceOf
  <2>2. L - 1 # 0
    BY <1>1
  <2> HIDE DEF u, E
  <2>. QED
    BY <1>4, <2>1, <2>2
<1> HIDE DEF u
<1>6. PICK j \in DOMAIN chunks : chunks[j].at < E /\ E <= chunks[j].at + chunks[j].n
  BY <1>2 DEF Layout
<1> DEFINE k == chunks[j]
           e == Enc(k)
           q == E - k.at
<1>7. ChunkFacts(k)
  BY ChunkWords
<1>8. /\ k.at \in Nat /\ k.at >= 2 /\ k.n \in Nat /\ k.n <= k.rec.size
      /\ k.rec.size \in Nat /\ k.rec.size = Len(e) /\ k.rec.size >= 5
      /\ RecordOf(e, k.rec.lsn, k.rec.payload)
  BY <1>7 DEF ChunkFacts
<1>9. \A x \in 1 .. k.n : Holds(k.at + x, e[x])
  BY DEF Contents
<1>10. k.at < E /\ E <= k.at + k.n
  BY <1>6
<1> HIDE DEF k, E
<1>11. q \in 1 .. k.n /\ k.at + q = E /\ q \in 1 .. k.rec.size /\ q \in Nat
  <2>1. \A x, a, n, z \in Nat :
           a < x /\ x <= a + n /\ n <= z =>
             x - a \in 1 .. n /\ a + (x - a) = x /\ x - a \in 1 .. z /\ x - a \in Nat
    OBVIOUS
  <2>2. E \in Nat /\ k.at \in Nat /\ k.n \in Nat /\ k.rec.size \in Nat
    BY <1>2, <1>8
  <2>. QED
    BY <1>8, <1>10, <2>1, <2>2
<1> HIDE DEF q, e
<1>12. /\ e \in Seq(Word)
       /\ \A x \in 1 .. Len(e) - 1 : e[x] \in BodyWord
       /\ e[Len(e)] = checksum(SubSeq(e, 1, Len(e) - 1))
  BY <1>8 DEF RecordOf
<1>13. Holds(E, e[q]) /\ e[q] \in Word
  <2>1. q \in 1 .. Len(e)
    BY <1>8, <1>11
  <2>. QED
    BY <1>9, <1>11, <1>12, <2>1
<1>14. file[E] = e[q]
  <2>1. CASE E = damaged
    <3>1. file[E].field = e[q].field /\ file[E].val \in Damages(e[q])
      BY <1>13, <2>1 DEF Holds
    <3>2. file[E].val = <<>>
      <4>1. e[q].field = "crc"
        BY <1>3, <3>1 DEF Field
      <4>2. \A w \in Word : \A z \in Damages(w) : w.field = "crc" => z = <<>>
        BY DamagedWord
      <4>. QED
        BY <1>13, <3>1, <4>1, <4>2
    <3>. QED
      BY <1>3, <1>5, <3>2 DEF Field
  <2>2. CASE E # damaged
    BY <1>13, <2>2 DEF Holds
  <2>. QED
    BY <2>1, <2>2
<1>15. q = k.rec.size
  <2>1. e[q] \notin BodyWord
    BY <1>3, <1>14 DEF Field, BodyWord
  <2>2. ~(q \in 1 .. Len(e) - 1)
    BY <1>12, <2>1
  <2>. QED
    BY <1>8, <1>11, <2>2
<1>16. k.n = k.rec.size
  BY <1>8, <1>11, <1>15
<1> DEFINE v == SubSeq(e, 1, Len(e) - 1)
<1>17. u = v
  BY <1>3, <1>8, <1>12, <1>14, <1>15 DEF Field, checksum
<1>18. PieceOf(v, e, 1, k.rec.size - 1)
  <2>1. k.rec.size - 1 \in Nat /\ Len(e) - 1 \in Int /\ 1 + (k.rec.size - 1) - 1 <= Len(e)
        /\ Len(e) - 1 = 1 + (k.rec.size - 1) - 1
    BY <1>8
  <2>. QED
    BY <1>12, <2>1, Piece
<1> HIDE DEF v
<1>19. L = k.rec.size /\ k.at = o - 1
  <2>1. L - 1 = k.rec.size - 1
    BY <1>5, <1>17, <1>18 DEF PieceOf
  <2>2. L = k.rec.size
    BY <1>1, <1>8, <2>1
  <2>3. k.at + L = o + L - 1
    BY <1>11, <1>15, <2>2 DEF E
  <2>. QED
    BY <1>1, <1>8, <2>2, <2>3
<1>20. \A x \in 1 .. k.rec.size : file[k.at + x] = e[x]
  <2>1. ASSUME NEW x \in 1 .. k.rec.size
        PROVE  file[k.at + x] = e[x]
    <3>1. CASE x = k.rec.size
      BY <1>11, <1>14, <1>15, <3>1
    <3>2. CASE x # k.rec.size
      <4>1. x \in 1 .. k.rec.size - 1 /\ x \in 1 .. L - 1 /\ o + x - 1 = k.at + x
            /\ 1 + x - 1 = x
        BY <1>8, <1>19, <3>2
      <4>2. u[x] = file[o + x - 1] /\ v[x] = e[1 + x - 1]
        BY <1>4, <1>18, <4>1 DEF PieceOf
      <4>. QED
        BY <1>17, <4>1, <4>2
    <3>. QED
      BY <3>1, <3>2
  <2>. QED
    BY <2>1
<1>. QED
  BY <1>16, <1>19, <1>20 DEF k, e, Readable, Whole

(* A scan that does not refuse what it finds at o is at its end, or reads  *)
(* a record there.                                                         *)
Ends(o) == \/ o > Len(file) \/ HeaderTorn(o)
           \/ decodeRecordHeader(o) /\ BodyTorn(o)

LEMMA ScanFinds ==
    ASSUME Types, Layout, Contents, NEW o \in Nat, o >= 3, scan[o].ok
    PROVE  \/ Ends(o) /\ scan[o] = Scanned(<<>>)
           \/ \E j \in DOMAIN chunks : chunks[j].at = o - 1 /\ Readable(j)
<1>0. Len(file) \in Nat /\ ~Refused.ok
  BY DEF Types, Refused
<1>1. scan[o] = ScanRound(scan, o)
  BY ScanLoop
<1>2. CASE Ends(o)
  BY <1>1, <1>2 DEF ScanRound, Ends
<1>3. CASE ~Ends(o)
  <2>1. ~(o > Len(file)) /\ ~HeaderTorn(o)
    BY <1>3 DEF Ends
  <2>2. o + 3 <= Len(file)
    BY <1>0, <2>1 DEF HeaderTorn, RecordHeaderSize
  <2>3. decodeRecordHeader(o) /\ ~BodyTorn(o)
    BY <1>0, <1>1, <1>3, <2>1 DEF Ends, ScanRound
  <2>4. ChecksumOK(o, o + AsLength(file[o + 1]) - 1)
    <3>1. CASE ~ChecksumOK(o, (o + AsLength(file[o + 1])) - 1)
      <4>1. scan[o] = Refused
        BY <1>1, <2>1, <2>3, <3>1 DEF ScanRound
      <4>. QED
        BY <1>0, <4>1
    <3>2. AsLength(file[o + 1]) \in Nat
      BY <1>0, <2>2, WordFields
    <3>3. (o + AsLength(file[o + 1])) - 1 = o + AsLength(file[o + 1]) - 1
      BY <3>2
    <3>. QED
      BY <3>1, <3>3
  <2>. QED
    BY <2>2, <2>3, <2>4, Checked
<1>. QED
  BY <1>2, <1>3

-----------------------------------------------------------------------------
(* The chunks, one behind the other                                        *)

End(k) == IF k = 0 THEN SegmentHeaderSize ELSE chunks[k].at + chunks[k].n

LEMMA EndsInFile ==
    ASSUME Types, Layout, NEW k \in 0 .. Len(chunks)
    PROVE  /\ End(k) \in Nat /\ End(k) >= 2 /\ (k # 0 => End(k) <= Len(file))
           /\ \A i \in DOMAIN chunks : i <= k => chunks[i].at + chunks[i].n <= End(k)
           /\ \A i \in DOMAIN chunks : i > k => End(k) <= chunks[i].at
<1>0. DOMAIN chunks = 1 .. Len(chunks) /\ Len(chunks) \in Nat
  BY DEF Types
<1>1. CASE k = 0
  <2>1. End(k) = 2
    BY <1>1 DEF End, SegmentHeaderSize
  <2>2. \A i \in DOMAIN chunks : ~(i <= k)
    BY <1>0, <1>1
  <2>3. \A i \in DOMAIN chunks : End(k) <= chunks[i].at
    BY <2>1 DEF Layout, SegmentHeaderSize
  <2>. QED
    BY <1>1, <2>1, <2>2, <2>3
<1>2. CASE k # 0
  <2>1. k \in DOMAIN chunks /\ End(k) = chunks[k].at + chunks[k].n
    BY <1>0, <1>2 DEF End
  <2>2. \A i \in DOMAIN chunks : /\ chunks[i].at \in Nat /\ chunks[i].at >= 2
                                 /\ chunks[i].n \in Nat /\ chunks[i].n >= 1
                                 /\ chunks[i].at + chunks[i].n <= Len(file)
    BY ChunkWords DEF ChunkFacts
  <2>3. End(k) \in Nat /\ End(k) >= 2 /\ End(k) <= Len(file)
    BY <2>1, <2>2
  <2>4. ASSUME NEW i \in DOMAIN chunks, i <= k
        PROVE  chunks[i].at + chunks[i].n <= End(k)
    <3>1. CASE i = k
      BY <2>1, <2>3, <3>1
    <3>2. CASE i < k
      <4>1. chunks[i].at + chunks[i].n <= chunks[k].at
        BY <2>1, <3>2 DEF Layout
      <4>. QED
        BY <2>1, <2>2, <4>1
    <3>. QED
      BY <1>0, <2>4, <3>1, <3>2
  <2>5. \A i \in DOMAIN chunks : i > k => End(k) <= chunks[i].at
    <3>1. \A i \in DOMAIN chunks : i > k => k < i
      BY <1>0
    <3>. QED
      BY <2>1, <3>1 DEF Layout
  <2>. QED
    BY <2>3, <2>4, <2>5
<1>. QED
  BY <1>1, <1>2

LEMMA NothingBetween ==
    ASSUME Types, Layout, NEW k \in 0 .. Len(chunks), Len(file) >= 2
    PROVE  /\ k < Len(chunks) => chunks[k + 1].at = End(k)
           /\ k = Len(chunks) => Len(file) = End(k)
<1>0. DOMAIN chunks = 1 .. Len(chunks) /\ Len(chunks) \in Nat /\ Len(file) \in Nat
  BY DEF Types
<1>1. /\ End(k) \in Nat /\ End(k) >= 2 /\ End(k) <= Len(file)
      /\ \A i \in DOMAIN chunks : i <= k => chunks[i].at + chunks[i].n <= End(k)
      /\ \A i \in DOMAIN chunks : i > k => End(k) <= chunks[i].at
  <2>1. k = 0 => End(k) = 2
    BY DEF End, SegmentHeaderSize
  <2>. QED
    BY <2>1, EndsInFile
<1>2. \A i \in DOMAIN chunks : /\ chunks[i].at \in Nat /\ chunks[i].n \in Nat
                               /\ chunks[i].n >= 1 /\ chunks[i].at + chunks[i].n <= Len(file)
  BY ChunkWords DEF ChunkFacts
(* The word behind End(k), if there is one, is in a chunk i > k. *)
<1>3. ASSUME End(k) + 1 <= Len(file)
      PROVE  \E i \in DOMAIN chunks : i > k /\ chunks[i].at = End(k)
  <2>1. End(k) + 1 \in SegmentHeaderSize + 1 .. Len(file)
    BY <1>0, <1>1, <1>3 DEF SegmentHeaderSize
  <2>2. PICK i \in DOMAIN chunks : /\ chunks[i].at < End(k) + 1
                                   /\ End(k) + 1 <= chunks[i].at + chunks[i].n
    BY <2>1 DEF Layout
  <2>3. ~(i <= k)
    BY <1>1, <1>2, <2>2
  <2>4. i > k
    BY <1>0, <2>3
  <2>5. chunks[i].at = End(k)
    BY <1>1, <1>2, <2>2, <2>4
  <2>. QED
    BY <2>4, <2>5
<1>4. CASE k < Len(chunks)
  <2>1. k + 1 \in DOMAIN chunks /\ k + 1 > k
    BY <1>0, <1>4
  <2>2. End(k) <= chunks[k + 1].at /\ End(k) + 1 <= Len(file)
    BY <1>0, <1>1, <1>2, <2>1
  <2>3. PICK i \in DOMAIN chunks : i > k /\ chunks[i].at = End(k)
    BY <1>3, <2>2
  <2>4. CASE i = k + 1
    BY <1>4, <2>3, <2>4
  <2>5. CASE i # k + 1
    <3>1. k + 1 < i
      BY <1>0, <2>3, <2>5
    <3>2. chunks[k + 1].at + chunks[k + 1].n <= chunks[i].at
      BY <2>1, <3>1 DEF Layout
    <3>. QED
      BY <1>1, <1>2, <2>1, <2>2, <2>3, <3>2
  <2>. QED
    BY <2>4, <2>5
<1>5. CASE k = Len(chunks)
  <2>1. \A i \in DOMAIN chunks : ~(i > k)
    BY <1>0, <1>5
  <2>2. ~(End(k) + 1 <= Len(file))
    BY <1>3, <2>1
  <2>. QED
    BY <1>0, <1>1, <1>5, <2>2
<1>. QED
  BY <1>0, <1>4, <1>5

(* No two chunks start at the same word.                                   *)
LEMMA OneStart ==
    ASSUME Types, Layout, NEW i \in DOMAIN chunks, NEW j \in DOMAIN chunks,
           chunks[i].at = chunks[j].at
    PROVE  i = j
<1>0. DOMAIN chunks = 1 .. Len(chunks) /\ Len(chunks) \in Nat
  BY DEF Types
<1>1. \A x \in DOMAIN chunks : /\ chunks[x].at \in Nat /\ chunks[x].n \in Nat
                               /\ chunks[x].n >= 1
  BY ChunkWords DEF ChunkFacts
<1>2. /\ i < j => chunks[i].at + chunks[i].n <= chunks[j].at
      /\ j < i => chunks[j].at + chunks[j].n <= chunks[i].at
  BY DEF Layout
<1>3. ~(i < j) /\ ~(j < i)
  BY <1>1, <1>2
<1>. QED
  BY <1>0, <1>3

(* The first m chunks are whole, and the next is not.                      *)
WholeTo(m) == \A j \in 1 .. m : Whole(chunks[j])
Edge(m)    == /\ m \in 0 .. Len(chunks) /\ WholeTo(m)
              /\ m < Len(chunks) => ~Whole(chunks[m + 1])

LEMMA EdgeExists ==
    ASSUME Types
    PROVE  \E m : Edge(m)
<1>0. Len(chunks) \in Nat
  BY DEF Types
<1> DEFINE T == {i \in 1 .. Len(chunks) : ~Whole(chunks[i])}
<1>1. CASE T = {}
  <2>1. Edge(Len(chunks))
    BY <1>0, <1>1 DEF Edge, WholeTo
  <2>. QED
    BY <2>1
<1>2. CASE T # {}
  <2>1. T \in SUBSET Nat
    BY <1>0
  <2>2. PICK t \in T : \A k \in T : t <= k
    <3> HIDE DEF T
    <3>. QED
      BY <1>2, <2>1, SmallestNumber
  <2>3. t \in 1 .. Len(chunks) /\ ~Whole(chunks[t])
    BY <2>2
  <2>4. t - 1 \in 0 .. Len(chunks) /\ (t - 1) + 1 = t
        /\ \A j \in 1 .. t - 1 : j \in 1 .. Len(chunks) /\ ~(t <= j)
    BY <1>0, <2>3
  <2>5. \A j \in 1 .. t - 1 : j \notin T
    BY <2>2, <2>4
  <2>6. Edge(t - 1)
    BY <2>3, <2>4, <2>5 DEF Edge, WholeTo
  <2>. QED
    BY <2>6
<1>. QED
  BY <1>1, <1>2

LEMMA EdgeLargest ==
    ASSUME Types, NEW m, Edge(m), NEW k \in 0 .. Len(chunks), WholeTo(k)
    PROVE  k <= m
<1>0. Len(chunks) \in Nat /\ m \in 0 .. Len(chunks)
  BY DEF Types, Edge
<1>1. CASE m < k
  <2>1. m + 1 \in 1 .. k /\ m < Len(chunks)
    BY <1>0, <1>1
  <2>. QED
    BY <2>1 DEF Edge, WholeTo
<1>. QED
  BY <1>0, <1>1

LEMMA WrittenIs ==
    ASSUME Types, NEW m, Edge(m)
    PROVE  Written = [i \in 1 .. m |-> Plain(chunks[i])]
<1> DEFINE S == {x \in 0 .. Len(chunks) : \A i \in 1 .. x : Whole(chunks[i])}
<1>0. m \in Nat
  BY DEF Edge, Types
<1>1. m \in S
  BY DEF Edge, WholeTo
<1>2. \A x \in S : m >= x
  <2>1. ASSUME NEW x \in S
        PROVE  m >= x
    <3>1. x \in 0 .. Len(chunks) /\ WholeTo(x)
      BY DEF WholeTo
    <3>2. x <= m
      BY <3>1, EdgeLargest
    <3>3. x \in Nat
      BY <3>1 DEF Types
    <3>. QED
      BY <1>0, <3>2, <3>3
  <2>. QED
    BY <2>1
<1>3. Max(S) = m
  <2>1. \A x \in S : x \in Nat
    BY DEF Types
  <2> HIDE DEF S
  <2>2. \A x \in S : (\A y \in S : x >= y) => x = m
    BY <1>0, <1>1, <1>2, <2>1
  <2>. QED
    BY <1>1, <1>2, <2>2 DEF Max
<1>. QED
  BY <1>3 DEF Written

-----------------------------------------------------------------------------
(* What a scan returns                                                     *)

Found == [lsn : Nat, payload : Payloads]

(* What is found behind the first k chunks are the next ones, up to m.     *)
FromTo(k, m, r) ==
    /\ r \in Seq(Found) /\ Len(r) <= m - k
    /\ \A x \in 1 .. Len(r) : r[x] = Plain(chunks[k + x])

LEMMA PlainIs ==
    ASSUME Types, Layout, NEW i \in DOMAIN chunks
    PROVE  /\ Plain(chunks[i]) \in Found
           /\ Plain(chunks[i]) = [lsn |-> chunks[i].rec.lsn, payload |-> chunks[i].rec.payload]
BY ChunkWords DEF ChunkFacts, Plain, Found

LEMMA JoinedFound ==
    ASSUME NEW s \in Seq(Found), NEW t \in Seq(Found)
    PROVE  /\ s \o t \in Seq(Found) /\ Len(s \o t) = Len(s) + Len(t)
           /\ \A i \in 1 .. Len(s) : (s \o t)[i] = s[i]
           /\ \A i \in 1 .. Len(t) : (s \o t)[i + Len(s)] = t[i]
BY JoinedIn

LEMMA FromToGrows ==
    ASSUME Types, Layout, NEW k \in Nat, NEW m \in 0 .. Len(chunks), k < m,
           NEW r, FromTo(k + 1, m, r)
    PROVE  FromTo(k, m, <<Plain(chunks[k + 1])>> \o r)
<1> DEFINE h == <<Plain(chunks[k + 1])>>
           s == h \o r
<1>0. Len(chunks) \in Nat /\ DOMAIN chunks = 1 .. Len(chunks) /\ k + 1 \in DOMAIN chunks
      /\ m \in Nat
  BY DEF Types
<1>1. r \in Seq(Found) /\ Len(r) \in Nat /\ Len(r) <= m - (k + 1)
      /\ \A x \in 1 .. Len(r) : r[x] = Plain(chunks[(k + 1) + x])
  BY DEF FromTo
<1>2. h \in Seq(Found) /\ Len(h) = 1 /\ h[1] = Plain(chunks[k + 1])
  BY <1>0, PlainIs
<1> HIDE DEF h
<1>3. /\ s \in Seq(Found) /\ Len(s) = Len(h) + Len(r)
      /\ \A x \in 1 .. Len(h) : s[x] = h[x]
      /\ \A x \in 1 .. Len(r) : s[x + Len(h)] = r[x]
  BY <1>1, <1>2, JoinedFound
<1> HIDE DEF s
<1>4. Len(s) = 1 + Len(r) /\ Len(s) <= m - k
  BY <1>0, <1>1, <1>2, <1>3
<1>5. ASSUME NEW x \in 1 .. Len(s)
      PROVE  s[x] = Plain(chunks[k + x])
  <2>1. CASE x = 1
    BY <1>2, <1>3, <2>1
  <2>2. CASE x # 1
    <3>1. x - 1 \in 1 .. Len(r) /\ (x - 1) + Len(h) = x /\ (k + 1) + (x - 1) = k + x
      BY <1>0, <1>1, <1>2, <1>4, <2>2
    <3>2. s[(x - 1) + Len(h)] = r[x - 1] /\ r[x - 1] = Plain(chunks[(k + 1) + (x - 1)])
      BY <1>1, <1>3, <3>1
    <3>. QED
      BY <3>1, <3>2
  <2>. QED
    BY <2>1, <2>2
<1>. QED
  BY <1>3, <1>4, <1>5 DEF FromTo, s, h

(* Behind the first k chunks, all whole, the scan is at chunk k + 1.       *)
LEMMA ScanAt ==
    ASSUME Types, Layout, Contents, Len(file) >= 2, NEW k \in 0 .. Len(chunks),
           scan[End(k) + 1].ok
    PROVE  \/ Ends(End(k) + 1) /\ scan[End(k) + 1] = Scanned(<<>>)
           \/ k < Len(chunks) /\ Readable(k + 1)
<1>0. Len(chunks) \in Nat /\ DOMAIN chunks = 1 .. Len(chunks) /\ Len(file) \in Nat
  BY DEF Types
<1>1. End(k) \in Nat /\ End(k) + 1 \in Nat /\ End(k) + 1 >= 3 /\ (End(k) + 1) - 1 = End(k)
  BY EndsInFile
<1>2. ASSUME NEW j \in DOMAIN chunks, chunks[j].at = (End(k) + 1) - 1, Readable(j)
      PROVE  k < Len(chunks) /\ Readable(k + 1)
  <2>1. chunks[j].at = End(k)
    BY <1>1, <1>2
  <2>2. CASE k < Len(chunks)
    <3>0. k + 1 \in DOMAIN chunks
      BY <1>0, <2>2
    <3>1. k + 1 \in DOMAIN chunks /\ chunks[k + 1].at = End(k)
      BY <2>2, <3>0, NothingBetween
    <3>2. j = k + 1
      BY <2>1, <3>1, OneStart
    <3>. QED
      BY <1>2, <2>2, <3>2
  <2>3. CASE k = Len(chunks)
    <3>1. Len(file) = End(k)
      BY <2>3, NothingBetween
    <3>2. chunks[j].n \in Nat /\ chunks[j].n >= 1 /\ chunks[j].at + chunks[j].n <= Len(file)
          /\ chunks[j].at \in Nat
      BY ChunkWords DEF ChunkFacts
    <3>. QED
      BY <1>0, <2>1, <3>1, <3>2
  <2>4. k < Len(chunks) \/ k = Len(chunks)
    <3>1. \A x \in Nat : \A y \in 0 .. x : y < x \/ y = x
      OBVIOUS
    <3>2. Len(chunks) \in Nat
      BY <1>0
    <3>. QED
      BY <3>1, <3>2
  <2>. QED
    BY <2>2, <2>3, <2>4
<1>3. \/ Ends(End(k) + 1) /\ scan[End(k) + 1] = Scanned(<<>>)
      \/ \E j \in DOMAIN chunks : chunks[j].at = (End(k) + 1) - 1 /\ Readable(j)
  BY <1>1, ScanFinds
<1>. QED
  BY <1>2, <1>3

(* One readable chunk further.                                             *)
LEMMA ScanOver ==
    ASSUME Types, Layout, Len(file) >= 2, NEW k \in 0 .. Len(chunks) - 1, Readable(k + 1)
    PROVE  /\ scan[End(k) + 1] = IF scan[End(k + 1) + 1].ok
                                 THEN Scanned(<<Plain(chunks[k + 1])>>
                                              \o scan[End(k + 1) + 1].records)
                                 ELSE Refused
           /\ walk[End(k) + 1] = <<chunks[k + 1].rec.lsn>> \o walk[End(k + 1) + 1]
<1> DEFINE c == chunks[k + 1]
<1>0. Len(chunks) \in Nat /\ DOMAIN chunks = 1 .. Len(chunks) /\ k + 1 \in DOMAIN chunks
      /\ k \in 0 .. Len(chunks) /\ k < Len(chunks)
  BY DEF Types
<1>1. c.at = End(k) /\ c.n = c.rec.size /\ c.at \in Nat /\ c.n \in Nat
  BY <1>0, NothingBetween, ChunkWords DEF Readable, Whole, ChunkFacts
<1>2. Reads(End(k) + 1, c.rec)
  BY <1>0, <1>1, ReadRecord
<1>3. (End(k) + 1) + c.rec.size = End(k + 1) + 1
  <2>1. End(k + 1) = c.at + c.n
    BY <1>0 DEF End
  <2>. QED
    BY <1>1, <2>1
<1>4. Plain(c) = [lsn |-> c.rec.lsn, payload |-> c.rec.payload]
  BY DEF Plain
<1> DEFINE o == End(k) + 1
           r == c.rec
<1> HIDE DEF o, r, c
<1>5. /\ scan[o] = IF scan[o + r.size].ok
                   THEN Scanned(<<[lsn |-> r.lsn, payload |-> r.payload]>>
                                \o scan[o + r.size].records)
                   ELSE Refused
      /\ walk[o] = <<r.lsn>> \o walk[o + r.size]
  BY <1>2, ScanRecord DEF o, r
<1>6. o + r.size = End(k + 1) + 1
  BY <1>3 DEF o, r
<1>. QED
  BY <1>4, <1>5, <1>6 DEF o, r, c

LEMMA ScanPrefix ==
    ASSUME Types, Layout, Contents, Len(file) >= 2, NEW m, Edge(m)
    PROVE  \A k \in 0 .. m : scan[End(k) + 1].ok => FromTo(k, m, scan[End(k) + 1].records)
<1> DEFINE T == {k \in 0 .. m : scan[End(k) + 1].ok => FromTo(k, m, scan[End(k) + 1].records)}
<1>0. /\ Len(chunks) \in Nat /\ m \in Nat /\ m <= Len(chunks) /\ m \in 0 .. Len(chunks)
      /\ DOMAIN chunks = 1 .. Len(chunks)
  BY DEF Types, Edge
<1>a. \A k \in 0 .. m : FromTo(k, m, <<>>)
  BY <1>0 DEF FromTo
<1>b. Scanned(<<>>).records = <<>>
  BY DEF Scanned
<1>1. m \in T
  <2>1. ASSUME scan[End(m) + 1].ok
        PROVE  scan[End(m) + 1].records = <<>>
    <3>1. ~(m < Len(chunks) /\ Readable(m + 1))
      BY DEF Edge, Readable
    <3>. QED
      BY <1>0, <1>b, <2>1, <3>1, ScanAt
  <2>. QED
    BY <1>0, <1>a, <2>1
<1>2. ASSUME NEW k \in 0 .. m - 1, k + 1 \in T
      PROVE  k \in T
  <2>0. k \in 0 .. Len(chunks) /\ k \in 0 .. m /\ k \in Nat /\ k < m
        /\ k \in 0 .. Len(chunks) - 1
    BY <1>0
  <2>1. ASSUME scan[End(k) + 1].ok
        PROVE  FromTo(k, m, scan[End(k) + 1].records)
    <3>1. CASE scan[End(k) + 1] = Scanned(<<>>)
      BY <1>a, <1>b, <2>0, <3>1
    <3>2. CASE Readable(k + 1)
      <4> DEFINE rest == scan[End(k + 1) + 1]
      <4>1. scan[End(k) + 1] = IF rest.ok THEN Scanned(<<Plain(chunks[k + 1])>> \o rest.records)
                                          ELSE Refused
        BY <2>0, <3>2, ScanOver
      <4>2. rest.ok /\ scan[End(k) + 1] = Scanned(<<Plain(chunks[k + 1])>> \o rest.records)
        BY <2>1, <4>1 DEF Refused
      <4>3. FromTo(k + 1, m, rest.records)
        BY <1>2, <4>2
      <4>4. scan[End(k) + 1].records = <<Plain(chunks[k + 1])>> \o rest.records
        BY <4>2 DEF Scanned
      <4> HIDE DEF rest
      <4>. QED
        BY <1>0, <2>0, <4>3, <4>4, FromToGrows
    <3>. QED
      BY <2>0, <2>1, <3>1, <3>2, ScanAt
  <2>. QED
    BY <2>0, <2>1
<1>3. T = 0 .. m
  <2>1. T \in SUBSET (0 .. m)
    OBVIOUS
  <2> HIDE DEF T
  <2>. QED
    BY <1>0, <1>1, <1>2, <2>1, Downward
<1>. QED
  BY <1>3

LEMMA ScanOfFile ==
    ASSUME Types, Layout, Contents, scanSegmentFile.ok, NEW m, Edge(m)
    PROVE  /\ Len(file) >= 2 /\ scanSegmentFile = scan[End(0) + 1]
           /\ FromTo(0, m, scanSegmentFile.records)
<1>1. SegmentHeaderOK /\ scanSegmentFile = scan[SegmentHeaderSize + 1]
  BY DEF scanSegmentFile, Refused
<1>2. Len(file) >= 2 /\ End(0) = SegmentHeaderSize
  BY <1>1 DEF SegmentHeaderOK, SegmentHeaderSize, End
<1>3. 0 \in 0 .. m
  BY DEF Edge, Types
<1>. QED
  BY <1>1, <1>2, <1>3, ScanPrefix

LEMMA WrittenSeq ==
    ASSUME Types, Layout, NEW m, Edge(m)
    PROVE  /\ Written \in Seq(Found) /\ Len(Written) = m /\ m \in Nat
           /\ \A x \in 1 .. m : Written[x] = Plain(chunks[x])
<1>0. m \in Nat /\ m <= Len(chunks)
  BY DEF Edge, Types
<1>1. Written = [i \in 1 .. m |-> Plain(chunks[i])]
  BY WrittenIs
<1>2. \A i \in 1 .. m : Plain(chunks[i]) \in Found
  <2>1. \A i \in 1 .. m : i \in DOMAIN chunks
    BY <1>0 DEF Types
  <2>. QED
    BY <2>1, PlainIs
<1>. QED
  BY <1>0, <1>1, <1>2

LEMMA ForgesNothing ==
    ASSUME Types, Layout, Contents
    PROVE  NoForgery
<1> SUFFICES ASSUME scanSegmentFile.ok
             PROVE  IsPrefix(scanSegmentFile.records, Written)
  BY DEF NoForgery
<1>1. PICK m : Edge(m)
  BY EdgeExists
<1> DEFINE r == scanSegmentFile.records
           w == Written
<1>2. FromTo(0, m, r)
  BY <1>1, ScanOfFile
<1>3. w \in Seq(Found) /\ Len(w) = m /\ m \in Nat /\ \A x \in 1 .. m : w[x] = Plain(chunks[x])
  BY <1>1, WrittenSeq
<1> HIDE DEF r, w
<1>4. r \in Seq(Found) /\ Len(r) \in Nat /\ Len(r) <= m
      /\ \A x \in 1 .. Len(r) : r[x] = Plain(chunks[x])
  <2>1. r \in Seq(Found) /\ Len(r) <= m - 0 /\ \A x \in 1 .. Len(r) : r[x] = Plain(chunks[0 + x])
    BY <1>2 DEF FromTo
  <2>2. \A x \in 1 .. Len(r) : 0 + x = x
    OBVIOUS
  <2>. QED
    BY <1>3, <2>1, <2>2
<1> DEFINE u == SubSeq(r, 1, Len(r))
           v == SubSeq(w, 1, Len(r))
<1>5. Len(r) \in Int /\ 1 + Len(r) - 1 <= Len(r) /\ Len(r) = 1 + Len(r) - 1
      /\ 1 + Len(r) - 1 <= Len(w)
  BY <1>3, <1>4
<1>6. u \in Seq(Found) /\ PieceOf(u, r, 1, Len(r)) /\ v \in Seq(Found) /\ PieceOf(v, w, 1, Len(r))
  BY <1>3, <1>4, <1>5, Piece
<1> HIDE DEF u, v
<1>7. Len(u) = Len(v) /\ Len(u) = Len(r)
  BY <1>6 DEF PieceOf
<1>8. \A x \in 1 .. Len(r) : u[x] = v[x]
  <2>1. ASSUME NEW x \in 1 .. Len(r)
        PROVE  u[x] = v[x]
    <3>1. 1 + x - 1 = x /\ x \in 1 .. m
      BY <1>3, <1>4
    <3>2. u[x] = r[1 + x - 1] /\ v[x] = w[1 + x - 1]
      BY <1>6 DEF PieceOf
    <3>. QED
      BY <1>3, <1>4, <3>1, <3>2
  <2>. QED
    BY <2>1
<1>9. u = v
  BY <1>6, <1>7, <1>8, SeqEqual
<1>10. Len(r) <= Len(w)
  BY <1>3, <1>4
<1>. QED
  BY <1>9, <1>10 DEF IsPrefix, u, v, r, w

(* A whole chunk without the damaged word in it can be read.               *)
LEMMA Intact ==
    ASSUME Types, Layout, Contents, NEW i \in DOMAIN chunks, Whole(chunks[i]),
           damaged <= chunks[i].at \/ damaged > chunks[i].at + chunks[i].n
    PROVE  Readable(i)
<1> DEFINE k == chunks[i]
<1>1. k.n = k.rec.size /\ k.n \in Nat /\ k.at \in Nat
  BY ChunkWords DEF Whole, ChunkFacts
<1>2. ASSUME NEW q \in 1 .. k.n
      PROVE  file[k.at + q] = Enc(k)[q]
  <2>1. Holds(k.at + q, Enc(k)[q])
    BY DEF Contents
  <2>2. damaged \in Nat
    BY DEF Types
  <2>3. k.at + q # damaged
    <3> HIDE DEF k
    <3>1. damaged <= k.at \/ damaged > k.at + k.n
      BY DEF k
    <3>. QED
      BY <1>1, <2>2, <3>1
  <2>. QED
    BY <2>1, <2>3 DEF Holds
<1>. QED
  BY <1>1, <1>2 DEF Readable, Whole

LEMMA AllIntact ==
    ASSUME Types, Layout, Contents, damaged = 0, NEW i \in DOMAIN chunks, Whole(chunks[i])
    PROVE  Readable(i)
<1>1. damaged <= chunks[i].at
  BY ChunkWords DEF ChunkFacts
<1>. QED
  BY <1>1, Intact

(* An undamaged file that is torn at its end at most is read to that end.  *)
LEMMA TornEnd ==
    ASSUME Types, Layout, Contents, damaged = 0, Len(file) >= 2, NEW m, Edge(m),
           m = Len(chunks) \/ m = Len(chunks) - 1
    PROVE  scan[End(m) + 1] = Scanned(<<>>)
<1> DEFINE o == End(m) + 1
<1>0. /\ Len(chunks) \in Nat /\ m \in 0 .. Len(chunks) /\ DOMAIN chunks = 1 .. Len(chunks)
  BY DEF Types, Edge
<1>a. End(m) \in Nat /\ Len(file) \in Nat
  <2>1. m \in 0 .. Len(chunks)
    BY DEF Edge
  <2>2. End(m) \in Nat
    BY <2>1, EndsInFile
  <2>. QED
    BY <2>2 DEF Types
<1>1. o \in Nat /\ o = End(m) + 1
  BY <1>a
<1> HIDE DEF o
<1>2. Ends(o)
  <2>1. CASE m = Len(chunks)
    <3>1. Len(file) = End(m)
      BY <1>0, <2>1, NothingBetween
    <3>2. o > Len(file)
      BY <1>a, <1>1, <3>1
    <3>. QED
      BY <3>2 DEF Ends
  <2>2. CASE m = Len(chunks) - 1
    <3> DEFINE k == chunks[m + 1]
    <3>0. m < Len(chunks) /\ m + 1 \in DOMAIN chunks /\ m + 1 = Len(chunks)
          /\ m + 1 \in 0 .. Len(chunks) /\ m + 1 # 0
      BY <1>0, <2>2
    <3>1. k.at = End(m) /\ Len(file) = k.at + k.n
      <4>1. Len(file) = End(m + 1)
        BY <3>0, NothingBetween
      <4>. QED
        BY <1>0, <3>0, <4>1, NothingBetween DEF End
    <3>2. ~Whole(k)
      BY <3>0 DEF Edge
    <3>3. ChunkFacts(k) /\ \A q \in 1 .. k.n : Holds(k.at + q, Enc(k)[q])
      BY <3>0, ChunkWords DEF Contents
    <3> HIDE DEF k
    <3>4. /\ k.at \in Nat /\ k.n \in Nat /\ k.n >= 1 /\ k.n < k.rec.size
          /\ k.rec.size \in Nat /\ k.rec.size = Len(Enc(k)) /\ k.rec.size >= 5
          /\ k.rec.size <= MaxSegment /\ k.rec.payload \in Payloads
          /\ RecordOf(Enc(k), k.rec.lsn, k.rec.payload)
      BY <3>2, <3>3 DEF ChunkFacts, Whole
    <3>5. CASE k.n < 4
      <4>1. o + 3 > Len(file)
        <5>1. \A x, y, z, l \in Nat : x = y + 1 /\ l = y + z /\ z < 4 => x + 3 > l
          OBVIOUS
        <5>. QED
          BY <1>a, <1>1, <3>1, <3>4, <3>5, <5>1
      <4>. QED
        BY <4>1 DEF Ends, HeaderTorn, RecordHeaderSize
    <3>6. CASE ~(k.n < 4)
      <4>1. \A q \in 1 .. k.n : file[k.at + q] = Enc(k)[q]
        <5>1. ASSUME NEW q \in 1 .. k.n
              PROVE  file[k.at + q] = Enc(k)[q]
          <6>1. k.at + q # damaged
            BY <3>4
          <6>. QED
            BY <3>3, <6>1 DEF Holds
        <5>. QED
          BY <5>1
      <4>2. /\ file[o] = Enc(k)[1] /\ file[o + 1] = Enc(k)[2] /\ file[o + 3] = Enc(k)[4]
        <5>1. 1 \in 1 .. k.n /\ 2 \in 1 .. k.n /\ 4 \in 1 .. k.n
          BY <3>4, <3>6
        <5>2. o = k.at + 1 /\ o + 1 = k.at + 2 /\ o + 3 = k.at + 4
          BY <1>1, <3>1, <3>4
        <5>. QED
          BY <4>1, <5>1, <5>2
      <4>3. /\ Enc(k)[1] = Field("magic", 1) /\ Enc(k)[2] = Field("length", k.rec.size)
            /\ Enc(k)[4] = Field("op", k.rec.payload.op)
        BY <3>4 DEF RecordOf
      <4>4. k.rec.payload.op \in 1 .. 2
        BY <3>4, PayloadWords
      <4>5. /\ AsMagic(file[o]) /\ AsLength(file[o + 1]) = k.rec.size
            /\ AsOp(file[o + 3]) = k.rec.payload.op
        BY <4>2, <4>3 DEF AsMagic, AsLength, AsOp, Field
      <4>6. decodeRecordHeader(o)
        BY <3>4, <4>4, <4>5 DEF decodeRecordHeader, MinRecordLength, RecordHeaderSize
      <4>7. BodyTorn(o)
        <5>1. o + k.rec.size - 1 > Len(file)
          <6>1. \A x, y, z, l, n \in Nat :
                   x = y + 1 /\ l = y + n /\ n < z => x + z - 1 > l
            OBVIOUS
          <6>. QED
            BY <1>a, <1>1, <3>1, <3>4, <6>1
        <5>. QED
          BY <4>5, <5>1 DEF BodyTorn
      <4>. QED
        BY <4>6, <4>7 DEF Ends
    <3>. QED
      BY <3>5, <3>6
  <2>. QED
    BY <2>1, <2>2
<1>3. scan[o] = ScanRound(scan, o)
  BY <1>1, ScanLoop
<1>. QED
  BY <1>2, <1>3 DEF ScanRound, Ends, o

(* A scan that stops behind the whole records has returned all of them.    *)
LEMMA ScanComplete ==
    ASSUME Types, Layout, Contents, damaged = 0, Len(file) >= 2, NEW m, Edge(m),
           scan[End(m) + 1] = Scanned(<<>>)
    PROVE  \A k \in 0 .. m : scan[End(k) + 1].ok /\ Len(scan[End(k) + 1].records) = m - k
<1> DEFINE Done(k) == scan[End(k) + 1].ok /\ Len(scan[End(k) + 1].records) = m - k
           T == {k \in 0 .. m : Done(k)}
<1>0. Len(chunks) \in Nat /\ m \in Nat /\ m <= Len(chunks) /\ m \in 0 .. Len(chunks)
  BY DEF Types, Edge
<1>1. m \in T
  <2>2. Done(m)
    BY <1>0 DEF Scanned
  <2>. QED
    BY <1>0, <2>2
<1>2. ASSUME NEW k \in 0 .. m - 1, k + 1 \in T
      PROVE  k \in T
  <2>0. k \in 0 .. m /\ k + 1 \in 0 .. m /\ k \in Nat /\ k \in 0 .. Len(chunks) - 1
        /\ k + 1 \in 1 .. Len(chunks) /\ k + 1 \in 1 .. m
    BY <1>0
  <2>1. Readable(k + 1)
    <3>1. k + 1 \in DOMAIN chunks
      BY <2>0 DEF Types
    <3>2. Whole(chunks[k + 1])
      BY <2>0 DEF Edge, WholeTo
    <3>. QED
      BY <3>1, <3>2, AllIntact
  <2> DEFINE rest == scan[End(k + 1) + 1]
             h == <<Plain(chunks[k + 1])>>
  <2>2. rest.ok /\ Len(rest.records) = m - (k + 1)
    BY <1>2
  <2>3. FromTo(k + 1, m, rest.records)
    BY <2>0, <2>2, ScanPrefix
  <2>4. scan[End(k) + 1] = Scanned(h \o rest.records)
    <3>1. scan[End(k) + 1] = IF rest.ok THEN Scanned(h \o rest.records) ELSE Refused
      BY <2>0, <2>1, ScanOver
    <3>. QED
      BY <2>2, <3>1
  <2>5. h \in Seq(Found) /\ Len(h) = 1
    <3>1. k + 1 \in DOMAIN chunks
      BY <2>0 DEF Types
    <3>. QED
      BY <3>1, PlainIs
  <2> HIDE DEF h, rest
  <2>6. Len(h \o rest.records) = m - k
    <3>1. Len(h \o rest.records) = Len(h) + Len(rest.records)
      BY <2>3, <2>5, JoinedFound DEF FromTo
    <3>. QED
      BY <1>0, <2>0, <2>2, <2>5, <3>1
  <2>7. Done(k)
    BY <2>4, <2>6 DEF Scanned
  <2>. QED
    BY <2>0, <2>7
<1>3. T = 0 .. m
  <2>1. T \in SUBSET (0 .. m)
    OBVIOUS
  <2> HIDE DEF T
  <2>. QED
    BY <1>0, <1>1, <1>2, <2>1, Downward
<1>. QED
  BY <1>3

LEMMA DiscardsTornTail ==
    ASSUME Types, Layout, Contents
    PROVE  TornTailDiscarded
<1> SUFFICES ASSUME TornTailOnly
             PROVE  scanSegmentFile = Scanned(Written)
  BY DEF TornTailDiscarded
<1>1. damaged = 0 /\ Len(file) >= 2
      /\ \A i \in DOMAIN chunks : Whole(chunks[i]) \/ i = Len(chunks)
  BY DEF TornTailOnly, SegmentHeaderSize
<1>2. PICK m : Edge(m)
  BY EdgeExists
<1>0. Len(chunks) \in Nat /\ m \in 0 .. Len(chunks) /\ m \in Nat
      /\ DOMAIN chunks = 1 .. Len(chunks)
  BY <1>2 DEF Types, Edge
<1>3. m = Len(chunks) \/ m = Len(chunks) - 1
  <2>1. CASE m < Len(chunks)
    <3>1. m + 1 \in DOMAIN chunks /\ ~Whole(chunks[m + 1])
      BY <1>0, <1>2, <2>1 DEF Edge
    <3>2. m + 1 = Len(chunks)
      BY <1>1, <3>1
    <3>3. \A x, y \in Nat : x + 1 = y => x = y - 1
      OBVIOUS
    <3>. QED
      BY <1>0, <3>2, <3>3
  <2>2. \A x \in Nat : \A y \in 0 .. x : y < x \/ y = x
    OBVIOUS
  <2>. QED
    BY <1>0, <2>1, <2>2
<1>4. AsMagic(file[1])
  <2>1. Holds(1, encodeSegmentHeader[1])
    BY <1>1 DEF Contents, SegmentHeaderSize
  <2>2. file[1] = encodeSegmentHeader[1]
    BY <1>1, <2>1 DEF Holds
  <2>. QED
    BY <2>2 DEF encodeSegmentHeader, AsMagic, Field
<1>5. scanSegmentFile = scan[End(0) + 1]
  BY <1>1, <1>4 DEF scanSegmentFile, SegmentHeaderOK, SegmentHeaderSize, End
<1> DEFINE r == scanSegmentFile.records
           w == Written
<1>6. scanSegmentFile.ok /\ Len(r) = m
  <2>1. 0 \in 0 .. m /\ m - 0 = m
    BY <1>0
  <2>. QED
    BY <1>1, <1>2, <1>3, <1>5, <2>1, TornEnd, ScanComplete
<1>7. r = w
  <2>1. FromTo(0, m, r)
    BY <1>2, <1>6, ScanOfFile
  <2>2. w \in Seq(Found) /\ Len(w) = m /\ \A x \in 1 .. m : w[x] = Plain(chunks[x])
    BY <1>2, WrittenSeq
  <2> HIDE DEF r, w
  <2>3. r \in Seq(Found) /\ \A x \in 1 .. m : r[x] = Plain(chunks[0 + x])
    BY <1>6, <2>1 DEF FromTo, r
  <2>4. Len(r) = m
    BY <1>6 DEF r
  <2>5. \A x \in 1 .. m : r[x] = w[x]
    <3>1. \A x \in 1 .. m : 0 + x = x
      OBVIOUS
    <3>. QED
      BY <2>2, <2>3, <3>1
  <2>. QED
    BY <2>2, <2>3, <2>4, <2>5, SeqEqual
<1>8. scanSegmentFile = Scanned(r)
  <2>1. End(0) + 1 \in Nat
    BY DEF End, SegmentHeaderSize
  <2>. QED
    BY <1>5, <1>6, <2>1, ScanShape
<1>. QED
  BY <1>7, <1>8

(* What a process that opened an undamaged log goes on behind.             *)
LEMMA GoesOnBehind ==
    ASSUME SegmentInv
    PROVE  LsnFresh
<1> USE DEF SegmentInv
<1> SUFFICES ASSUME open, damaged = 0
             PROVE  LET found == scanSegmentFile.records
                    IN  /\ \A i \in DOMAIN found : found[i].lsn <= lsn
                        /\ \A i, j \in DOMAIN found : i < j => found[i].lsn < found[j].lsn
  BY DEF LsnFresh
<1>1. PICK m : Edge(m)
  BY EdgeExists
<1> DEFINE r == scanSegmentFile.records
<1>2. CASE scanSegmentFile.ok
  <2>1. FromTo(0, m, r)
    BY <1>1, <1>2, ScanOfFile
  <2>0. m \in 0 .. Len(chunks) /\ m \in Nat /\ Len(chunks) \in Nat /\ lsn \in Nat
    BY <1>1 DEF Edge, Types
  <2> HIDE DEF r
  <2>2. m <= lsn
    BY <1>1 DEF Edge, WholeTo, Numbered
  <2>3. DOMAIN r = 1 .. Len(r) /\ Len(r) \in Nat /\ Len(r) <= m
    BY <2>0, <2>1 DEF FromTo
  <2>4. ASSUME NEW x \in DOMAIN r
        PROVE  r[x].lsn = x /\ x \in Nat /\ x <= m
    <3>1. x \in 1 .. Len(r) /\ x \in Nat /\ x <= m /\ 0 + x = x
      BY <2>0, <2>3
    <3>2. r[x] = Plain(chunks[x])
      BY <2>1, <3>1 DEF FromTo
    <3>3. x \in DOMAIN chunks
      BY <2>0, <3>1 DEF Types
    <3>4. \A j \in 1 .. x - 1 : Whole(chunks[j])
      <4>1. \A j \in 1 .. x - 1 : j \in 1 .. m
        BY <2>0, <3>1
      <4>. QED
        BY <1>1, <4>1 DEF Edge, WholeTo
    <3>5. chunks[x].rec.lsn = x
      BY <3>3, <3>4 DEF Numbered
    <3>. QED
      BY <3>1, <3>2, <3>5 DEF Plain
  <2>5. \A i \in DOMAIN r : r[i].lsn <= lsn
    BY <2>0, <2>2, <2>4
  <2>6. \A i, j \in DOMAIN r : i < j => r[i].lsn < r[j].lsn
    BY <2>4
  <2>. QED
    BY <2>5, <2>6 DEF r
<1>3. CASE ~scanSegmentFile.ok
  <2>1. End(0) + 1 \in Nat /\ End(0) = SegmentHeaderSize
    BY DEF End, SegmentHeaderSize
  <2>2. scanSegmentFile = Refused
    BY <1>3, <2>1, ScanShape DEF scanSegmentFile
  <2>3. r = <<>>
    BY <2>2 DEF Refused
  <2>4. DOMAIN r = {}
    BY <2>3
  <2>. QED
    BY <2>4
<1>. QED
  BY <1>2, <1>3

-----------------------------------------------------------------------------
(* What a scan refuses                                                     *)

LEMMA WrittenFields ==
    ASSUME NEW k, ChunkFacts(k), NEW q \in 1 .. k.rec.size
    PROVE  /\ Enc(k)[q] \in Word
           /\ Enc(k)[q].field = "magic" => Enc(k)[q].val = 1
           /\ Enc(k)[q].field = "crc" => Enc(k)[q].val # <<>>
<1> DEFINE e == Enc(k)
           p == k.rec.payload
           w == encodePayload(p)
           z == k.rec.size
<1>1. /\ RecordOf(e, k.rec.lsn, p) /\ z \in Nat /\ z = Len(e) /\ z >= 5 /\ p \in Payloads
      /\ q \in 1 .. z
  BY DEF ChunkFacts
<1>2. /\ e \in Seq(Word) /\ z = Len(w) + 5
      /\ e[1] = Field("magic", 1) /\ e[2] = Field("length", z)
      /\ e[3] = Field("lsn", k.rec.lsn) /\ e[4] = Field("op", p.op)
      /\ \A i \in 1 .. Len(w) : e[i + 4] = w[i]
      /\ \A i \in 1 .. z - 1 : e[i] \in BodyWord
      /\ e[z] = checksum(SubSeq(e, 1, z - 1))
  BY <1>1 DEF RecordOf
<1>3. Len(w) \in Nat /\ \A i \in 1 .. Len(w) : w[i].field = "data"
  BY <1>1, PayloadWords
<1> HIDE DEF e, p, w, z
<1>4. e[q] \in Word
  <2>1. q \in 1 .. Len(e)
    BY <1>1
  <2>. QED
    BY <1>2, <2>1
<1>5. e[q].field = "magic" => e[q].val = 1
  <2>1. CASE q = 1
    BY <1>2, <2>1 DEF Field
  <2>2. CASE q \in 2 .. 4
    <3>1. q = 2 \/ q = 3 \/ q = 4
      BY <2>2
    <3>. QED
      BY <1>2, <3>1 DEF Field
  <2>3. CASE q \in 5 .. z - 1
    <3> DEFINE i == q - 4
    <3>1. i \in 1 .. Len(w) /\ i + 4 = q
      BY <1>1, <1>2, <1>3, <2>3
    <3> HIDE DEF i
    <3>2. e[i + 4] = w[i] /\ w[i].field = "data"
      BY <1>2, <1>3, <3>1
    <3>. QED
      BY <3>1, <3>2
  <2>4. CASE q = z
    BY <1>2, <2>4 DEF Field, checksum
  <2>. QED
    BY <1>1, <2>1, <2>2, <2>3, <2>4
<1>6. e[q].field = "crc" => e[q].val # <<>>
  <2>1. CASE q = z
    <3> DEFINE v == SubSeq(e, 1, z - 1)
    <3>1. z - 1 \in Nat /\ z - 1 = 1 + (z - 1) - 1 /\ 1 + (z - 1) - 1 <= Len(e) /\ z - 1 \in Int
          /\ z - 1 # 0
      BY <1>1
    <3>2. v \in Seq(Word) /\ PieceOf(v, e, 1, z - 1)
      <4>1. \A n \in Nat, b \in Int :
               1 + n - 1 <= Len(e) /\ b = 1 + n - 1 =>
                  SubSeq(e, 1, b) \in Seq(Word) /\ PieceOf(SubSeq(e, 1, b), e, 1, n)
        BY <1>2, Piece
      <4>. QED
        BY <3>1, <4>1
    <3> HIDE DEF v
    <3>3. Len(v) # 0
      BY <3>1, <3>2 DEF PieceOf
    <3>4. v # <<>>
      BY <3>3
    <3>. QED
      BY <1>2, <2>1, <3>4 DEF checksum, Field, v
  <2>2. CASE q # z
    <3>1. q \in 1 .. z - 1
      BY <1>1, <2>2
    <3>2. e[q] \in BodyWord
      BY <1>2, <3>1
    <3>. QED
      BY <3>2 DEF BodyWord
  <2>. QED
    BY <2>1, <2>2
<1>. QED
  BY <1>4, <1>5, <1>6 DEF e

(* The chunk with the damaged word cannot be read.                         *)
LEMMA Damaged ==
    ASSUME Types, Layout, Contents, NEW i \in DOMAIN chunks,
           chunks[i].at < damaged, damaged <= chunks[i].at + chunks[i].n
    PROVE  ~Readable(i) /\ \E q \in 1 .. chunks[i].n : damaged = chunks[i].at + q
<1> DEFINE k == chunks[i]
           q == damaged - k.at
<1>1. ChunkFacts(k) /\ \A x \in 1 .. k.n : Holds(k.at + x, Enc(k)[x])
  BY ChunkWords DEF Contents
<1>2. k.at \in Nat /\ k.n \in Nat /\ k.rec.size \in Nat /\ k.n <= k.rec.size /\ damaged \in Nat
  BY <1>1 DEF ChunkFacts, Types
<1>3. k.at < damaged /\ damaged <= k.at + k.n
  OBVIOUS
<1> HIDE DEF k
<1>4. q \in 1 .. k.n /\ k.at + q = damaged /\ q \in 1 .. k.rec.size
  <2>1. \A x, a, n, z \in Nat :
           a < x /\ x <= a + n /\ n <= z =>
             x - a \in 1 .. n /\ a + (x - a) = x /\ x - a \in 1 .. z
    OBVIOUS
  <2>. QED
    BY <1>2, <1>3, <2>1
<1> HIDE DEF q
<1> DEFINE w == Enc(k)[q]
           v == file[damaged].val
<1>5. v \in Damages(w)
  BY <1>1, <1>4 DEF Holds
<1>6. /\ w \in Word /\ (w.field = "magic" => w.val = 1) /\ (w.field = "crc" => w.val # <<>>)
  BY <1>1, <1>4, WrittenFields
<1>7. file[damaged] # w
  <2> HIDE DEF w
  <2>0. \A x \in Word : \A z \in Damages(x) :
           /\ x.field = "crc" => z = <<>>
           /\ x.field = "magic" => z = 0
           /\ x.field \notin {"crc", "magic"} => z # x.val
    BY DamagedWord
  <2>1. v # w.val
    BY <1>5, <1>6, <2>0
  <2>. QED
    BY <2>1
<1>8. ~Readable(i)
  BY <1>4, <1>7 DEF Readable, k
<1>. QED
  BY <1>4, <1>8 DEF k

LEMMA RefusesDamage ==
    ASSUME Types, Layout, Contents
    PROVE  DamageRefused
<1> SUFFICES ASSUME damaged # 0, Reached(damaged), file[damaged].field # "length",
                    scanSegmentFile.ok
             PROVE  FALSE
  BY DEF DamageRefused
<1>1. PICK m0 : Edge(m0)
  BY EdgeExists
<1>2. Len(file) >= 2 /\ scan[End(0) + 1].ok /\ AsMagic(file[1])
  <2>1. SegmentHeaderOK
    BY DEF scanSegmentFile, Refused
  <2>. QED
    BY <1>1, <2>1, ScanOfFile DEF SegmentHeaderOK
<1>3. CASE damaged = 1
  <2>1. Holds(1, encodeSegmentHeader[1])
    BY <1>2 DEF Contents, SegmentHeaderSize
  <2>2. file[1].field = "magic" /\ file[1].val = 0
    BY <1>3, <2>1 DEF Holds, encodeSegmentHeader, Field, Damages
  <2>. QED
    BY <1>2, <2>2 DEF AsMagic
<1>4. CASE damaged # 1
  <2>1. PICK i \in DOMAIN chunks : /\ chunks[i].at < damaged
                                   /\ damaged <= chunks[i].at + chunks[i].n
                                   /\ \A j \in 1 .. i : Whole(chunks[j])
    BY <1>4 DEF Reached
  <2> DEFINE n == i - 1
             T == {k \in 0 .. n : ~scan[End(k) + 1].ok}
  <2>0. /\ DOMAIN chunks = 1 .. Len(chunks) /\ Len(chunks) \in Nat
        /\ i \in 1 .. Len(chunks)
    <3>1. \A S : chunks \in Seq(S) =>
             DOMAIN chunks = 1 .. Len(chunks) /\ Len(chunks) \in Nat
      OBVIOUS
    <3>. QED
      BY <3>1 DEF Types
  <2>2. n \in Nat /\ n + 1 = i /\ n < Len(chunks) /\ n \in 0 .. Len(chunks)
    BY <2>0
  <2>3. n \in T
    <3>1. ASSUME scan[End(n) + 1].ok
          PROVE  FALSE
      <4> DEFINE k == chunks[i]
                 o == End(n) + 1
      <4>1. ~Readable(i) /\ k.at = End(n)
        BY <1>2, <2>1, <2>2, Damaged, NothingBetween
      <4>2. Ends(o)
        BY <1>2, <2>2, <3>1, <4>1, ScanAt
      <4>3. Whole(k)
        <5>1. i \in 1 .. i
          BY <2>0
        <5>. QED
          BY <2>1, <5>1
      <4>4. ChunkFacts(k) /\ \A q \in 1 .. k.n : Holds(k.at + q, Enc(k)[q])
        BY ChunkWords DEF Contents
      <4> HIDE DEF k
      <4>5. /\ k.n = k.rec.size /\ k.at \in Nat /\ k.rec.size \in Nat /\ k.rec.size >= 5
            /\ k.at + k.rec.size <= Len(file) /\ Len(file) \in Nat
            /\ RecordOf(Enc(k), k.rec.lsn, k.rec.payload)
        <5>1. k.n = k.rec.size
          BY <4>3 DEF Whole
        <5>2. Len(file) \in Nat
          BY DEF Types
        <5>. QED
          BY <4>4, <5>1, <5>2 DEF ChunkFacts
      <4>6. o \in Nat /\ o = k.at + 1
        BY <4>1, <4>5
      <4> HIDE DEF o
      <4>7. file[o + 1] = Field("length", k.rec.size)
        <5>1. o + 1 = k.at + 2 /\ 2 \in 1 .. k.n
          BY <4>5, <4>6
        <5>2. Enc(k)[2] = Field("length", k.rec.size)
          BY <4>4, <4>5 DEF RecordOf, ChunkFacts
        <5>3. Holds(o + 1, Field("length", k.rec.size))
          BY <4>4, <5>1, <5>2
        <5>. QED
          BY <5>3 DEF Holds, Field
      <4>8. ~(o > Len(file)) /\ ~HeaderTorn(o) /\ ~BodyTorn(o)
        <5>1. AsLength(file[o + 1]) = k.rec.size
          BY <4>7 DEF AsLength, Field
        <5>2. \A a, b, z, l \in Nat : b = a + 1 /\ z >= 5 /\ a + z <= l =>
                 ~(b > l) /\ ~(b + 4 - 1 > l) /\ ~(b + z - 1 > l)
          OBVIOUS
        <5>3. ~(o > Len(file)) /\ ~(o + 4 - 1 > Len(file)) /\ ~(o + k.rec.size - 1 > Len(file))
          BY <4>5, <4>6, <5>2
        <5>. QED
          BY <5>1, <5>3 DEF HeaderTorn, BodyTorn, RecordHeaderSize
      <4>. QED
        BY <4>2, <4>8 DEF Ends
    <3>. QED
      BY <2>2, <3>1
  <2>4. ASSUME NEW k \in 0 .. n - 1, k + 1 \in T
        PROVE  k \in T
    <3>1. k + 1 \in 1 .. Len(chunks) /\ k \in 0 .. Len(chunks) - 1 /\ k \in 0 .. n
          /\ k + 1 \in 1 .. i /\ k + 1 < i
      BY <2>0
    <3>2. Readable(k + 1)
      <4>1. k + 1 \in DOMAIN chunks
        BY <2>0, <3>1
      <4>2. chunks[k + 1].at + chunks[k + 1].n <= chunks[i].at
        BY <3>1, <4>1 DEF Layout
      <4>3. chunks[k + 1].at \in Nat /\ chunks[k + 1].n \in Nat /\ chunks[i].at \in Nat
            /\ damaged \in Nat
        BY <4>1, ChunkWords DEF ChunkFacts, Types
      <4>4. damaged > chunks[k + 1].at + chunks[k + 1].n
        BY <2>1, <4>2, <4>3
      <4>5. Whole(chunks[k + 1])
        BY <2>1, <3>1
      <4>. QED
        BY <4>1, <4>4, <4>5, Intact
    <3>3. scan[End(k) + 1] = Refused
      <4>1. ~scan[End(k + 1) + 1].ok
        BY <2>4
      <4>. QED
        BY <1>2, <3>1, <3>2, <4>1, ScanOver
    <3>. QED
      BY <3>1, <3>3 DEF Refused
  <2>5. T = 0 .. n
    <3>1. T \in SUBSET (0 .. n)
      OBVIOUS
    <3> HIDE DEF T, n
    <3>. QED
      BY <2>2, <2>3, <2>4, <3>1, Downward
  <2>6. 0 \in T
    BY <2>2, <2>5
  <2>. QED
    BY <1>2, <2>6
<1>. QED
  BY <1>3, <1>4

-----------------------------------------------------------------------------
(* The LSN that a log is opened with                                       *)

LEMMA ScanReaches ==
    ASSUME Types, Layout, Contents, Len(file) >= 2, NEW m \in 0 .. Len(chunks),
           \A j \in 1 .. m : Readable(j), scan[End(0) + 1].ok
    PROVE  scan[End(m) + 1].ok
<1> SUFFICES ASSUME ~scan[End(m) + 1].ok PROVE FALSE
  OBVIOUS
<1> DEFINE T == {k \in 0 .. m : ~scan[End(k) + 1].ok}
<1>0. Len(chunks) \in Nat /\ m \in Nat /\ m <= Len(chunks)
  BY DEF Types
<1>1. m \in T
  BY <1>0
<1>2. ASSUME NEW k \in 0 .. m - 1, k + 1 \in T
      PROVE  k \in T
  <2>1. k \in 0 .. m /\ k \in 0 .. Len(chunks) - 1 /\ k + 1 \in 1 .. m
    BY <1>0
  <2>2. ~scan[End(k + 1) + 1].ok /\ Readable(k + 1)
    BY <1>2, <2>1
  <2>3. scan[End(k) + 1] = Refused
    BY <2>1, <2>2, ScanOver
  <2>. QED
    BY <2>1, <2>3 DEF Refused
<1>3. T = 0 .. m
  <2>1. T \in SUBSET (0 .. m)
    OBVIOUS
  <2> HIDE DEF T
  <2>. QED
    BY <1>0, <1>1, <1>2, <2>1, Downward
<1>. QED
  BY <1>0, <1>3

LEMMA LastOf ==
    ASSUME NEW n \in Nat, NEW s \in Seq(Nat)
    PROVE  /\ <<n>> \o s # <<>>
           /\ s = <<>> => Last(<<n>> \o s) = n
           /\ s # <<>> => Last(<<n>> \o s) = Last(s)
<1> DEFINE h == <<n>>
           t == h \o s
<1>1. h \in Seq(Nat) /\ Len(h) = 1 /\ h[1] = n
  OBVIOUS
<1> HIDE DEF h
<1>2. /\ t \in Seq(Nat) /\ Len(t) = Len(h) + Len(s)
      /\ \A i \in 1 .. Len(h) : t[i] = h[i]
      /\ \A i \in 1 .. Len(s) : t[i + Len(h)] = s[i]
  BY <1>1, Joined
<1> HIDE DEF t
<1>3. Len(s) \in Nat /\ Len(t) = 1 + Len(s)
  BY <1>1, <1>2
<1>4. t # <<>>
  BY <1>3
<1>5. s = <<>> => Last(t) = n
  BY <1>1, <1>2, <1>3 DEF Last
<1>6. s # <<>> => Last(t) = Last(s)
  <2>1. ASSUME s # <<>>
        PROVE  t[Len(t)] = s[Len(s)]
    <3>1. Len(s) \in 1 .. Len(s) /\ Len(s) + Len(h) = Len(t)
      BY <1>1, <1>3, <2>1
    <3>. QED
      BY <1>2, <3>1
  <2>. QED
    BY <2>1 DEF Last
<1>. QED
  BY <1>4, <1>5, <1>6 DEF h, t

(* The LSN that the walk ends with, if it is at chunk k + 1.               *)
LatestFrom(k) == IF walk[End(k) + 1] = <<>> THEN k ELSE Last(walk[End(k) + 1])

LEMMA LatestType ==
    ASSUME Types
    PROVE  getLatestLSN \in Nat /\ getLatestLSN = LatestFrom(0)
<1> DEFINE s == walk[SegmentHeaderSize + 1]
<1>1. s \in Seq(Nat)
  <2>1. SegmentHeaderSize + 1 \in Nat
    BY DEF SegmentHeaderSize
  <2>. QED
    BY <2>1, WalkType
<1>2. getLatestLSN = IF s = <<>> THEN 0 ELSE Last(s)
  BY DEF getLatestLSN
<1>3. LatestFrom(0) = IF s = <<>> THEN 0 ELSE Last(s)
  BY DEF LatestFrom, End
<1> HIDE DEF s
<1>4. s # <<>> => Last(s) \in Nat
  <2>1. s # <<>> => Len(s) \in 1 .. Len(s)
    BY <1>1
  <2>. QED
    BY <1>1, <2>1 DEF Last
<1>. QED
  BY <1>2, <1>3, <1>4

LEMMA LatestOver ==
    ASSUME Types, Layout, Len(file) >= 2, NEW m \in 0 .. Len(chunks),
           \A j \in 1 .. m : Readable(j) /\ chunks[j].rec.lsn = j
    PROVE  LatestFrom(0) = LatestFrom(m)
<1> DEFINE T == {k \in 0 .. m : LatestFrom(k) = LatestFrom(m)}
<1>0. Len(chunks) \in Nat /\ m \in Nat /\ m <= Len(chunks)
  BY DEF Types
<1>1. m \in T
  BY <1>0
<1>2. ASSUME NEW k \in 0 .. m - 1, k + 1 \in T
      PROVE  k \in T
  <2>1. k \in 0 .. m /\ k \in 0 .. Len(chunks) - 1 /\ k + 1 \in 1 .. m /\ k + 1 \in Nat
        /\ k + 1 \in 0 .. Len(chunks)
    BY <1>0
  <2> DEFINE s == walk[End(k + 1) + 1]
             t == walk[End(k) + 1]
  <2>2. t = <<k + 1>> \o s
    <3>1. t = <<chunks[k + 1].rec.lsn>> \o s
      BY <2>1, ScanOver
    <3>. QED
      BY <2>1, <3>1
  <2>3. s \in Seq(Nat)
    <3>1. End(k + 1) \in Nat
      BY <2>1, EndsInFile
    <3>2. End(k + 1) + 1 \in Nat
      BY <3>1
    <3>. QED
      BY <3>2, WalkType
  <2>4. LatestFrom(k) = (IF t = <<>> THEN k ELSE Last(t))
        /\ LatestFrom(k + 1) = (IF s = <<>> THEN k + 1 ELSE Last(s))
    BY DEF LatestFrom
  <2> HIDE DEF s, t
  <2>5. LatestFrom(k) = LatestFrom(k + 1)
    BY <2>1, <2>2, <2>3, <2>4, LastOf
  <2>. QED
    BY <1>2, <2>1, <2>5
<1>3. T = 0 .. m
  <2>1. T \in SUBSET (0 .. m)
    OBVIOUS
  <2> HIDE DEF T
  <2>. QED
    BY <1>0, <1>1, <1>2, <2>1, Downward
<1>4. 0 \in T
  BY <1>0, <1>3
<1>. QED
  BY <1>4

LEMMA Undamaged ==
    ASSUME Types, Layout, Contents, damaged = 0, NEW i \in DOMAIN chunks
    PROVE  /\ \A q \in 1 .. chunks[i].n : file[chunks[i].at + q] = Enc(chunks[i])[q]
           /\ file[chunks[i].at + 1] = Field("magic", 1)
<1> DEFINE k == chunks[i]
<1>1. ChunkFacts(k) /\ \A q \in 1 .. k.n : Holds(k.at + q, Enc(k)[q])
  BY ChunkWords DEF Contents
<1> HIDE DEF k
<1>2. k.at \in Nat /\ k.at >= 2 /\ k.n \in Nat /\ k.n >= 1 /\ Enc(k)[1] = Field("magic", 1)
  BY <1>1 DEF ChunkFacts, RecordOf
<1>3. ASSUME NEW q \in 1 .. k.n
      PROVE  file[k.at + q] = Enc(k)[q]
  <2>1. k.at + q # damaged
    BY <1>2
  <2>. QED
    BY <1>1, <2>1 DEF Holds
<1>4. 1 \in 1 .. k.n
  BY <1>2
<1>. QED
  BY <1>2, <1>3, <1>4 DEF k

(* What the walk finds behind the whole records: nothing, or the LSN of a  *)
(* record whose end is missing, or the magic bytes of the record behind    *)
(* half a header.                                                          *)
LEMMA LatestAtEdge ==
    ASSUME SegmentInv, damaged = 0, Len(file) >= 2, NEW m, Edge(m), scan[End(m) + 1].ok
    PROVE  m <= LatestFrom(m) /\ (m = Len(chunks) => LatestFrom(m) = m)
<1> USE DEF SegmentInv
<1> DEFINE o == End(m) + 1
<1>0. m \in 0 .. Len(chunks) /\ m \in Nat
  BY DEF Edge, Types
<1>1. End(m) \in Nat /\ Len(file) \in Nat
  BY <1>0, EndsInFile DEF Types
<1>2. o \in Nat /\ o = End(m) + 1 /\ walk[o] = WalkRound(walk, o)
  <2>1. o \in Nat
    BY <1>1
  <2>. QED
    BY <2>1, WalkLoop
<1>3. LatestFrom(m) = IF walk[o] = <<>> THEN m ELSE Last(walk[o])
  BY DEF LatestFrom
<1>4. Ends(o)
  <2>1. ~(m < Len(chunks) /\ Readable(m + 1))
    BY DEF Edge, Readable
  <2>. QED
    BY <1>0, <2>1, ScanAt
<1> HIDE DEF o
<1>5. CASE WalkEnds(o)
  <2>1. LatestFrom(m) = m
    BY <1>2, <1>3, <1>5 DEF WalkRound
  <2>. QED
    BY <1>0, <2>1
<1>6. CASE ~WalkEnds(o)
  <2>1. o + 3 <= Len(file)
    <3>1. ~(o + 4 - 1 > Len(file))
      BY <1>6 DEF WalkEnds, RecordHeaderSize
    <3>. QED
      BY <1>1, <1>2, <3>1
  <2>2. decodeRecordHeader(o) /\ BodyTorn(o)
    <3>1. ~(o > Len(file)) /\ ~HeaderTorn(o)
      BY <1>1, <1>2, <2>1 DEF HeaderTorn, RecordHeaderSize
    <3>. QED
      BY <1>4, <3>1 DEF Ends
  <2>3. m < Len(chunks)
    <3>1. m # Len(chunks)
      <4>1. m = Len(chunks) => Len(file) = End(m)
        BY <1>0, NothingBetween
      <4>. QED
        BY <1>1, <1>2, <2>1, <4>1
    <3>2. \A x \in Nat : \A y \in 0 .. x : y < x \/ y = x
      OBVIOUS
    <3>3. Len(chunks) \in Nat
      BY DEF Types
    <3>. QED
      BY <1>0, <3>1, <3>2, <3>3
  <2> DEFINE k == chunks[m + 1]
  <2>4. m + 1 \in DOMAIN chunks /\ k.at = End(m) /\ ChunkFacts(k) /\ Len(chunks) \in Nat
        /\ m + 1 \in 0 .. Len(chunks) /\ m + 1 # 0
    <3>1. m + 1 \in DOMAIN chunks /\ Len(chunks) \in Nat /\ m + 1 \in 0 .. Len(chunks)
          /\ m + 1 # 0
      BY <1>0, <2>3 DEF Types
    <3>. QED
      BY <1>0, <2>3, <3>1, NothingBetween, ChunkWords
  <2>5. \A q \in 1 .. k.n : file[k.at + q] = Enc(k)[q]
    BY <2>4, Undamaged
  <2>6. End(m + 1) = k.at + k.n
    BY <2>4 DEF End
  <2>7. k.rec.lsn = m + 1
    <3>1. \A j \in 1 .. (m + 1) - 1 : Whole(chunks[j])
      <4>1. (m + 1) - 1 = m
        BY <1>0
      <4>. QED
        BY <4>1 DEF Edge, WholeTo
    <3>. QED
      BY <2>4, <3>1 DEF Numbered
  (* Behind fewer words than reach to the LSN stands the next chunk. *)
  <2>8. ASSUME k.n <= 2
        PROVE  file[k.at + k.n + 1] = Field("magic", 1)
    <3>0. k.at \in Nat /\ k.n \in Nat /\ End(m + 1) < Len(file)
      <4>1. k.at \in Nat /\ k.n \in Nat
        BY <2>4 DEF ChunkFacts
      <4>. QED
        BY <1>1, <1>2, <2>1, <2>4, <2>6, <2>8, <4>1
    <3>1. m + 1 < Len(chunks)
      <4>1. m + 1 # Len(chunks)
        BY <1>1, <2>4, <3>0, NothingBetween
      <4>2. \A x \in Nat : \A y \in 0 .. x : y < x \/ y = x
        OBVIOUS
      <4>. QED
        BY <2>4, <4>1, <4>2
    <3>2. (m + 1) + 1 \in DOMAIN chunks
      <4>1. \A x, y \in Nat : x + 1 < y => (x + 1) + 1 \in 1 .. y
        OBVIOUS
      <4>2. (m + 1) + 1 \in 1 .. Len(chunks)
        BY <1>0, <2>4, <3>1, <4>1
      <4>. QED
        BY <4>2 DEF Types
    <3>3. chunks[(m + 1) + 1].at = k.at + k.n
      BY <2>4, <2>6, <3>1, NothingBetween
    <3>. QED
      BY <3>2, <3>3, Undamaged
  <2> HIDE DEF k
  <2>9. /\ k.at \in Nat /\ k.n \in Nat /\ k.n >= 1 /\ k.rec.size \in Nat /\ k.rec.size >= 5
        /\ RecordOf(Enc(k), k.rec.lsn, k.rec.payload) /\ o = k.at + 1
    BY <1>2, <2>4 DEF ChunkFacts
  <2>10. k.n # 1
    <3>1. ASSUME k.n = 1
          PROVE  FALSE
      <4>1. k.at + k.n + 1 = o + 1
        BY <2>9, <3>1
      <4>2. file[o + 1] = Field("magic", 1)
        BY <2>8, <3>1, <4>1
      <4>3. AsLength(file[o + 1]) = MaxSegment + 1 /\ MaxSegment \in Nat
        BY <4>2, BoundAssumption DEF AsLength, Field
      <4>. QED
        BY <2>2, <4>3 DEF decodeRecordHeader
    <3>. QED
      BY <3>1
  <2>11. AsLsn(file[o + 2]) \in Nat /\ m <= AsLsn(file[o + 2])
    <3>1. CASE k.n = 2
      <4>1. k.at + k.n + 1 = o + 2
        BY <2>9, <3>1
      <4>2. file[o + 2] = Field("magic", 1)
        BY <2>8, <3>1, <4>1
      <4>3. AsLsn(file[o + 2]) = BigLsn
        BY <4>2 DEF AsLsn, Field
      <4>4. m <= Len(chunks) /\ Len(chunks) <= MaxRecords /\ Len(chunks) \in Nat
        BY <2>3, <2>4, <1>0 DEF Types
      <4>. QED
        BY SMTT(30), <1>0, <4>3, <4>4, BoundAssumption DEF BigLsn
    <3>2. CASE k.n >= 3
      <4>1. 3 \in 1 .. k.n /\ k.at + 3 = o + 2
        BY <2>9, <3>2
      <4>2. file[o + 2] = Enc(k)[3]
        BY <2>5, <4>1
      <4>3. Enc(k)[3] = Field("lsn", k.rec.lsn)
        BY <2>9 DEF RecordOf
      <4>4. AsLsn(file[o + 2]) = m + 1
        BY <2>7, <4>2, <4>3 DEF AsLsn, Field
      <4>. QED
        BY <1>0, <4>4
    <3>. QED
      BY <2>9, <2>10, <3>1, <3>2
  <2>12. walk[o] = <<AsLsn(file[o + 2])>> \o <<>>
    <3> DEFINE n == o + AsLength(file[o + 1])
    <3>1. n \in Nat
      BY <1>2, <1>6, WalkGoesOn
    <3>2. n - 1 > Len(file)
      <4>1. AsLength(file[o + 1]) \in Nat
        <5>1. o + 1 \in 1 .. Len(file)
          BY <1>1, <1>2, <2>1
        <5>. QED
          BY <5>1, WordFields
      <4>. QED
        BY <1>1, <1>2, <2>2, <4>1 DEF BodyTorn
    <3>3. walk[o] = <<AsLsn(file[o + 2])>> \o walk[n]
      BY <1>2, <1>6 DEF WalkRound
    <3> HIDE DEF n
    <3>4. WalkEnds(n)
      BY <1>1, <3>1, <3>2 DEF WalkEnds, RecordHeaderSize
    <3>5. walk[n] = <<>>
      BY <3>1, <3>4, WalkLoop DEF WalkRound
    <3>. QED
      BY <3>3, <3>5
  <2>13. LatestFrom(m) = AsLsn(file[o + 2])
    <3>1. <<>> \in Seq(Nat)
      OBVIOUS
    <3>. QED
      BY <1>3, <2>11, <2>12, <3>1, LastOf
  <2>. QED
    BY <2>3, <2>4, <2>11, <2>13, <1>0
<1>. QED
  BY <1>5, <1>6

LEMMA LatestIsBehind ==
    ASSUME SegmentInv, damaged = 0, scanSegmentFile.ok, NEW k \in 0 .. Len(chunks), WholeTo(k)
    PROVE  k <= getLatestLSN /\ (k = Len(chunks) => getLatestLSN = k)
<1> USE DEF SegmentInv
<1>1. PICK m : Edge(m)
  BY EdgeExists
<1>2. Len(file) >= 2 /\ scan[End(0) + 1].ok
  BY <1>1, ScanOfFile
<1>3. m \in 0 .. Len(chunks) /\ Len(chunks) \in Nat
  BY <1>1 DEF Edge, Types
<1>4. ASSUME NEW j \in 1 .. m
      PROVE  Readable(j) /\ chunks[j].rec.lsn = j
  <2>1. j \in DOMAIN chunks
    BY <1>3 DEF Types
  <2>2. Whole(chunks[j]) /\ \A i \in 1 .. j - 1 : Whole(chunks[i])
    <3>1. \A i \in 1 .. j - 1 : i \in 1 .. m
      BY <1>3
    <3>. QED
      BY <1>1, <3>1 DEF Edge, WholeTo
  <2>. QED
    BY <2>1, <2>2, AllIntact DEF Numbered
<1>5. scan[End(m) + 1].ok
  BY <1>2, <1>3, <1>4, ScanReaches
<1>6. m <= LatestFrom(m) /\ (m = Len(chunks) => LatestFrom(m) = m)
  BY <1>1, <1>2, <1>5, LatestAtEdge
<1>7. getLatestLSN = LatestFrom(m) /\ getLatestLSN \in Nat
  BY <1>2, <1>3, <1>4, LatestOver, LatestType
<1>8. k <= m
  BY <1>1, EdgeLargest
<1>9. k = Len(chunks) => m = k
  BY <1>3, <1>8
<1>10. k \in Nat /\ m \in Nat
  BY <1>3
<1>. QED
  BY <1>6, <1>7, <1>8, <1>9, <1>10

-----------------------------------------------------------------------------
(* The invariant                                                           *)

Chunk == [at : Nat, n : Nat, rec : [lsn : Nat, payload : Payloads, size : Nat]]

LEMMA InitInv ==
    ASSUME Init
    PROVE  SegmentInv
<1>1. /\ file = <<Field("magic", 1), Field("segid", 1)>> /\ chunks = <<>> /\ open = TRUE
      /\ lsn = 0 /\ damaged = 0 /\ torn = 0 /\ cuts = 0
  BY DEF Init, encodeSegmentHeader
<1>2. file \in Seq(Word) /\ Len(file) = 2
  <2>1. Field("magic", 1) \in Word /\ Field("segid", 1) \in Word
    BY DEF Word, BodyWord, Field
  <2>. QED
    BY <1>1, <2>1
<1>3. Types
  <2>1. Len(file) <= MaxSegment /\ MaxRecords \in Nat
    BY <1>2, BoundAssumption DEF SegmentHeaderSize, BigLsn
  <2>2. chunks \in Seq(Chunk) /\ Len(chunks) = 0
    BY <1>1
  <2>. QED
    BY <1>1, <1>2, <2>1, <2>2 DEF Types, SegmentHeaderSize, Chunk
<1>4. Layout
  <2>1. DOMAIN chunks = {}
    BY <1>1
  <2>2. SegmentHeaderSize + 1 .. Len(file) = {}
    BY <1>2 DEF SegmentHeaderSize
  <2>. QED
    BY <2>1, <2>2 DEF Layout
<1>5. Contents
  <2>1. DOMAIN chunks = {}
    BY <1>1
  <2>2. \A p \in 1 .. SegmentHeaderSize : p # damaged /\ file[p] = encodeSegmentHeader[p]
    BY <1>1 DEF encodeSegmentHeader
  <2>. QED
    BY <2>1, <2>2 DEF Contents, Holds
<1>6. Numbered
  <2>1. DOMAIN chunks = {} /\ Len(chunks) = 0
    BY <1>1
  <2>. QED
    BY <1>1, <2>1 DEF Numbered
<1>. QED
  BY <1>3, <1>4, <1>5, <1>6 DEF SegmentInv

LEMMA WriteKeeps ==
    ASSUME SegmentInv, open, NEW p \in Payloads, Room(p),
           NEW n \in 1 .. Len(encode(lsn + 1, p)), Write(p, n),
           damaged' = damaged, cuts' \in Nat, torn' \in Nat, open' \in BOOLEAN
    PROVE  SegmentInv'
<1> DEFINE e == encode(lsn + 1, p)
           t == SubSeq(e, 1, n)
           new == [at  |-> Len(file), n |-> n,
                   rec |-> [lsn |-> lsn + 1, payload |-> p, size |-> Len(e)]]
           F == Len(file)
           C == Len(chunks)
<1> USE DEF SegmentInv
<1>1. /\ file \in Seq(Word) /\ F \in Nat /\ F >= 2 /\ lsn \in Nat /\ chunks \in Seq(Chunk)
      /\ C \in Nat /\ damaged \in 0 .. F /\ DOMAIN chunks = 1 .. C
  BY DEF Types, Chunk, SegmentHeaderSize
<1>2. /\ RecordOf(e, lsn + 1, p) /\ e \in Seq(Word) /\ Len(e) \in Nat /\ n \in Nat /\ n >= 1
      /\ n <= Len(e) /\ lsn + 1 \in Nat
  <2>1. lsn + 1 \in Nat
    BY <1>1
  <2>2. RecordOf(e, lsn + 1, p)
    BY <2>1, RecordWords
  <2>. QED
    BY <2>1, <2>2 DEF RecordOf
<1>3. /\ file' = file \o t /\ lsn' = lsn + 1 /\ chunks' = Append(chunks, new)
      /\ F + Len(e) <= MaxSegment /\ C < MaxRecords
  <2>1. n # 0
    BY <1>2
  <2>. QED
    BY <2>1 DEF Write, Room
<1>4. Enc(new) = e
  BY DEF Enc
<1> HIDE DEF e
<1>5. t \in Seq(Word) /\ Len(t) = n /\ \A q \in 1 .. n : t[q] = e[q]
  <2>1. n = 1 + n - 1 /\ 1 + n - 1 <= Len(e) /\ n \in Int
    BY <1>2
  <2>2. t \in Seq(Word) /\ PieceOf(t, e, 1, n)
    BY <1>2, <2>1, Piece
  <2>3. \A q \in 1 .. n : 1 + q - 1 = q
    BY <1>2
  <2>. QED
    BY <2>2, <2>3 DEF PieceOf
<1>6. new \in Chunk
  BY <1>1, <1>2 DEF Chunk
<1> HIDE DEF t
<1>7. /\ file' \in Seq(Word) /\ Len(file') = F + n
      /\ \A x \in 1 .. F : file'[x] = file[x]
      /\ \A q \in 1 .. n : file'[q + F] = e[q]
  <2>1. /\ file \o t \in Seq(Word) /\ Len(file \o t) = Len(file) + Len(t)
        /\ \A x \in 1 .. Len(file) : (file \o t)[x] = file[x]
        /\ \A q \in 1 .. Len(t) : (file \o t)[q + Len(file)] = t[q]
    BY <1>1, <1>5, JoinedIn
  <2>. QED
    BY <1>3, <1>5, <2>1
<1>8. new.at = F /\ new.n = n /\ new.rec.lsn = lsn + 1 /\ new.rec.payload = p
      /\ new.rec.size = Len(e) /\ new.rec \in [lsn : Nat, payload : Payloads, size : Nat]
  BY <1>2
<1> HIDE DEF new
<1>9. /\ chunks' \in Seq(Chunk) /\ Len(chunks') = C + 1 /\ DOMAIN chunks' = 1 .. C + 1
      /\ \A i \in 1 .. C : chunks'[i] = chunks[i]
      /\ chunks'[C + 1] = new
  BY <1>1, <1>3, <1>6, AppendProperties
<1> HIDE DEF F, C
<1>10. Types'
  <2>1. damaged' \in 0 .. Len(file')
    BY <1>1, <1>2, <1>7
  <2>2. Len(file') <= MaxSegment /\ Len(file') >= 2
    BY <1>1, <1>2, <1>3, <1>7, BoundAssumption
  <2>3. Len(chunks') <= MaxRecords
    BY <1>1, <1>3, <1>9, BoundAssumption DEF BigLsn
  <2>4. lsn' \in Nat
    BY <1>2, <1>3
  <2>. QED
    BY <1>7, <1>9, <2>1, <2>2, <2>3, <2>4 DEF Types, Chunk, SegmentHeaderSize
(* Of the chunks there were. *)
<1>11. ASSUME NEW i \in 1 .. C
       PROVE  /\ ChunkFacts(chunks[i]) /\ i \in DOMAIN chunks
              /\ chunks[i].at \in Nat /\ chunks[i].n \in Nat /\ chunks[i].at >= 2
              /\ chunks[i].at + chunks[i].n <= F /\ chunks[i].n <= chunks[i].rec.size
              /\ chunks[i].n \in 1 .. chunks[i].rec.size
              /\ chunks[i].rec \in [lsn : Nat, payload : Payloads, size : Nat]
              /\ chunks[i].rec.size = Len(Enc(chunks[i])) /\ chunks[i].rec.size <= MaxSegment
  <2>1. i \in DOMAIN chunks
    BY <1>1
  <2>. QED
    BY <2>1, ChunkWords DEF ChunkFacts, Layout, F, SegmentHeaderSize
<1>12. Layout'
  <2>1. ASSUME NEW i \in 1 .. C + 1
        PROVE  LET k == chunks'[i]
               IN  /\ k.at \in Nat /\ k.at >= SegmentHeaderSize
                   /\ k.n \in 1 .. k.rec.size /\ k.at + k.n <= Len(file')
                   /\ k.rec \in [lsn : Nat, payload : Payloads, size : Nat]
                   /\ k.rec.size = Len(Enc(k)) /\ k.rec.size <= MaxSegment
    <3>1. CASE i \in 1 .. C
      <4>1. chunks[i].at + chunks[i].n <= Len(file')
        <5>1. chunks[i].at \in Nat /\ chunks[i].n \in Nat /\ chunks[i].at + chunks[i].n <= F
          BY <1>11, <3>1
        <5>2. \A a, b, f, z \in Nat : a + b <= f => a + b <= f + z
          OBVIOUS
        <5>3. F \in Nat /\ n \in Nat /\ Len(file') = F + n
          BY <1>1, <1>2, <1>7
        <5>. QED
          BY <5>1, <5>2, <5>3
      <4>. QED
        BY <1>9, <1>11, <3>1, <4>1 DEF SegmentHeaderSize
    <3>2. CASE i = C + 1
      <4>1. n \in 1 .. Len(e) /\ F + n <= Len(file') /\ Len(e) <= MaxSegment
        BY <1>1, <1>2, <1>3, <1>7, BoundAssumption
      <4>2. chunks'[i] = new /\ F \in Nat /\ F >= SegmentHeaderSize
        BY <1>1, <1>9, <3>2 DEF SegmentHeaderSize
      <4>. QED
        BY <1>4, <1>8, <4>1, <4>2
    <3>. QED
      BY <1>1, <3>1, <3>2
  <2>2. ASSUME NEW i \in 1 .. C + 1, NEW j \in 1 .. C + 1, i < j
        PROVE  chunks'[i].at + chunks'[i].n <= chunks'[j].at
    <3>1. i \in 1 .. C
      BY <1>1, <2>2
    <3>2. CASE j \in 1 .. C
      <4>1. chunks[i].at + chunks[i].n <= chunks[j].at
        BY <1>11, <2>2, <3>1, <3>2 DEF Layout
      <4>. QED
        BY <1>9, <3>1, <3>2, <4>1
    <3>3. CASE j = C + 1
      BY <1>8, <1>9, <1>11, <3>1, <3>3
    <3>. QED
      BY <1>1, <3>2, <3>3
  <2>3. ASSUME NEW x \in SegmentHeaderSize + 1 .. F + n
        PROVE  \E i \in 1 .. C + 1 : /\ chunks'[i].at < x
                                     /\ x <= chunks'[i].at + chunks'[i].n
    <3>1. CASE x <= F
      <4>1. x \in SegmentHeaderSize + 1 .. F
        BY <1>1, <1>2, <3>1 DEF SegmentHeaderSize
      <4>2. PICK i \in DOMAIN chunks : chunks[i].at < x /\ x <= chunks[i].at + chunks[i].n
        BY <4>1 DEF Layout, F
      <4>3. i \in 1 .. C /\ i \in 1 .. C + 1
        BY <1>1
      <4>. QED
        BY <1>9, <4>2, <4>3
    <3>2. CASE ~(x <= F)
      <4>1. C + 1 \in 1 .. C + 1 /\ F < x /\ x <= F + n
        BY <1>1, <1>2, <3>2 DEF SegmentHeaderSize
      <4>. QED
        BY <1>8, <1>9, <4>1
    <3>. QED
      BY <3>1, <3>2
  <2>. QED
    BY <1>7, <1>9, <2>1, <2>2, <2>3 DEF Layout
<1>13. Contents'
  <2>1. ASSUME NEW x \in 1 .. F, NEW w, Holds(x, w)
        PROVE  Holds(x, w)'
    BY <1>7, <2>1 DEF Holds
  <2>2. ASSUME NEW x \in 1 .. SegmentHeaderSize
        PROVE  Holds(x, encodeSegmentHeader[x])'
    <3>1. x \in 1 .. F /\ x <= F
      BY <1>1 DEF SegmentHeaderSize
    <3>2. Holds(x, encodeSegmentHeader[x])
      BY <3>1 DEF Contents, F
    <3>. QED
      BY <2>1, <3>1, <3>2
  <2>3. ASSUME NEW i \in 1 .. C, NEW q \in 1 .. chunks[i].n
        PROVE  Holds(chunks[i].at + q, Enc(chunks[i])[q])'
    <3>1. Holds(chunks[i].at + q, Enc(chunks[i])[q])
      BY <1>11 DEF Contents
    <3>2. chunks[i].at + q \in 1 .. F
      <4>1. chunks[i].at \in Nat /\ chunks[i].n \in Nat /\ chunks[i].at + chunks[i].n <= F
        BY <1>11
      <4>2. \A a, b, f \in Nat : \A y \in 1 .. b : a + b <= f => a + y \in 1 .. f
        OBVIOUS
      <4>. QED
        BY <1>1, <4>1, <4>2
    <3>. QED
      BY <1>9, <2>1, <3>1, <3>2 DEF Holds
  <2>4. ASSUME NEW q \in 1 .. n, NEW x, x = F + q, NEW w, w = e[q]
        PROVE  Holds(x, w)'
    <3>1. x # damaged /\ x = q + F
      BY <1>1, <1>2, <2>4
    <3>. QED
      BY <1>7, <2>4, <3>1 DEF Holds
  <2>5. ASSUME NEW i \in 1 .. C + 1, NEW q \in 1 .. chunks'[i].n
        PROVE  Holds(chunks[i].at + q, Enc(chunks[i])[q])'
    <3>1. CASE i \in 1 .. C
      <4>1. chunks'[i] = chunks[i]
        BY <1>9, <3>1
      <4>. QED
        BY <2>3, <3>1, <4>1
    <3>2. CASE i = C + 1
      <4>1. chunks'[i] = new
        BY <1>9, <3>2
      <4>2. q \in 1 .. n /\ chunks'[i].at + q = F + q /\ Enc(chunks'[i])[q] = e[q]
        BY <1>4, <1>8, <4>1
      <4>. QED
        BY <2>4, <4>2
    <3>. QED
      BY <1>1, <3>1, <3>2
  <2>. QED
    BY <1>9, <2>2, <2>5 DEF Contents
<1>14. Numbered'
  <2>1. ASSUME NEW i \in 1 .. C + 1, \A j \in 1 .. i - 1 : Whole(chunks'[j]),
               damaged = 0 \/ chunks'[i].at < damaged
        PROVE  chunks'[i].rec.lsn = i
    <3>1. \A j \in 1 .. i - 1 : Whole(chunks[j])
      <4>1. \A j \in 1 .. i - 1 : j \in 1 .. C
        BY <1>1
      <4>. QED
        BY <1>9, <2>1, <4>1
    <3>2. CASE i \in 1 .. C
      BY <1>9, <1>11, <2>1, <3>1, <3>2 DEF Numbered
    <3>3. CASE i = C + 1
      <4>1. damaged = 0
        BY <1>1, <1>8, <1>9, <2>1, <3>3
      <4>2. C \in 0 .. C /\ i - 1 = C
        BY <1>1, <3>3
      <4>3. lsn = C
        BY <3>1, <4>1, <4>2 DEF Numbered, C
      <4>. QED
        BY <1>8, <1>9, <3>3, <4>3
    <3>4. i \in 1 .. C \/ i = C + 1
      BY <1>1
    <3>. QED
      BY <3>2, <3>3, <3>4
  <2>2. ASSUME damaged = 0, NEW m \in 0 .. C + 1, \A j \in 1 .. m : Whole(chunks'[j])
        PROVE  m <= lsn' /\ (m = C + 1 => lsn' = m)
    <3>1. CASE m \in 0 .. C
      <4>1. \A j \in 1 .. m : Whole(chunks[j])
        <5>1. \A j \in 1 .. m : j \in 1 .. C
          BY <1>1, <3>1
        <5>. QED
          BY <1>9, <2>2, <5>1
      <4>2. m <= lsn
        BY <2>2, <3>1, <4>1 DEF Numbered, C
      <4>. QED
        BY <1>1, <1>3, <3>1, <4>2
    <3>2. CASE m = C + 1
      <4>1. \A j \in 1 .. C : Whole(chunks[j])
        <5>1. \A j \in 1 .. C : j \in 1 .. m
          BY <1>1, <3>2
        <5>. QED
          BY <1>9, <2>2, <5>1
      <4>2. C \in 0 .. C
        BY <1>1
      <4>3. lsn = C
        BY <2>2, <4>1, <4>2 DEF Numbered, C
      <4>. QED
        BY <1>1, <1>3, <3>2, <4>3
    <3>. QED
      BY <1>1, <3>1, <3>2
  <2>. QED
    BY <1>9, <2>1, <2>2 DEF Numbered
<1>. QED
  BY <1>10, <1>12, <1>13, <1>14

(* The chunks that start before word c are the first ones.                 *)
LEMMA CutAt ==
    ASSUME Types, Layout, NEW c \in Nat
    PROVE  \E m \in 0 .. Len(chunks) :
              /\ {j \in DOMAIN chunks : chunks[j].at < c} = 1 .. m
              /\ Cardinality({j \in DOMAIN chunks : chunks[j].at < c}) = m
<1> DEFINE C == Len(chunks)
           D == {j \in DOMAIN chunks : chunks[j].at < c}
           T == {j \in 1 .. C : ~(chunks[j].at < c)}
<1>0. C \in Nat /\ DOMAIN chunks = 1 .. C
  BY DEF Types
<1>1. ASSUME NEW m \in 0 .. C, D = 1 .. m
      PROVE  Cardinality(D) = m
  <2>1. Cardinality(1 .. m) = IF 1 > m THEN 0 ELSE m - 1 + 1
    BY <1>0, FS_Interval
  <2>2. (IF 1 > m THEN 0 ELSE m - 1 + 1) = m
    BY <1>0
  <2> HIDE DEF D
  <2>. QED
    BY <1>1, <2>1, <2>2
<1>2. \E m \in 0 .. C : D = 1 .. m
  <2>1. CASE T = {}
    <3>1. D = 1 .. C
      BY <1>0, <2>1
    <3>2. C \in 0 .. C
      BY <1>0
    <3>. QED
      BY <3>1, <3>2
  <2>2. CASE T # {}
    <3>1. PICK t \in T : \A k \in T : t <= k
      <4>1. T \in SUBSET Nat
        BY <1>0
      <4> HIDE DEF T
      <4>. QED
        BY <2>2, <4>1, SmallestNumber
    <3>2. t \in 1 .. C /\ ~(chunks[t].at < c)
      OBVIOUS
    <3>3. ASSUME NEW j \in 1 .. C
          PROVE  chunks[j].at < c <=> j < t
      <4>1. CASE j < t
        <5>1. ~(t <= j)
          BY <3>2, <4>1
        <5>2. j \notin T
          BY <3>1, <5>1
        <5>. QED
          BY <4>1, <5>2
      <4>2. CASE j = t
        BY <3>2, <4>2
      <4>3. CASE t < j
        <5>1. chunks[t].at + chunks[t].n <= chunks[j].at
          BY <1>0, <3>2, <4>3 DEF Layout
        <5>2. chunks[t].at \in Nat /\ chunks[t].n \in Nat /\ chunks[j].at \in Nat
          <6>1. t \in DOMAIN chunks /\ j \in DOMAIN chunks
            BY <1>0, <3>2
          <6>. QED
            BY <6>1, ChunkWords DEF ChunkFacts
        <5>3. ~(chunks[j].at < c)
          BY <3>2, <5>1, <5>2
        <5>. QED
          BY <3>2, <4>3, <5>3
      <4>. QED
        BY <3>2, <4>1, <4>2, <4>3
    <3>4. D = {j \in 1 .. C : j < t}
      BY <1>0, <3>3
    <3>5. {j \in 1 .. C : j < t} = 1 .. t - 1 /\ t - 1 \in 0 .. C
      BY <1>0, <3>2
    <3>. QED
      BY <3>4, <3>5
  <2>. QED
    BY <2>1, <2>2
<1>. QED
  BY <1>1, <1>2

LEMMA PowerLossKeeps ==
    ASSUME SegmentInv, PowerLoss
    PROVE  SegmentInv'
<1> USE DEF SegmentInv
<1>1. PICK c \in 0 .. Len(file) - 1 :
          /\ file' = SubSeq(file, 1, c)
          /\ chunks' = [i \in 1 .. Cardinality({j \in DOMAIN chunks : chunks[j].at < c}) |->
                           IF chunks[i].at + chunks[i].n <= c THEN chunks[i]
                           ELSE [chunks[i] EXCEPT !.n = c - chunks[i].at]]
          /\ damaged' = IF damaged > c THEN 0 ELSE damaged
  BY DEF PowerLoss
<1>2. ~open /\ open' = open /\ lsn' = lsn /\ torn' = torn /\ cuts' = cuts + 1
  BY DEF PowerLoss
<1>3. /\ file \in Seq(Word) /\ Len(file) \in Nat /\ c \in Nat /\ c < Len(file)
      /\ chunks \in Seq(Chunk) /\ Len(chunks) \in Nat /\ DOMAIN chunks = 1 .. Len(chunks)
      /\ damaged \in Nat
  BY DEF Types, Chunk
<1>4. PICK m \in 0 .. Len(chunks) :
              /\ {j \in DOMAIN chunks : chunks[j].at < c} = 1 .. m
              /\ Cardinality({j \in DOMAIN chunks : chunks[j].at < c}) = m
  BY <1>3, CutAt
<1> DEFINE cut(i) == IF chunks[i].at + chunks[i].n <= c THEN chunks[i]
                     ELSE [chunks[i] EXCEPT !.n = c - chunks[i].at]
<1>5. chunks' = [i \in 1 .. m |-> cut(i)] /\ m \in Nat
  BY <1>1, <1>3, <1>4
<1>6. ASSUME NEW i \in 1 .. m
      PROVE  /\ i \in DOMAIN chunks /\ chunks[i].at < c /\ cut(i) \in Chunk
             /\ cut(i).at = chunks[i].at /\ cut(i).rec = chunks[i].rec
             /\ cut(i).n \in 1 .. chunks[i].n
             /\ cut(i).at + cut(i).n <= c
             /\ chunks[i].at + chunks[i].n <= c => cut(i).n = chunks[i].n
             /\ ~(chunks[i].at + chunks[i].n <= c) => cut(i).at + cut(i).n = c
  <2>1. i \in DOMAIN chunks /\ chunks[i].at < c
    BY <1>4
  <2>2. chunks[i] \in Chunk /\ chunks[i].at \in Nat /\ chunks[i].n \in Nat /\ chunks[i].n >= 1
    <3>1. chunks[i] \in Chunk
      BY <1>3, <2>1
    <3>2. ChunkFacts(chunks[i])
      BY <2>1, ChunkWords
    <3>. QED
      BY <3>1, <3>2 DEF ChunkFacts
  <2>3. CASE chunks[i].at + chunks[i].n <= c
    BY <2>1, <2>2, <2>3
  <2>4. CASE ~(chunks[i].at + chunks[i].n <= c)
    <3> DEFINE d == c - chunks[i].at
    <3>1. d \in 1 .. chunks[i].n /\ d \in Nat /\ chunks[i].at + d = c
      BY <1>3, <2>1, <2>2, <2>4
    <3> HIDE DEF d
    <3>2. cut(i) = [chunks[i] EXCEPT !.n = d]
      BY <2>4 DEF d
    <3>3. /\ cut(i).at = chunks[i].at /\ cut(i).rec = chunks[i].rec /\ cut(i).n = d
          /\ cut(i) \in Chunk
      BY <2>2, <3>1, <3>2 DEF Chunk
    <3> HIDE DEF cut
    <3>. QED
      BY <1>3, <2>1, <2>4, <3>1, <3>3
  <2>. QED
    BY <2>3, <2>4
<1> HIDE DEF cut
<1>7. /\ chunks' \in Seq(Chunk) /\ Len(chunks') = m /\ DOMAIN chunks' = 1 .. m
      /\ \A i \in 1 .. m : chunks'[i] = cut(i)
  BY <1>5, <1>6
<1>8. /\ file' \in Seq(Word) /\ Len(file') = c
      /\ \A x \in 1 .. c : file'[x] = file[x]
  <2>1. c = 1 + c - 1 /\ 1 + c - 1 <= Len(file) /\ c \in Int
    BY <1>3
  <2>2. SubSeq(file, 1, c) \in Seq(Word) /\ PieceOf(SubSeq(file, 1, c), file, 1, c)
    BY <1>3, <2>1, Piece
  <2>3. \A q \in 1 .. c : 1 + q - 1 = q
    BY <1>3
  <2>. QED
    BY <1>1, <2>2, <2>3 DEF PieceOf
<1>9. Types'
  <2>1. damaged' \in 0 .. Len(file')
    BY <1>1, <1>3, <1>8
  <2>2. Len(file') <= MaxSegment /\ Len(chunks') <= MaxRecords
    <3>1. Len(file) <= MaxSegment /\ Len(chunks) <= MaxRecords
      BY DEF Types
    <3>2. m <= Len(chunks) /\ MaxRecords \in Nat
      BY <1>3, <1>4, BoundAssumption DEF BigLsn
    <3>. QED
      BY <1>3, <1>5, <1>7, <1>8, <3>1, <3>2, BoundAssumption
  <2>. QED
    BY <1>2, <1>7, <1>8, <2>1, <2>2 DEF Types, Chunk
<1>10. ASSUME NEW i \in 1 .. m
       PROVE  /\ ChunkFacts(chunks[i]) /\ cut(i).n \in Nat
              /\ chunks[i].at \in Nat /\ chunks[i].n \in Nat /\ chunks[i].at >= 2
              /\ chunks[i].n <= chunks[i].rec.size /\ chunks[i].rec.size \in Nat
              /\ chunks[i].rec \in [lsn : Nat, payload : Payloads, size : Nat]
              /\ chunks[i].rec.size = Len(Enc(chunks[i])) /\ chunks[i].rec.size <= MaxSegment
  <2>1. i \in DOMAIN chunks
    BY <1>6
  <2>2. ChunkFacts(chunks[i])
    BY <2>1, ChunkWords
  <2>. QED
    BY <1>6, <2>1, <2>2 DEF ChunkFacts, Layout
<1>11. ASSUME NEW i \in 1 .. m
       PROVE  Enc(cut(i)) = Enc(chunks[i])
  BY <1>6 DEF Enc
<1>12. Layout'
  <2>1. ASSUME NEW i \in 1 .. m
        PROVE  LET k == cut(i)
               IN  /\ k.at \in Nat /\ k.at >= SegmentHeaderSize
                   /\ k.n \in 1 .. k.rec.size /\ k.at + k.n <= c
                   /\ k.rec \in [lsn : Nat, payload : Payloads, size : Nat]
                   /\ k.rec.size = Len(Enc(k)) /\ k.rec.size <= MaxSegment
    <3>1. cut(i).n \in 1 .. chunks[i].rec.size
      <4>1. \A n, z \in Nat : \A y \in 1 .. n : n <= z => y \in 1 .. z
        OBVIOUS
      <4>. QED
        BY <1>6, <1>10, <4>1
    <3>. QED
      BY <1>6, <1>10, <1>11, <3>1 DEF SegmentHeaderSize
  <2>2. ASSUME NEW i \in 1 .. m, NEW j \in 1 .. m, i < j
        PROVE  cut(i).at + cut(i).n <= cut(j).at
    <3>1. chunks[i].at + chunks[i].n <= chunks[j].at
      BY <1>6, <2>2 DEF Layout
    <3>2. \A a, n, x, b \in Nat : a + n <= b /\ x \in 1 .. n => a + x <= b
      OBVIOUS
    <3>. QED
      BY <1>6, <1>10, <3>1, <3>2
  <2>3. ASSUME NEW x \in SegmentHeaderSize + 1 .. c
        PROVE  \E i \in 1 .. m : cut(i).at < x /\ x <= cut(i).at + cut(i).n
    <3>1. x \in SegmentHeaderSize + 1 .. Len(file) /\ x \in Nat /\ x <= c
      BY <1>3 DEF SegmentHeaderSize
    <3>2. PICK i \in DOMAIN chunks : chunks[i].at < x /\ x <= chunks[i].at + chunks[i].n
      BY <3>1 DEF Layout
    <3>3. chunks[i].at \in Nat
      BY ChunkWords DEF ChunkFacts
    <3>4. chunks[i].at < c
      BY <1>3, <3>1, <3>2, <3>3
    <3>5. i \in 1 .. m
      BY <1>4, <3>4
    <3>6. cut(i).at < x /\ x <= cut(i).at + cut(i).n
      BY <1>6, <3>1, <3>2, <3>5
    <3>. QED
      BY <3>5, <3>6
  <2>4. \A i \in DOMAIN chunks' :
           LET k == chunks'[i]
           IN  /\ k.at \in Nat /\ k.at >= SegmentHeaderSize
               /\ k.n \in 1 .. k.rec.size /\ k.at + k.n <= Len(file')
               /\ k.rec \in [lsn : Nat, payload : Payloads, size : Nat]
               /\ k.rec.size = Len(Enc(k)) /\ k.rec.size <= MaxSegment
    BY <1>7, <1>8, <2>1
  <2>5. \A i, j \in DOMAIN chunks' :
           i < j => chunks'[i].at + chunks'[i].n <= chunks'[j].at
    BY <1>7, <2>2
  <2>6. \A x \in SegmentHeaderSize + 1 .. Len(file') :
           \E i \in DOMAIN chunks' : chunks'[i].at < x /\ x <= chunks'[i].at + chunks'[i].n
    BY <1>7, <1>8, <2>3
  <2>. QED
    BY <2>4, <2>5, <2>6 DEF Layout
<1>13. Contents'
  <2>1. ASSUME NEW x \in 1 .. c, NEW w, Holds(x, w)
        PROVE  Holds(x, w)'
    <3>1. CASE damaged > c
      <4>1. x # damaged /\ x # damaged'
        BY <1>1, <1>3, <3>1
      <4>. QED
        BY <1>8, <2>1, <4>1 DEF Holds
    <3>2. CASE ~(damaged > c)
      <4>1. damaged' = damaged
        BY <1>1, <3>2
      <4>. QED
        BY <1>8, <2>1, <4>1 DEF Holds
    <3>. QED
      BY <3>1, <3>2
  <2>2. ASSUME NEW x \in 1 .. SegmentHeaderSize, x <= c
        PROVE  Holds(x, encodeSegmentHeader[x])'
    <3>1. x \in 1 .. c /\ x <= Len(file)
      BY <1>3, <2>2
    <3>2. Holds(x, encodeSegmentHeader[x])
      BY <3>1 DEF Contents
    <3>. QED
      BY <2>1, <3>1, <3>2
  <2>3. ASSUME NEW i \in 1 .. m, NEW q \in 1 .. cut(i).n
        PROVE  Holds(chunks[i].at + q, Enc(chunks[i])[q])'
    <3>1. q \in 1 .. chunks[i].n /\ chunks[i].at + q \in 1 .. c
      <4>1. \A a, n, y \in Nat : \A z \in 1 .. y :
               y \in 1 .. n /\ a + y <= c => z \in 1 .. n /\ a + z \in 1 .. c
        BY <1>3
      <4>2. /\ chunks[i].at \in Nat /\ chunks[i].n \in Nat /\ cut(i).n \in Nat
            /\ cut(i).n \in 1 .. chunks[i].n /\ chunks[i].at + cut(i).n <= c
        BY <1>6, <1>10
      <4>. QED
        BY <4>1, <4>2
    <3>2. Holds(chunks[i].at + q, Enc(chunks[i])[q])
      BY <1>6, <3>1 DEF Contents
    <3>3. \A x \in 1 .. c : \A w : Holds(x, w) => Holds(x, w)'
      BY <2>1
    <3>4. chunks'[i].at + q = chunks[i].at + q /\ Enc(chunks'[i])[q] = Enc(chunks[i])[q]
      BY <1>6, <1>7, <1>11
    <3>. QED
      BY <3>1, <3>2, <3>3, <3>4
  <2>. QED
    BY <1>7, <1>8, <2>2, <2>3 DEF Contents
<1>14. Numbered'
  <2>1. ASSUME NEW i \in 1 .. m, \A j \in 1 .. i - 1 : Whole(cut(j)),
               damaged' = 0 \/ cut(i).at < damaged'
        PROVE  cut(i).rec.lsn = i
    <3>1. \A j \in 1 .. i - 1 : Whole(chunks[j])
      <4>1. ASSUME NEW j \in 1 .. i - 1
            PROVE  Whole(chunks[j])
        <5>1. j \in 1 .. m
          BY <1>5
        <5>2. cut(j).n = chunks[j].rec.size
          BY <1>6, <2>1, <5>1 DEF Whole
        <5>3. chunks[j].n = chunks[j].rec.size
          BY <1>6, <1>10, <5>1, <5>2
        <5>. QED
          BY <5>3 DEF Whole
      <4>. QED
        BY <4>1
    <3>2. damaged = 0 \/ chunks[i].at < damaged
      BY <1>1, <1>3, <1>6, <1>10, <2>1
    <3>3. chunks[i].rec.lsn = i
      BY <1>6, <3>1, <3>2 DEF Numbered
    <3>. QED
      BY <1>6, <3>3
  <2>. QED
    BY <1>2, <1>7, <2>1 DEF Numbered
<1>. QED
  BY <1>9, <1>12, <1>13, <1>14

LEMMA DamageKeeps ==
    ASSUME SegmentInv, NEW p \in DOMAIN file, Damage(p)
    PROVE  SegmentInv'
<1> USE DEF SegmentInv
<1>1. PICK v \in Damages(file[p]) : file' = [file EXCEPT ![p].val = v]
  BY DEF Damage
<1>2. /\ ~open /\ damaged = 0 /\ damaged' = p
      /\ open' = open /\ lsn' = lsn /\ chunks' = chunks /\ torn' = torn /\ cuts' = cuts
  BY DEF Damage
<1>3. file \in Seq(Word) /\ Len(file) \in Nat /\ p \in 1 .. Len(file) /\ file[p] \in Word
  BY DEF Types
<1>4. [file[p] EXCEPT !.val = v] \in Word
  BY <1>3, DamagedWord
<1>5. /\ file' \in Seq(Word) /\ Len(file') = Len(file) /\ DOMAIN file' = DOMAIN file
      /\ \A x \in 1 .. Len(file) : x # p => file'[x] = file[x]
      /\ file'[p] = [file[p] EXCEPT !.val = v]
  <2> DEFINE w == [file[p] EXCEPT !.val = v]
  <2>1. file' = [file EXCEPT ![p] = w]
    BY <1>1
  <2> HIDE DEF w
  <2>2. w \in Word
    BY <1>4 DEF w
  <2>3. file' \in Seq(Word) /\ Len(file') = Len(file) /\ DOMAIN file' = DOMAIN file
    BY <1>3, <2>1, <2>2, ExceptSeq
  <2>4. file'[p] = w /\ \A x \in 1 .. Len(file) : x # p => file'[x] = file[x]
    BY <1>3, <2>1
  <2>. QED
    BY <2>3, <2>4 DEF w
<1>6. file'[p].field = file[p].field /\ file'[p].val = v
  <2>1. file[p] \in BodyWord \/ file[p] \in CrcWord
    BY <1>3 DEF Word
  <2>. QED
    BY <1>5, <2>1 DEF BodyWord, CrcWord
<1>7. Types'
  <2>1. damaged' \in 0 .. Len(file')
    BY <1>2, <1>3, <1>5
  <2>. QED
    BY <1>2, <1>5, <2>1 DEF Types
<1>8. Layout'
  BY <1>2, <1>5 DEF Layout
<1>9. Contents'
  <2>1. ASSUME NEW x \in 1 .. Len(file), NEW w, Holds(x, w)
        PROVE  Holds(x, w)'
    <3>1. file[x] = w
      BY <1>2, <2>1 DEF Holds
    <3>2. CASE x = p
      BY <1>2, <1>6, <3>1, <3>2 DEF Holds
    <3>3. CASE x # p
      BY <1>2, <1>5, <3>1, <3>3 DEF Holds
    <3>. QED
      BY <3>2, <3>3
  <2>2. ASSUME NEW x \in 1 .. SegmentHeaderSize, x <= Len(file)
        PROVE  Holds(x, encodeSegmentHeader[x])'
    <3>1. x \in 1 .. Len(file)
      BY <1>3, <2>2
    <3>2. Holds(x, encodeSegmentHeader[x])
      BY <2>2 DEF Contents
    <3>. QED
      BY <2>1, <3>1, <3>2
  <2>3. ASSUME NEW i \in DOMAIN chunks, NEW q \in 1 .. chunks[i].n
        PROVE  Holds(chunks[i].at + q, Enc(chunks[i])[q])'
    <3>1. Holds(chunks[i].at + q, Enc(chunks[i])[q])
      BY DEF Contents
    <3>2. chunks[i].at + q \in 1 .. Len(file)
      <4>1. chunks[i].at \in Nat /\ chunks[i].n \in Nat
            /\ chunks[i].at + chunks[i].n <= Len(file)
        BY ChunkWords DEF ChunkFacts
      <4>2. \A a, b, f \in Nat : \A y \in 1 .. b : a + b <= f => a + y \in 1 .. f
        OBVIOUS
      <4>. QED
        BY <1>3, <4>1, <4>2
    <3>3. \A x \in 1 .. Len(file) : \A w : Holds(x, w) => Holds(x, w)'
      BY <2>1
    <3>. QED
      BY <1>2, <3>1, <3>2, <3>3
  <2>. QED
    BY <1>2, <1>5, <2>2, <2>3 DEF Contents
<1>10. Numbered'
  <2>1. ~(damaged' = 0)
    BY <1>2, <1>3
  <2>. QED
    BY <1>2, <2>1 DEF Numbered
<1>. QED
  BY <1>7, <1>8, <1>9, <1>10

LEMMA OpenKeeps ==
    ASSUME SegmentInv, Open
    PROVE  SegmentInv'
<1> USE DEF SegmentInv
<1>1. /\ scanSegmentFile.ok /\ open' = TRUE /\ lsn' = getLatestLSN
      /\ file' = file /\ chunks' = chunks /\ damaged' = damaged /\ torn' = torn /\ cuts' = cuts
  BY DEF Open
<1>2. Len(file) >= 2
  BY <1>1, EdgeExists, ScanOfFile
<1>3. Types'
  <2>1. lsn' \in Nat
    BY <1>1, LatestType
  <2>. QED
    BY <1>1, <1>2, <2>1 DEF Types, SegmentHeaderSize
<1>4. Layout'
  BY <1>1 DEF Layout
<1>5. Contents'
  BY <1>1 DEF Contents, Holds
<1>6. Numbered'
  <2>1. ASSUME damaged = 0, NEW k \in 0 .. Len(chunks), \A j \in 1 .. k : Whole(chunks[j])
        PROVE  k <= lsn' /\ (k = Len(chunks) => lsn' = k)
    <3>1. WholeTo(k)
      BY <2>1 DEF WholeTo
    <3>. QED
      BY <1>1, <2>1, <3>1, LatestIsBehind
  <2>. QED
    BY <1>1, <2>1 DEF Numbered
<1>. QED
  BY <1>3, <1>4, <1>5, <1>6

LEMMA StepInv ==
    ASSUME SegmentInv, [Next]_vars
    PROVE  SegmentInv'
<1>0. SegmentInv /\ open \in BOOLEAN /\ damaged' = damaged' /\ torn \in Nat /\ cuts \in Nat
      /\ lsn \in Nat
  BY DEF SegmentInv, Types
<1>a. ASSUME NEW p \in Payloads
      PROVE  Len(encode(lsn + 1, p)) \in Nat /\ Len(encode(lsn + 1, p)) >= 1
  <2>1. RecordOf(encode(lsn + 1, p), lsn + 1, p) /\ Len(encodePayload(p)) \in Nat
    BY <1>0, RecordWords, PayloadWords
  <2>. QED
    BY <2>1 DEF RecordOf
<1>1. ASSUME NEW p \in Payloads, AppendRecord(p)
      PROVE  SegmentInv'
  <2>1. Len(encode(lsn + 1, p)) \in 1 .. Len(encode(lsn + 1, p))
    BY <1>a
  <2>2. /\ open /\ Room(p) /\ Write(p, Len(encode(lsn + 1, p)))
        /\ open' = open /\ damaged' = damaged /\ torn' = torn /\ cuts' = cuts
    BY <1>1 DEF AppendRecord
  <2>3. open' \in BOOLEAN /\ torn' \in Nat /\ cuts' \in Nat
    BY <1>0, <2>2
  <2>. QED
    BY <1>0, <2>1, <2>2, <2>3, WriteKeeps
<1>2. ASSUME NEW p \in Payloads, TornAppend(p)
      PROVE  SegmentInv'
  <2>1. /\ open /\ Room(p) /\ open' \in BOOLEAN /\ torn' = torn + 1
        /\ damaged' = damaged /\ cuts' = cuts
    BY <1>2 DEF TornAppend
  <2>2. PICK n \in 1 .. Len(encode(lsn + 1, p)) - 1 : Write(p, n)
    BY <1>2 DEF TornAppend
  <2>3. n \in 1 .. Len(encode(lsn + 1, p))
    BY <1>a
  <2>4. torn' \in Nat /\ cuts' \in Nat
    BY <1>0, <2>1
  <2>. QED
    BY <1>0, <2>1, <2>2, <2>3, <2>4, WriteKeeps
<1>3. ASSUME Stop
      PROVE  SegmentInv'
  <2>1. /\ open' = FALSE /\ file' = file /\ lsn' = lsn /\ chunks' = chunks
        /\ damaged' = damaged /\ torn' = torn /\ cuts' = cuts
    BY <1>3 DEF Stop
  <2>2. Types' /\ Layout'
    BY <1>0, <2>1 DEF SegmentInv, Types, Layout
  <2>3. Contents'
    BY <1>0, <2>1 DEF SegmentInv, Contents, Holds
  <2>4. Numbered'
    BY <1>0, <2>1 DEF SegmentInv, Numbered
  <2>. QED
    BY <2>2, <2>3, <2>4 DEF SegmentInv
<1>4. ASSUME UNCHANGED vars
      PROVE  SegmentInv'
  <2>1. /\ open' = open /\ file' = file /\ lsn' = lsn /\ chunks' = chunks
        /\ damaged' = damaged /\ torn' = torn /\ cuts' = cuts
    BY <1>4 DEF vars
  <2>2. Types' /\ Layout'
    BY <1>0, <2>1 DEF SegmentInv, Types, Layout
  <2>3. Contents'
    BY <1>0, <2>1 DEF SegmentInv, Contents, Holds
  <2>4. Numbered'
    BY <1>0, <2>1 DEF SegmentInv, Numbered
  <2>. QED
    BY <2>2, <2>3, <2>4 DEF SegmentInv
<1>. QED
  BY <1>0, <1>1, <1>2, <1>3, <1>4, PowerLossKeeps, DamageKeeps, OpenKeeps DEF Next

-----------------------------------------------------------------------------
(* The segment as module WAL sees it                                       *)

Cell(i) == [at |-> chunks[i].at \div 2, n |-> chunks[i].n \div 2,
            rec |-> [tag |-> i, lsn |-> chunks[i].rec.lsn, op |-> "insert",
                     size |-> chunks[i].rec.size \div 2]]

(* Everything lies on the boundary of a cell.                              *)
Even == /\ InCells /\ Len(file) >= 2 /\ Len(file) % 2 = 0

LEMMA EvenEnds ==
    ASSUME Types, Layout, Even
    PROVE  \A k \in 0 .. Len(chunks) : End(k) % 2 = 0
<1> DEFINE C == Len(chunks)
           T == {k \in 0 .. C : End(k) % 2 = 0}
<1>0. C \in Nat /\ Len(file) >= 2 /\ Len(file) % 2 = 0
  BY DEF Types, Even
<1>1. C \in T
  <2>1. C \in 0 .. Len(chunks) /\ C = Len(chunks)
    BY <1>0
  <2>2. End(C) = Len(file)
    BY <1>0, <2>1, NothingBetween
  <2>. QED
    BY <1>0, <2>1, <2>2
<1>2. ASSUME NEW k \in 0 .. C - 1, k + 1 \in T
      PROVE  k \in T
  <2>1. k \in 0 .. C /\ k < C /\ k + 1 \in 1 .. C /\ k + 1 # 0
    BY <1>0
  <2>2. k + 1 \in DOMAIN chunks
    BY <2>1 DEF Types
  <2>3. chunks[k + 1].at = End(k) /\ End(k + 1) = chunks[k + 1].at + chunks[k + 1].n
    BY <1>0, <2>1, NothingBetween DEF End
  <2>4. chunks[k + 1].n % 2 = 0 /\ chunks[k + 1].at \in Nat /\ chunks[k + 1].n \in Nat
    BY <2>2, ChunkWords DEF ChunkFacts, Even, InCells
  <2>5. \A x, y \in Nat : (x + y) % 2 = 0 /\ y % 2 = 0 => x % 2 = 0
    OBVIOUS
  <2>6. End(k + 1) % 2 = 0
    BY <1>2
  <2>7. End(k) % 2 = 0
    BY <2>3, <2>4, <2>5, <2>6
  <2>. QED
    BY <2>1, <2>7
<1>3. T = 0 .. C
  <2>1. T \in SUBSET (0 .. C)
    OBVIOUS
  <2> HIDE DEF T, C
  <2>. QED
    BY <1>0, <1>1, <1>2, <2>1, Downward
<1>. QED
  BY <1>3

(* The numbers of chunk i, in words, are even; so the cells are ordered    *)
(* and torn as the chunks are.                                             *)
EvenChunk(k) ==
    /\ k.at \in Nat /\ k.at % 2 = 0 /\ k.n \in Nat /\ k.n % 2 = 0 /\ k.n >= 2
    /\ k.rec.size \in Nat /\ k.rec.size % 2 = 0 /\ k.n <= k.rec.size
    /\ k.rec.size <= MaxSegment

LEMMA EvenChunks ==
    ASSUME Types, Layout, Even, NEW i \in DOMAIN chunks
    PROVE  EvenChunk(chunks[i])
<1> DEFINE k == chunks[i]
<1>1. ChunkFacts(k) /\ k.n % 2 = 0 /\ k.rec.size % 2 = 0
  BY ChunkWords DEF Even, InCells
<1>2. i \in 1 .. Len(chunks) /\ Len(chunks) \in Nat
  BY DEF Types
<1>3. k.at % 2 = 0
  <2>1. i - 1 \in 0 .. Len(chunks) /\ i - 1 < Len(chunks) /\ (i - 1) + 1 = i
    BY <1>2
  <2>2. k.at = End(i - 1)
    BY <2>1, NothingBetween DEF Even
  <2>. QED
    BY <2>1, <2>2, EvenEnds
<1> HIDE DEF k
<1>4. k.at \in Nat /\ k.n \in Nat /\ k.n >= 1 /\ k.rec.size \in Nat /\ k.n <= k.rec.size
      /\ k.rec.size <= MaxSegment
  BY <1>1 DEF ChunkFacts
<1>5. k.n >= 2
  BY <1>1, <1>4
<1>. QED
  BY <1>1, <1>3, <1>4, <1>5 DEF EvenChunk, k

LEMMA Ordered ==
    ASSUME Types, Layout, NEW i \in DOMAIN chunks, NEW j \in DOMAIN chunks
    PROVE  chunks[i].at < chunks[j].at <=> i < j
<1>1. i \in Nat /\ j \in Nat
  <2>1. DOMAIN chunks = 1 .. Len(chunks) /\ Len(chunks) \in Nat
    BY DEF Types
  <2>. QED
    BY <2>1
<1>2. /\ chunks[i].at \in Nat /\ chunks[j].at \in Nat
      /\ chunks[i].n \in Nat /\ chunks[j].n \in Nat /\ chunks[i].n >= 1
  BY ChunkWords DEF ChunkFacts
<1>3. /\ i < j => chunks[i].at + chunks[i].n <= chunks[j].at
      /\ j < i => chunks[j].at + chunks[j].n <= chunks[i].at
  BY DEF Layout
<1>4. CASE i < j
  BY <1>2, <1>3, <1>4
<1>5. CASE i = j
  BY <1>1, <1>2, <1>5
<1>6. CASE j < i
  BY <1>1, <1>2, <1>3, <1>6
<1>. QED
  BY <1>1, <1>4, <1>5, <1>6

LEMMA CellOrder ==
    ASSUME Types, Layout, Even, NEW i \in DOMAIN chunks, NEW j \in DOMAIN chunks
    PROVE  /\ Cell(i).at < Cell(j).at <=> i < j
           /\ Cell(i).at <= Cell(j).at <=> i <= j
           /\ Cell(i).n < Cell(i).rec.size <=> ~Whole(chunks[i])
           /\ Cell(i) = Cell(j) => i = j
<1>1. EvenChunk(chunks[i]) /\ EvenChunk(chunks[j])
  BY EvenChunks
<1>2. \A x, y \in Nat : x % 2 = 0 /\ y % 2 = 0 =>
         /\ (x \div 2 < y \div 2 <=> x < y)
         /\ (x \div 2 <= y \div 2 <=> ~(y < x))
  OBVIOUS
<1>3. /\ Cell(i).at < Cell(j).at <=> chunks[i].at < chunks[j].at
      /\ Cell(i).at <= Cell(j).at <=> ~(chunks[j].at < chunks[i].at)
  BY <1>1, <1>2 DEF Cell, EvenChunk
<1>4. Cell(i).n < Cell(i).rec.size <=> chunks[i].n < chunks[i].rec.size
  BY <1>1, <1>2 DEF Cell, EvenChunk
<1>5. chunks[i].n < chunks[i].rec.size <=> ~Whole(chunks[i])
  BY <1>1 DEF EvenChunk, Whole
<1>6. i \in Nat /\ j \in Nat
  <2>1. DOMAIN chunks = 1 .. Len(chunks) /\ Len(chunks) \in Nat
    BY DEF Types
  <2>. QED
    BY <2>1
<1>7. ~(j < i) <=> i <= j
  BY <1>6
<1>8. Cell(i) = Cell(j) => i = j
  <2>1. Cell(i).rec.tag = i /\ Cell(j).rec.tag = j
    BY DEF Cell
  <2>. QED
    BY <2>1
<1>. QED
  BY <1>3, <1>4, <1>5, <1>7, <1>8, Ordered

LEMMA CellFile ==
    ASSUME Types, Layout, Even
    PROVE  /\ AsFile.size = Len(file) \div 2
           /\ AsFile.chunks = {Cell(i) : i \in DOMAIN chunks}
           /\ W!Torn(AsFile) = {Cell(i) : i \in {x \in DOMAIN chunks : ~Whole(chunks[x])}}
<1>1. AsFile.size = Len(file) \div 2 /\ AsFile.chunks = {Cell(i) : i \in DOMAIN chunks}
  BY DEF AsFile, Cell
<1>2. W!Torn(AsFile) = {k \in {Cell(i) : i \in DOMAIN chunks} : k.n < k.rec.size}
  BY <1>1 DEF W!Torn
<1>3. \A i \in DOMAIN chunks : Cell(i).n < Cell(i).rec.size <=> ~Whole(chunks[i])
  BY CellOrder
<1>. QED
  BY <1>1, <1>2, <1>3

LEMMA CellPrefix ==
    ASSUME Types, Layout, Even, NEW m, Edge(m)
    PROVE  /\ W!WholePrefix(AsFile) = {Cell(i) : i \in 1 .. m}
           /\ Cardinality(W!WholePrefix(AsFile)) = m
           /\ m = Len(chunks) => W!Torn(AsFile) = {}
           /\ m < Len(chunks) => W!Torn(AsFile) # {} /\ W!FirstTorn(AsFile) = Cell(m + 1)
<1> DEFINE C == Len(chunks)
           P == W!WholePrefix(AsFile)
<1>0. C \in Nat /\ DOMAIN chunks = 1 .. C /\ m \in 0 .. C /\ m \in Nat
  BY DEF Types, Edge
<1>a. \A i \in 1 .. C : i <= m => Whole(chunks[i])
  <2>1. \A i \in 1 .. C : i <= m => i \in 1 .. m
    BY <1>0
  <2>. QED
    BY <2>1 DEF Edge, WholeTo
<1>b. m < C => m + 1 \in DOMAIN chunks /\ ~Whole(chunks[m + 1])
  BY <1>0 DEF Edge
<1>1. P = {k \in AsFile.chunks : \A t \in W!Torn(AsFile) : k.at < t.at}
  BY DEF W!WholePrefix
<1> HIDE DEF P
<1>2. ASSUME NEW i \in DOMAIN chunks
      PROVE  Cell(i) \in P <=> i \in 1 .. m
  <2>1. Cell(i) \in P <=> \A x \in DOMAIN chunks : ~Whole(chunks[x]) => i < x
    <3>1. Cell(i) \in P <=> \A t \in W!Torn(AsFile) : Cell(i).at < t.at
      BY <1>1, CellFile
    <3>2. (\A t \in W!Torn(AsFile) : Cell(i).at < t.at)
            <=> \A x \in DOMAIN chunks : ~Whole(chunks[x]) => Cell(i).at < Cell(x).at
      BY CellFile
    <3>3. \A x \in DOMAIN chunks : Cell(i).at < Cell(x).at <=> i < x
      BY CellOrder
    <3>. QED
      BY <3>1, <3>2, <3>3
  <2>2. CASE i \in 1 .. m
    <3>1. \A x \in DOMAIN chunks : ~Whole(chunks[x]) => i < x
      BY <1>0, <1>a, <2>2
    <3>. QED
      BY <2>1, <2>2, <3>1
  <2>3. CASE i \notin 1 .. m
    <3>1. m < C /\ ~(i < m + 1)
      BY <1>0, <2>3
    <3>. QED
      BY <1>b, <2>1, <2>3, <3>1
  <2>. QED
    BY <2>2, <2>3
<1>3. P = {Cell(i) : i \in 1 .. m}
  <2>1. P \subseteq {Cell(i) : i \in DOMAIN chunks}
    BY <1>1, CellFile
  <2>2. 1 .. m \subseteq DOMAIN chunks
    BY <1>0
  <2>. QED
    BY <1>2, <2>1, <2>2
<1>4. Cardinality(P) = m
  <2> DEFINE F == [i \in 1 .. m |-> Cell(i)]
  <2>1. F \in [1 .. m -> P] /\ \A t \in P : \E s \in 1 .. m : F[s] = t
    BY <1>3
  <2>2. \A a, b \in 1 .. m : F[a] = F[b] => a = b
    <3>1. \A a, b \in 1 .. m : Cell(a) = Cell(b) => a = b
      BY DEF Cell
    <3>. QED
      BY <3>1
  <2> HIDE DEF F
  <2>3. F \in Bijection(1 .. m, P)
    <3>1. F \in Injection(1 .. m, P)
      BY <2>1, <2>2, Fun_IsInj
    <3>2. F \in Surjection(1 .. m, P)
      BY <2>1, Fun_IsSurj
    <3>. QED
      BY <3>1, <3>2 DEF Bijection
  <2>4. ExistsBijection(1 .. m, P)
    BY <2>3 DEF ExistsBijection
  <2>. QED
    BY <1>0, <2>4, FS_CountingElements
<1>5. m = C => W!Torn(AsFile) = {}
  BY <1>0, <1>a, CellFile
<1>6. ASSUME m < C
      PROVE  W!Torn(AsFile) # {} /\ W!FirstTorn(AsFile) = Cell(m + 1)
  <2>1. Cell(m + 1) \in W!Torn(AsFile)
    BY <1>b, <1>6, CellFile
  <2>2. ASSUME NEW i \in DOMAIN chunks, ~Whole(chunks[i])
        PROVE  m + 1 <= i
    BY <1>0, <1>a, <2>2
  <2>3. \A u \in W!Torn(AsFile) : Cell(m + 1).at <= u.at
    <3>1. ASSUME NEW i \in DOMAIN chunks, ~Whole(chunks[i])
          PROVE  Cell(m + 1).at <= Cell(i).at
      BY <1>b, <1>6, <2>2, <3>1, CellOrder
    <3>. QED
      BY <3>1, CellFile
  <2>4. ASSUME NEW t \in W!Torn(AsFile), \A u \in W!Torn(AsFile) : t.at <= u.at
        PROVE  t = Cell(m + 1)
    <3>1. PICK i \in DOMAIN chunks : ~Whole(chunks[i]) /\ t = Cell(i)
      BY CellFile
    <3>2. Cell(i).at <= Cell(m + 1).at
      BY <2>1, <2>4, <3>1
    <3>3. i <= m + 1
      BY <1>b, <1>6, <3>2, CellOrder
    <3>4. i = m + 1
      BY <1>0, <2>2, <3>1, <3>3
    <3>. QED
      BY <3>1, <3>4
  <2>. QED
    BY <2>1, <2>3, <2>4 DEF W!FirstTorn
<1>. QED
  BY <1>3, <1>4, <1>5, <1>6 DEF P

LEMMA ScanPasses ==
    ASSUME Types, Layout, Contents, Len(file) >= 2, NEW m \in 0 .. Len(chunks),
           \A j \in 1 .. m : Readable(j), scan[End(m) + 1].ok
    PROVE  scan[End(0) + 1].ok
<1> DEFINE T == {k \in 0 .. m : scan[End(k) + 1].ok}
<1>0. Len(chunks) \in Nat /\ m \in Nat /\ m <= Len(chunks)
  BY DEF Types
<1>1. m \in T
  BY <1>0
<1>2. ASSUME NEW k \in 0 .. m - 1, k + 1 \in T
      PROVE  k \in T
  <2>1. k \in 0 .. m /\ k \in 0 .. Len(chunks) - 1 /\ k + 1 \in 1 .. m
    BY <1>0
  <2>2. scan[End(k + 1) + 1].ok /\ Readable(k + 1)
    BY <1>2, <2>1
  <2>3. \E s : scan[End(k) + 1] = Scanned(s)
    BY <2>1, <2>2, ScanOver
  <2>. QED
    BY <2>1, <2>3 DEF Scanned
<1>3. T = 0 .. m
  <2>1. T \in SUBSET (0 .. m)
    OBVIOUS
  <2> HIDE DEF T
  <2>. QED
    BY <1>0, <1>1, <1>2, <2>1, Downward
<1>. QED
  BY <1>0, <1>3

(* Of the first chunk that is torn, the words of the record header that a  *)
(* scan looks at, when there are that many.                                *)
LEMMA TornHeader ==
    ASSUME Types, Layout, Contents, damaged = 0, Even, NEW m, Edge(m), m < Len(chunks)
    PROVE  /\ m + 1 \in DOMAIN chunks /\ EvenChunk(chunks[m + 1])
           /\ chunks[m + 1].at = End(m) /\ chunks[m + 1].n < chunks[m + 1].rec.size
           /\ chunks[m + 1].rec.size >= 5
           /\ chunks[m + 1].at + chunks[m + 1].n <= Len(file)
           /\ chunks[m + 1].n >= 4 =>
                 /\ decodeRecordHeader(End(m) + 1)
                 /\ AsLength(file[End(m) + 2]) = chunks[m + 1].rec.size
                 /\ AsLsn(file[End(m) + 3]) = chunks[m + 1].rec.lsn
<1> DEFINE k == chunks[m + 1]
<1>1. m + 1 \in DOMAIN chunks /\ m \in 0 .. Len(chunks) /\ ~Whole(k)
  BY DEF Edge, Types
<1>2. EvenChunk(k) /\ ChunkFacts(k)
  BY <1>1, EvenChunks, ChunkWords
<1>3. k.at = End(m)
  BY <1>1, NothingBetween DEF Even
<1>4. \A q \in 1 .. k.n : file[k.at + q] = Enc(k)[q]
  BY <1>1, Undamaged
<1> HIDE DEF k
<1>5. /\ k.at \in Nat /\ k.n \in Nat /\ k.n < k.rec.size /\ k.rec.size \in Nat
      /\ k.rec.size >= 5 /\ k.rec.size <= MaxSegment /\ k.rec.payload \in Payloads
      /\ k.at + k.n <= Len(file) /\ RecordOf(Enc(k), k.rec.lsn, k.rec.payload)
  BY <1>1, <1>2 DEF ChunkFacts, Whole
<1>6. ASSUME k.n >= 4
      PROVE  /\ decodeRecordHeader(k.at + 1)
             /\ AsLength(file[k.at + 2]) = k.rec.size /\ AsLsn(file[k.at + 3]) = k.rec.lsn
  <2>1. /\ file[k.at + 1] = Enc(k)[1] /\ file[k.at + 2] = Enc(k)[2]
        /\ file[k.at + 3] = Enc(k)[3] /\ file[k.at + 4] = Enc(k)[4]
    <3>1. 1 \in 1 .. k.n /\ 2 \in 1 .. k.n /\ 3 \in 1 .. k.n /\ 4 \in 1 .. k.n
      BY <1>5, <1>6
    <3>. QED
      BY <1>4, <3>1
  <2>2. /\ Enc(k)[1] = Field("magic", 1) /\ Enc(k)[2] = Field("length", k.rec.size)
        /\ Enc(k)[3] = Field("lsn", k.rec.lsn)
        /\ Enc(k)[4] = Field("op", k.rec.payload.op)
    BY <1>2 DEF ChunkFacts, RecordOf
  <2>3. k.rec.payload.op \in 1 .. 2
    BY <1>5, PayloadWords
  <2>4. /\ AsMagic(file[k.at + 1]) /\ AsLength(file[k.at + 2]) = k.rec.size
        /\ AsLsn(file[k.at + 3]) = k.rec.lsn /\ AsOp(file[k.at + 4]) = k.rec.payload.op
    BY <2>1, <2>2 DEF AsMagic, AsLength, AsLsn, AsOp, Field
  <2>5. (k.at + 1) + 1 = k.at + 2 /\ (k.at + 1) + 3 = k.at + 4
    BY <1>5
  <2>6. decodeRecordHeader(k.at + 1)
    <3>1. AsOp(file[k.at + 4]) \in 1 .. 3
      BY <2>3, <2>4
    <3>2. k.rec.size >= MinRecordLength /\ k.rec.size <= MaxSegment
      BY <1>5 DEF MinRecordLength, RecordHeaderSize
    <3>. QED
      BY <2>4, <2>5, <3>1, <3>2 DEF decodeRecordHeader
  <2>. QED
    BY <2>4, <2>6
<1>7. k.n >= 4 => /\ decodeRecordHeader(End(m) + 1)
                 /\ AsLength(file[End(m) + 2]) = k.rec.size
                 /\ AsLsn(file[End(m) + 3]) = k.rec.lsn
  BY <1>3, <1>6
<1>8. /\ m + 1 \in DOMAIN chunks /\ EvenChunk(k) /\ k.at = End(m)
      /\ k.n < k.rec.size /\ k.rec.size >= 5 /\ k.at + k.n <= Len(file)
  BY <1>1, <1>2, <1>3, <1>5
<1>. QED
  BY <1>7, <1>8 DEF k

(* A scan accepts the torn chunk when the file ends inside it: with two    *)
(* words of its header there, behind these; with all of it, before the     *)
(* record's end.                                                           *)
TornOK(m) == /\ chunks[m + 1].n < 4 => HeaderTorn(End(m) + 1)
             /\ chunks[m + 1].n >= 4 => BodyTorn(End(m) + 1)

LEMMA ScanTorn ==
    ASSUME Types, Layout, Contents, damaged = 0, Even, ~Mixed, NEW m, Edge(m),
           m < Len(chunks)
    PROVE  scan[End(m) + 1].ok <=> TornOK(m)
<1> DEFINE k == chunks[m + 1]
           o == End(m) + 1
<1>0. m \in 0 .. Len(chunks) /\ m + 1 \in DOMAIN chunks /\ Len(file) \in Nat
      /\ m \in Nat /\ Len(chunks) \in Nat
  BY TornHeader DEF Edge, Types
<1>1. /\ EvenChunk(k) /\ k.at = End(m) /\ k.n < k.rec.size
      /\ k.at + k.n <= Len(file)
      /\ k.n >= 4 => decodeRecordHeader(o)
  BY TornHeader
<1>2. o \in Nat /\ o = k.at + 1 /\ k.at \in Nat /\ k.n \in Nat
  BY <1>1 DEF EvenChunk
<1>3. scan[o] = ScanRound(scan, o) /\ ~Refused.ok /\ Scanned(<<>>).ok
  BY <1>2, ScanLoop DEF Refused, Scanned
<1>4. ~Readable(m + 1)
  BY DEF Edge, Readable
<1>5. End(m + 1) = k.at + k.n
  BY <1>0 DEF End
<1>6. TornOK(m) <=> /\ k.n < 4 => HeaderTorn(o)
                    /\ k.n >= 4 => BodyTorn(o)
  BY DEF TornOK
<1>7. CASE k.n < 4
  <2>0. k.n = 2
    <3>1. \A x \in Nat : x >= 2 /\ x < 4 /\ x % 2 = 0 => x = 2
      OBVIOUS
    <3>. QED
      BY <1>1, <1>7, <3>1 DEF EvenChunk
  <2>1. HeaderTorn(o) => scan[o].ok
    BY <1>3 DEF ScanRound
  <2>2. ASSUME ~HeaderTorn(o)
        PROVE  ~scan[o].ok
    <3>1. k.at + 4 <= Len(file) /\ ~(o > Len(file)) /\ End(m + 1) # Len(file)
      <4> HIDE DEF k, o
      <4>. QED
        BY <1>0, <1>2, <1>5, <2>0, <2>2 DEF HeaderTorn, RecordHeaderSize
    <3>2. m + 1 < Len(chunks)
      <4>1. m + 1 # Len(chunks)
        BY <1>0, <3>1, NothingBetween DEF Even
      <4>. QED
        BY <1>0, <4>1
    <3>3. (m + 1) + 1 \in DOMAIN chunks /\ m + 1 \in 0 .. Len(chunks)
      <4>1. \A x, y \in Nat : x + 1 < y => (x + 1) + 1 \in 1 .. y /\ x + 1 \in 0 .. y
        OBVIOUS
      <4>2. (m + 1) + 1 \in 1 .. Len(chunks) /\ m + 1 \in 0 .. Len(chunks)
        BY <1>0, <3>2, <4>1
      <4>. QED
        BY <4>2 DEF Types
    <3> DEFINE l == chunks[(m + 1) + 1]
    <3>4. l.at = k.at + k.n /\ EvenChunk(l) /\ ChunkFacts(l)
      BY <1>5, <3>2, <3>3, NothingBetween, EvenChunks, ChunkWords DEF Even
    <3>5. \A q \in 1 .. l.n : file[l.at + q] = Enc(l)[q]
      BY <3>3, Undamaged
    <3>6. l.rec.size \notin LooksLikeOp
      BY <1>0, <2>0, <3>3 DEF Mixed
    <3> HIDE DEF l
    <3>7. file[o + 3] = Enc(l)[2]
      <4>1. 2 \in 1 .. l.n /\ l.at + 2 = k.at + 4
        <5> HIDE DEF k, o
        <5>. QED
          BY <1>2, <2>0, <3>4 DEF EvenChunk
      <4>2. k.at + 4 = o + 3
        <5> HIDE DEF k, o
        <5>. QED
          BY <1>2
      <4>. QED
        BY <3>5, <4>1, <4>2
    <3>8. Enc(l)[2] = Field("length", l.rec.size)
      BY <3>4 DEF ChunkFacts, RecordOf
    <3>9. AsOp(file[o + 3]) = 0
      BY <3>6, <3>7, <3>8 DEF AsOp, Field
    <3>10. ~decodeRecordHeader(o)
      BY <3>9 DEF decodeRecordHeader
    <3>. QED
      BY <1>3, <2>2, <3>1, <3>10 DEF ScanRound
  <2>. QED
    BY <1>2, <1>6, <1>7, <2>1, <2>2
<1>8. CASE k.n >= 4
  <2>1. decodeRecordHeader(o) /\ ~HeaderTorn(o) /\ ~(o > Len(file))
    <3>1. decodeRecordHeader(o)
      BY <1>1, <1>8
    <3> HIDE DEF k, o
    <3>. QED
      BY <1>0, <1>1, <1>2, <1>8, <3>1 DEF HeaderTorn, RecordHeaderSize
  <2>2. BodyTorn(o) => scan[o].ok
    BY <1>3, <2>1 DEF ScanRound
  <2>3. ASSUME scan[o].ok
        PROVE  BodyTorn(o)
    <3>1. Ends(o)
      BY <1>0, <1>4, <2>3, ScanAt DEF Even
    <3>. QED
      BY <2>1, <3>1 DEF Ends
  <2>. QED
    BY <1>2, <1>6, <1>8, <2>2, <2>3
<1>. QED
  BY <1>2, <1>7, <1>8

LEMMA CellTorn ==
    ASSUME Types, Layout, Contents, damaged = 0, Even, NEW m, Edge(m), m < Len(chunks)
    PROVE  /\ W!EndsInside(AsFile, Cell(m + 1)) <=> TornOK(m)
           /\ Cell(m + 1).n >= 2 <=> chunks[m + 1].n >= 4
<1> DEFINE k == chunks[m + 1]
           c == Cell(m + 1)
           o == End(m) + 1
<1>1. /\ EvenChunk(k) /\ k.at = End(m)
      /\ k.n >= 4 => AsLength(file[End(m) + 2]) = k.rec.size
  BY TornHeader
<1>2. c.at = k.at \div 2 /\ c.n = k.n \div 2 /\ c.rec.size = k.rec.size \div 2
  BY DEF Cell
<1>3. AsFile.size = Len(file) \div 2 /\ Len(file) \in Nat /\ Len(file) % 2 = 0
  BY DEF AsFile, Even, Types
<1>4. End(m) \in Nat /\ End(m) + 1 + 1 = End(m) + 2
  BY <1>1 DEF EvenChunk
<1>5. W!EndsInside(AsFile, c) <=>
         IF c.n < 2 THEN AsFile.size - c.at < 2 ELSE AsFile.size - c.at < c.rec.size
  BY DEF W!EndsInside, W!RecordHeaderSize
<1>6. TornOK(m) <=> /\ k.n < 4 => End(m) + 1 + 4 - 1 > Len(file)
                    /\ k.n >= 4 => End(m) + 1 + k.rec.size - 1 > Len(file)
  BY <1>1, <1>4 DEF TornOK, HeaderTorn, BodyTorn, RecordHeaderSize
<1> HIDE DEF k, c, o
<1>7. /\ k.at \in Nat /\ k.n \in Nat /\ k.rec.size \in Nat
      /\ k.at % 2 = 0 /\ k.n % 2 = 0 /\ k.rec.size % 2 = 0
  BY <1>1 DEF EvenChunk
<1>8. \A a, n, s, l \in Nat : a % 2 = 0 /\ n % 2 = 0 /\ s % 2 = 0 /\ l % 2 = 0 =>
         /\ n \div 2 < 2 <=> n < 4
         /\ n \div 2 >= 2 <=> n >= 4
         /\ n < 4 \/ n >= 4
         /\ ~(n < 4 /\ n >= 4)
         /\ (l \div 2) - (a \div 2) < 2 <=> a + 1 + 4 - 1 > l
         /\ (l \div 2) - (a \div 2) < s \div 2 <=> a + 1 + s - 1 > l
  OBVIOUS
<1>9. /\ k.n \div 2 < 2 <=> k.n < 4
      /\ k.n \div 2 >= 2 <=> k.n >= 4
      /\ k.n < 4 \/ k.n >= 4
      /\ ~(k.n < 4 /\ k.n >= 4)
      /\ (Len(file) \div 2) - (k.at \div 2) < 2 <=> k.at + 1 + 4 - 1 > Len(file)
      /\ (Len(file) \div 2) - (k.at \div 2) < k.rec.size \div 2
            <=> k.at + 1 + k.rec.size - 1 > Len(file)
  BY <1>3, <1>7, <1>8
<1>10. W!EndsInside(AsFile, c) <=> TornOK(m)
  BY <1>1, <1>2, <1>3, <1>5, <1>6, <1>9
<1>11. c.n >= 2 <=> k.n >= 4
  BY <1>2, <1>9
<1>. QED
  BY <1>10, <1>11 DEF k, c

(* The number of the last record whose header a walk can read.             *)
Behind(m) == IF m < Len(chunks) /\ chunks[m + 1].n >= 4 THEN m + 1 ELSE m

LEMMA WalkEnd ==
    ASSUME SegmentInv, damaged = 0, Even, ~Mixed, NEW m, Edge(m), scan[End(m) + 1].ok
    PROVE  LatestFrom(m) = Behind(m)
<1> USE DEF SegmentInv
<1> DEFINE o == End(m) + 1
           k == chunks[m + 1]
<1>0. m \in 0 .. Len(chunks) /\ m \in Nat /\ Len(file) \in Nat /\ Len(chunks) \in Nat
  BY DEF Edge, Types
<1>1. CASE ~(m < Len(chunks))
  <2>1. m = Len(chunks)
    BY <1>0, <1>1
  <2>2. LatestFrom(m) = m
    BY <2>1, LatestAtEdge DEF Even
  <2>. QED
    BY <1>1, <2>2 DEF Behind
<1>2. CASE m < Len(chunks)
  <2>1. /\ m + 1 \in DOMAIN chunks /\ EvenChunk(k) /\ k.at = End(m) /\ k.n < k.rec.size
        /\ k.rec.size >= 5 /\ k.at + k.n <= Len(file)
        /\ k.n >= 4 => /\ AsLength(file[End(m) + 2]) = k.rec.size
                       /\ AsLsn(file[End(m) + 3]) = k.rec.lsn
    BY <1>2, TornHeader
  <2>2. TornOK(m)
    BY <1>2, ScanTorn
  <2>3. /\ k.n < 4 => HeaderTorn(o)
        /\ k.n >= 4 => BodyTorn(o)
    BY <2>2 DEF TornOK
  <2>4. k.rec.lsn = m + 1
    <3>1. \A j \in 1 .. (m + 1) - 1 : Whole(chunks[j])
      <4>1. (m + 1) - 1 = m
        BY <1>0
      <4>. QED
        BY <4>1 DEF Edge, WholeTo
    <3>. QED
      BY <2>1, <3>1 DEF Numbered
  <2>5. /\ o \in Nat /\ o = k.at + 1 /\ k.at \in Nat /\ k.n \in Nat /\ k.rec.size \in Nat
        /\ o + 1 = End(m) + 2 /\ o + 2 = End(m) + 3
    BY <2>1 DEF EvenChunk
  <2>6. walk[o] = WalkRound(walk, o)
    BY <2>5, WalkLoop
  <2>7. LatestFrom(m) = IF walk[o] = <<>> THEN m ELSE Last(walk[o])
    BY DEF LatestFrom
  <2>8. Behind(m) = IF k.n >= 4 THEN m + 1 ELSE m
    BY <1>2 DEF Behind
  <2> HIDE DEF k, o
  <2>9. CASE k.n < 4
    <3>1. WalkEnds(o)
      BY <2>3, <2>9 DEF WalkEnds, HeaderTorn
    <3>. QED
      BY <2>5, <2>6, <2>7, <2>8, <2>9, <3>1 DEF WalkRound
  <2>10. CASE k.n >= 4
    <3>1. AsLength(file[o + 1]) = k.rec.size /\ AsLsn(file[o + 2]) = m + 1 /\ BodyTorn(o)
      BY <2>1, <2>3, <2>4, <2>5, <2>10
    <3>2. ~WalkEnds(o)
      <4>1. o + 4 - 1 <= Len(file)
        <5>1. \A a, n, l \in Nat : n >= 4 /\ a + n <= l => a + 1 + 4 - 1 <= l
          OBVIOUS
        <5>. QED
          BY <1>0, <2>1, <2>5, <2>10, <5>1
      <4>2. ~(o + 4 - 1 > Len(file)) /\ ~(k.rec.size < 5)
        <5>1. o + 4 - 1 \in Nat
          BY <2>5
        <5>2. Len(file) \in Nat /\ k.rec.size \in Nat /\ k.rec.size >= 5
          BY <1>0, <2>1, <2>5
        <5>. QED
          BY <4>1, <5>1, <5>2
      <4>. QED
        BY <3>1, <4>2 DEF WalkEnds, RecordHeaderSize, MinRecordLength
    <3>3. walk[o] = <<m + 1>> \o walk[o + k.rec.size]
      BY <2>6, <3>1, <3>2 DEF WalkRound
    <3>4. o + k.rec.size \in Nat /\ o + k.rec.size + 4 - 1 > Len(file)
      <4>1. o + k.rec.size - 1 > Len(file)
        BY <3>1 DEF BodyTorn
      <4>2. \A a, n, l \in Nat : a + n - 1 > l => a + n \in Nat /\ a + n + 4 - 1 > l
        OBVIOUS
      <4>. QED
        BY <1>0, <2>5, <4>1, <4>2
    <3>5. WalkEnds(o + k.rec.size)
      BY <3>4 DEF WalkEnds, RecordHeaderSize
    <3>6. walk[o + k.rec.size] = <<>>
      BY <3>4, <3>5, WalkLoop DEF WalkRound
    <3>7. <<>> \in Seq(Nat) /\ m + 1 \in Nat
      BY <1>0
    <3>. QED
      BY <2>7, <2>8, <2>10, <3>3, <3>6, <3>7, LastOf
  <2>. QED
    BY <2>5, <2>9, <2>10
<1>. QED
  BY <1>1, <1>2

(* Module WAL finds the same number.                                       *)
LEMMA CellLatest ==
    ASSUME SegmentInv, damaged = 0, Even, NEW m, Edge(m)
    PROVE  W!GetLatestLSN(AsFile) = Behind(m)
<1> USE DEF SegmentInv
<1> DEFINE P == W!WholePrefix(AsFile)
           F == {t \in W!Torn(AsFile) : t = W!FirstTorn(AsFile) /\ t.n >= 2}
           S == P \cup F
           q == Behind(m)
<1>0. m \in 0 .. Len(chunks) /\ m \in Nat /\ Len(chunks) \in Nat
      /\ DOMAIN chunks = 1 .. Len(chunks)
  BY DEF Edge, Types
<1>a. ~(m < Len(chunks)) => m = Len(chunks)
  <2>1. \A x \in Nat : \A y \in 0 .. x : y < x \/ y = x
    OBVIOUS
  <2>. QED
    BY <1>0, <2>1
<1>1. P = {Cell(i) : i \in 1 .. m}
  BY CellPrefix
<1>2. q \in 0 .. Len(chunks) /\ m <= q
  BY <1>0 DEF Behind
<1>3. F = IF q = m THEN {} ELSE {Cell(m + 1)}
  <2>1. CASE ~(m < Len(chunks))
    <3>1. m = Len(chunks)
      BY <1>a, <2>1
    <3>2. W!Torn(AsFile) = {}
      BY <3>1, CellPrefix
    <3>. QED
      BY <2>1, <3>2 DEF Behind
  <2>2. CASE m < Len(chunks)
    <3>1. W!FirstTorn(AsFile) = Cell(m + 1)
      BY <2>2, CellPrefix
    <3>2. Cell(m + 1) \in W!Torn(AsFile)
      <4>1. m + 1 \in DOMAIN chunks /\ ~Whole(chunks[m + 1])
        BY <1>0, <2>2 DEF Edge
      <4>. QED
        BY <4>1, CellFile
    <3>3. Cell(m + 1).n >= 2 <=> chunks[m + 1].n >= 4
      BY <2>2, CellTorn
    <3>4. Behind(m) = (IF chunks[m + 1].n >= 4 THEN m + 1 ELSE m) /\ m + 1 # m
      BY <1>0, <2>2 DEF Behind
    <3>. QED
      BY <3>1, <3>2, <3>3, <3>4
  <2>. QED
    BY <2>1, <2>2
<1>4. S = {Cell(i) : i \in 1 .. q}
  <2>1. q = m \/ q = m + 1
    BY DEF Behind
  <2>2. 1 .. m + 1 = (1 .. m) \cup {m + 1} /\ m + 1 # m
    BY <1>0
  <2> HIDE DEF P, F, q
  <2>. QED
    BY <1>1, <1>3, <2>1, <2>2
<1>5. W!GetLatestLSN(AsFile) =
         IF \E k \in S : \A j \in S : j.at <= k.at
         THEN (CHOOSE k \in S : \A j \in S : j.at <= k.at).rec.lsn
         ELSE 0
  BY DEF W!GetLatestLSN, W!RecordHeaderSize
<1> HIDE DEF S, P, F, q
<1>6. CASE q = 0
  <2>1. S = {}
    <3>1. 1 .. 0 = {}
      OBVIOUS
    <3>. QED
      BY <1>4, <1>6, <3>1
  <2>. QED
    BY <1>5, <1>6, <2>1 DEF q
<1>7. CASE q # 0
  <2>1. q \in 1 .. q /\ q \in DOMAIN chunks /\ q \in Nat
        /\ \A i \in 1 .. q : i \in DOMAIN chunks /\ i <= q
    BY <1>0, <1>2, <1>7
  <2>2. Cell(q) \in S
    BY <1>4, <2>1
  <2>3. \A j \in S : j.at <= Cell(q).at
    BY <1>4, <2>1, CellOrder
  <2>4. ASSUME NEW k \in S, \A j \in S : j.at <= k.at
        PROVE  k = Cell(q)
    <3>1. PICK i \in 1 .. q : k = Cell(i)
      BY <1>4
    <3>2. Cell(q).at <= Cell(i).at
      BY <2>2, <2>4, <3>1
    <3>3. q <= i
      BY <2>1, <3>2, CellOrder
    <3>. QED
      BY <2>1, <3>1, <3>3
  <2>5. (CHOOSE k \in S : \A j \in S : j.at <= k.at) = Cell(q)
    BY <2>2, <2>3, <2>4
  <2>6. chunks[q].rec.lsn = q
    <3>1. \A j \in 1 .. q - 1 : Whole(chunks[j])
      <4>1. \A j \in 1 .. q - 1 : j \in 1 .. m
        BY <1>0, <1>2 DEF q, Behind
      <4>. QED
        BY <4>1 DEF Edge, WholeTo
    <3>. QED
      BY <2>1, <3>1 DEF Numbered
  <2>7. Cell(q).rec.lsn = q
    BY <2>6 DEF Cell
  <2>. QED
    BY <1>5, <2>2, <2>3, <2>5, <2>7 DEF q
<1>. QED
  BY <1>6, <1>7

LEMMA CellsSuffice ==
    ASSUME SegmentInv
    PROVE  ChunksSuffice
<1> USE DEF SegmentInv
<1> SUFFICES ASSUME damaged = 0, InCells, Len(file) % 2 = 0, ~Mixed
             PROVE  /\ W!ScanOK(AsFile) = scanSegmentFile.ok
                    /\ scanSegmentFile.ok =>
                          /\ Len(scanSegmentFile.records) = Cardinality(W!WholePrefix(AsFile))
                          /\ W!GetLatestLSN(AsFile) = getLatestLSN
  BY DEF ChunksSuffice
<1>0. Len(file) \in Nat /\ AsFile.size = Len(file) \div 2
  BY DEF Types, AsFile
<1>1. CASE Len(file) < 2
  <2>1. Len(file) = 0
    BY <1>0, <1>1
  <2>2. scanSegmentFile = Refused
    BY <2>1 DEF scanSegmentFile, SegmentHeaderOK, SegmentHeaderSize
  <2>3. ~(AsFile.size >= 1)
    BY <1>0, <2>1
  <2>4. W!ScanOK(AsFile) = FALSE
    BY <2>3 DEF W!ScanOK, W!SegmentHeaderSize
  <2>. QED
    BY <2>2, <2>4 DEF Refused
<1>2. CASE Len(file) >= 2
  <2>1. Even
    BY <1>2 DEF Even
  <2>2. PICK m : Edge(m)
    BY EdgeExists
  <2>3. m \in 0 .. Len(chunks) /\ m \in Nat /\ Len(chunks) \in Nat
    BY <2>2 DEF Edge, Types
  <2>a. ~(m < Len(chunks)) => m = Len(chunks)
    BY <2>3
  <2>4. ASSUME NEW j \in 1 .. m
        PROVE  j \in DOMAIN chunks /\ Readable(j) /\ chunks[j].rec.lsn = j
    <3>1. j \in DOMAIN chunks
      <4>1. j \in 1 .. Len(chunks)
        BY <2>3
      <4>. QED
        BY <4>1 DEF Types
    <3>2. Whole(chunks[j]) /\ \A i \in 1 .. j - 1 : Whole(chunks[i])
      <4>1. \A i \in 1 .. j - 1 : i \in 1 .. m
        BY <2>3
      <4>. QED
        BY <2>2, <4>1 DEF Edge, WholeTo
    <3>. QED
      BY <3>1, <3>2, AllIntact DEF Numbered
  <2>5. scanSegmentFile = scan[End(0) + 1]
    <3>1. Holds(1, encodeSegmentHeader[1])
      BY <1>2 DEF Contents, SegmentHeaderSize
    <3>2. file[1] = encodeSegmentHeader[1]
      BY <3>1 DEF Holds
    <3>3. AsMagic(file[1])
      BY <3>2 DEF encodeSegmentHeader, AsMagic, Field
    <3>. QED
      BY <1>2, <3>3 DEF scanSegmentFile, SegmentHeaderOK, SegmentHeaderSize, End
  <2>6. scanSegmentFile.ok <=> scan[End(m) + 1].ok
    BY <1>2, <2>3, <2>4, <2>5, ScanReaches, ScanPasses
  <2>7. scan[End(m) + 1].ok <=> (m < Len(chunks) => TornOK(m))
    <3>1. CASE m < Len(chunks)
      BY <2>1, <2>2, <3>1, ScanTorn
    <3>2. CASE m = Len(chunks)
      <4>1. scan[End(m) + 1] = Scanned(<<>>)
        BY <1>2, <2>2, <3>2, TornEnd
      <4>. QED
        BY <2>3, <3>2, <4>1 DEF Scanned
    <3>. QED
      BY <2>a, <3>1, <3>2
  <2>8. \A i \in DOMAIN chunks : W!HeaderAccepted(Cell(i).rec)
    <3>1. ASSUME NEW i \in DOMAIN chunks
          PROVE  W!HeaderAccepted(Cell(i).rec)
      <4>1. chunks[i].rec.size \in Nat /\ chunks[i].rec.size <= MaxSegment
        BY <2>1, EvenChunks DEF EvenChunk
      <4>2. \A x, y \in Nat : x <= y => x \div 2 <= y \div 2
        OBVIOUS
      <4>3. chunks[i].rec.size \div 2 <= MaxSegment \div 2
        BY <4>1, <4>2, BoundAssumption
      <4>. QED
        BY <4>3 DEF W!HeaderAccepted, Cell
    <3>. QED
      BY <3>1
  <2>9. W!ScanOK(AsFile) <=> (m < Len(chunks) => TornOK(m))
    <3>1. AsFile.size >= 1
      BY <1>0, <1>2
    <3>2. \A k \in W!WholePrefix(AsFile) : W!HeaderAccepted(k.rec)
      BY <2>1, <2>2, <2>4, <2>8, CellPrefix
    <3>3. W!ScanOK(AsFile) <=>
             (W!Torn(AsFile) # {} =>
                 /\ W!EndsInside(AsFile, W!FirstTorn(AsFile))
                 /\ W!FirstTorn(AsFile).n >= 2 => W!HeaderAccepted(W!FirstTorn(AsFile).rec))
      BY <3>1, <3>2 DEF W!ScanOK, W!SegmentHeaderSize, W!RecordHeaderSize
    <3>4. CASE m < Len(chunks)
      <4>1. W!Torn(AsFile) # {} /\ W!FirstTorn(AsFile) = Cell(m + 1)
        BY <2>1, <2>2, <3>4, CellPrefix
      <4>2. W!EndsInside(AsFile, Cell(m + 1)) <=> TornOK(m)
        BY <2>1, <2>2, <3>4, CellTorn
      <4>3. W!HeaderAccepted(Cell(m + 1).rec)
        BY <2>1, <2>2, <2>8, <3>4, TornHeader
      <4>. QED
        BY <3>3, <3>4, <4>1, <4>2, <4>3
    <3>5. CASE m = Len(chunks)
      <4>1. W!Torn(AsFile) = {} /\ ~(m < Len(chunks))
        BY <2>1, <2>2, <2>3, <3>5, CellPrefix
      <4>. QED
        BY <3>3, <4>1
    <3>. QED
      BY <2>a, <3>4, <3>5
  <2>10. scanSegmentFile.ok \in BOOLEAN /\ W!ScanOK(AsFile) \in BOOLEAN
    <3>1. End(0) + 1 \in Nat
      BY DEF End, SegmentHeaderSize
    <3>2. scanSegmentFile.ok \in BOOLEAN
      <4>1. scan[End(0) + 1] = Refused \/ \E s : scan[End(0) + 1] = Scanned(s)
        BY <3>1, ScanShape
      <4>2. Refused.ok \in BOOLEAN
        BY DEF Refused
      <4>3. \A s : Scanned(s).ok \in BOOLEAN
        BY DEF Scanned
      <4>. QED
        BY <2>5, <4>1, <4>2, <4>3
    <3>3. W!ScanOK(AsFile) \in BOOLEAN
      BY DEF W!ScanOK
    <3>. QED
      BY <3>2, <3>3
  <2>11. W!ScanOK(AsFile) = scanSegmentFile.ok
    BY <2>6, <2>7, <2>9, <2>10
  <2>12. ASSUME scanSegmentFile.ok
         PROVE  /\ Len(scanSegmentFile.records) = Cardinality(W!WholePrefix(AsFile))
                /\ W!GetLatestLSN(AsFile) = getLatestLSN
    <3>1. scan[End(m) + 1].ok
      BY <2>6, <2>12
    <3>2. scan[End(m) + 1] = Scanned(<<>>)
      <4>1. ~(m < Len(chunks) /\ Readable(m + 1))
        BY <2>2 DEF Edge, Readable
      <4>. QED
        BY <1>2, <2>3, <3>1, <4>1, ScanAt
    <3>3. 0 \in 0 .. m /\ m - 0 = m
      BY <2>3
    <3>4. Len(scan[End(0) + 1].records) = m
      BY <1>2, <2>2, <3>2, <3>3, ScanComplete
    <3>5. Cardinality(W!WholePrefix(AsFile)) = m
      BY <2>1, <2>2, CellPrefix
    <3>6. W!GetLatestLSN(AsFile) = Behind(m)
      BY <2>1, <2>2, CellLatest
    <3>7. LatestFrom(m) = Behind(m)
      BY <2>1, <2>2, <3>1, WalkEnd
    <3>8. getLatestLSN = LatestFrom(m)
      BY <1>2, <2>3, <2>4, LatestOver, LatestType
    <3>. QED
      BY <2>5, <3>4, <3>5, <3>6, <3>7, <3>8
  <2>. QED
    BY <2>11, <2>12
<1>. QED
  BY <1>0, <1>1, <1>2

-----------------------------------------------------------------------------
(* The results                                                             *)

(* In every state each word of the file is the word of a known append at a *)
(* known place, or the one that was damaged; records that nothing torn or  *)
(* damaged precedes are numbered 1, 2, ..., and a process that opened an   *)
(* undamaged file (NewWAL, Recover) goes on behind them.                   *)
THEOREM InvariantHolds == Spec => []SegmentInv
<1>1. Init => SegmentInv
  BY InitInv
<1>2. SegmentInv /\ [Next]_vars => SegmentInv'
  BY StepInv
<1>. QED
  BY <1>1, <1>2, PTL DEF Spec

(* The types hold, and a segment never grows beyond maxSegmentFileSize     *)
(* (AppendRecord rolls over first).                                        *)
THEOREM TypeCorrect == Spec => []TypeOK
<1>1. SegmentInv => TypeOK
  <2> SUFFICES ASSUME SegmentInv PROVE TypeOK
    OBVIOUS
  <2>1. Types /\ Layout
    BY DEF SegmentInv
  <2>2. ASSUME NEW i \in DOMAIN file
        PROVE  file[i].field \in {"magic", "segid", "length", "lsn", "op", "data", "crc"}
    <3>1. file[i] \in Word
      BY <2>1 DEF Types
    <3>. QED
      BY <3>1 DEF Word, BodyWord, CrcWord
  <2>3. \A i \in DOMAIN chunks : /\ chunks[i].n \in 1 .. chunks[i].rec.size
                                 /\ chunks[i].at + chunks[i].n <= Len(file)
    BY <2>1 DEF Layout
  <2>. QED
    BY <2>1, <2>2, <2>3 DEF TypeOK, Types
<1>. QED
  BY <1>1, InvariantHolds, PTL

(* scanSegmentFile never returns a record that was not written, or one     *)
(* with another content, number or place, whatever was torn off, cut off   *)
(* or damaged.                                                             *)
THEOREM NothingForged == Spec => []NoForgery
<1>1. SegmentInv => NoForgery
  BY ForgesNothing DEF SegmentInv
<1>. QED
  BY <1>1, InvariantHolds, PTL

(* A segment torn at its end at most gives back every whole record, and    *)
(* each decodes to the payload that was encoded.                           *)
THEOREM TornTailIsDiscarded == Spec => []TornTailDiscarded
<1>1. SegmentInv => TornTailDiscarded
  BY DiscardsTornTail DEF SegmentInv
<1>. QED
  BY <1>1, InvariantHolds, PTL

(* Of a record the scan reaches, a damaged word is noticed wherever it is, *)
(* the length field excepted.                                              *)
THEOREM DamageIsRefused == Spec => []DamageRefused
<1>1. SegmentInv => DamageRefused
  BY RefusesDamage DEF SegmentInv
<1>. QED
  BY <1>1, InvariantHolds, PTL

(* The walk of getLatestLSN, which checks neither magic nor checksum,      *)
(* never ends before the number of a record that a scan returns.           *)
THEOREM LsnIsFresh == Spec => []LsnFresh
<1>1. SegmentInv => LsnFresh
  BY GoesOnBehind
<1>. QED
  BY <1>1, InvariantHolds, PTL

(* What module WAL takes for the content of a segment, a set of chunks in  *)
(* cells of two words, says of it what its words say: whether a scan       *)
(* accepts it, how many records that returns, and which LSN the walk of    *)
(* getLatestLSN ends with.                                                 *)
THEOREM ChunksAreEnough == Spec => []ChunksSuffice
<1>1. SegmentInv => ChunksSuffice
  BY CellsSuffice
<1>. QED
  BY <1>1, InvariantHolds, PTL

=============================================================================
