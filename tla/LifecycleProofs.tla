--------------------------- MODULE LifecycleProofs ---------------------------
(***************************************************************************)
(* What holds of the creation and the opening of a collection for any      *)
(* number of callers, deaths and failing file operations: the type         *)
(* invariant, with one header per caller at most; and, unless calls        *)
(* overlapped its creation, that a collection that was returned keeps its  *)
(* configuration and opens ever after.                                     *)
(***************************************************************************)
EXTENDS Lifecycle, FiniteSetTheorems, TLAPS

-----------------------------------------------------------------------------
(* The type invariant.  Only a caller that found no segment writes a       *)
(* header, and once there is a segment nobody finds none: so the headers   *)
(* written and the callers about to write one are no more than there are   *)
(* callers.                                                                *)

AboutToWrite == {p \in Callers : pc[p] \in {"createSegment", "header"}}

HeadersBounded ==
    /\ headers + Cardinality(AboutToWrite) <= Cardinality(Callers)
    /\ ~segment => headers = 0
    /\ \A p \in Callers : pc[p] = "header" => segment

(* A caller at work has a configuration, but for an open that is about to  *)
(* read it.                                                                *)
Configured ==
    \A p \in Callers :
        /\ pc[p] \notin {"idle", "load", "refused"} => cfg[p] \in Configs
        /\ pc[p] = "load" => kind[p] = "open"

TypeInv == TypeOK /\ raced \in BOOLEAN /\ HeadersBounded /\ Configured

(* A configuration is none of the other things config.json may hold.       *)
LEMMA ConfigsApart ==
    ASSUME NEW c \in Configs
    PROVE  c \notin {Absent, Torn, NoConfig}
BY ConfigAssumption DEF Configs, Absent, Torn, NoConfig, No

LEMMA CallersCounted ==
    ASSUME NEW S, S \subseteq Callers
    PROVE  /\ IsFiniteSet(S) /\ Cardinality(S) \in Nat
           /\ Cardinality(Callers) \in Nat
           /\ Cardinality(S) <= Cardinality(Callers)
BY BoundAssumption, FS_Subset, FS_CardinalityType

LEMMA TypeInit == Init => TypeInv
<1> SUFFICES ASSUME Init PROVE TypeInv
  OBVIOUS
<1>1. AboutToWrite = {}
  BY DEF Init, AboutToWrite
<1>2. headers + Cardinality(AboutToWrite) <= Cardinality(Callers)
  BY <1>1, CallersCounted DEF Init
<1>3. headers \in 0 .. Cardinality(Callers) /\ stops \in 0 .. MaxStops
  BY BoundAssumption, CallersCounted DEF Init
<1>4. TypeOK
  BY <1>3 DEF Init, TypeOK
<1>. QED
  BY <1>2, <1>4 DEF Init, TypeInv, HeadersBounded, Configured

(* A step in which nobody comes to be about to write a header, and none is *)
(* written, keeps the bound.                                               *)
LEMMA NoneWritten ==
    ASSUME TypeInv, headers' = headers, segment' \in BOOLEAN,
           segment => segment',
           AboutToWrite' \subseteq AboutToWrite,
           \A p \in Callers : pc'[p] = "header" => segment'
    PROVE  HeadersBounded'
<1>1. Cardinality(AboutToWrite') <= Cardinality(AboutToWrite)
  BY CallersCounted, FS_Subset DEF AboutToWrite
<1>2. Cardinality(AboutToWrite) \in Nat /\ Cardinality(AboutToWrite') \in Nat
      /\ Cardinality(Callers) \in Nat
  BY CallersCounted DEF AboutToWrite
<1>3. headers \in Nat
  BY DEF TypeInv, TypeOK
<1>. QED
  BY <1>1, <1>2, <1>3 DEF TypeInv, HeadersBounded

(* A caller about to write a header has one left.                          *)
LEMMA AnotherHeader ==
    ASSUME TypeInv, NEW p \in Callers, pc[p] = "header"
    PROVE  headers + 1 \in 0 .. Cardinality(Callers)
<1>1. Cardinality(AboutToWrite) \in Nat /\ IsFiniteSet(AboutToWrite)
      /\ Cardinality(Callers) \in Nat
  BY CallersCounted DEF AboutToWrite
<1>2. p \in AboutToWrite
  BY DEF AboutToWrite
<1>3. Cardinality(AboutToWrite) # 0
  BY <1>1, <1>2, FS_EmptySet
<1>. QED
  BY <1>1, <1>3 DEF TypeInv, TypeOK, HeadersBounded

(* A caller at work has a configuration.                                   *)
LEMMA ConfiguredStep ==
    ASSUME TypeInv, [Next]_vars
    PROVE  Configured'
<1> USE DEF TypeInv, TypeOK, Configured, disk, callers, At, Die
<1>1. ASSUME NEW p \in Callers, CreateCollection(p)
      PROVE  Configured'
  BY <1>1 DEF CreateCollection
<1>2. ASSUME NEW p \in Callers, Main(p)
      PROVE  Configured'
  BY <1>2 DEF Main
<1>3. ASSUME NEW p \in Callers, Stat(p)
      PROVE  Configured'
  BY <1>3 DEF Stat, Goto, Return
<1>4. ASSUME NEW p \in Callers, TruncateConfig(p)
      PROVE  Configured'
  BY <1>4 DEF TruncateConfig, Goto
<1>5. ASSUME NEW p \in Callers, SaveConfig(p)
      PROVE  Configured'
  BY <1>5 DEF SaveConfig, Goto
<1>6. ASSUME NEW p \in Callers, OpenCollection(p)
      PROVE  Configured'
  BY <1>6 DEF OpenCollection
<1>7. ASSUME NEW p \in Callers, LoadConfig(p)
      PROVE  Configured'
  BY <1>7 DEF LoadConfig, Goto, Return
<1>8. ASSUME NEW p \in Callers, CreateIndex(p)
      PROVE  Configured'
  BY <1>8 DEF CreateIndex, Goto
<1>9. ASSUME NEW p \in Callers, Panic(p)
      PROVE  Configured'
  BY <1>9 DEF Panic
<1>10. ASSUME NEW p \in Callers, ScanDirectory(p)
      PROVE  Configured'
  BY <1>10 DEF ScanDirectory, Goto
<1>11. ASSUME NEW p \in Callers, CreateSegment(p)
      PROVE  Configured'
  BY <1>11 DEF CreateSegment, Goto
<1>12. ASSUME NEW p \in Callers, WriteHeader(p)
      PROVE  Configured'
  BY <1>12 DEF WriteHeader, Goto
<1>13. ASSUME NEW p \in Callers, Created(p)
      PROVE  Configured'
  BY <1>13 DEF Created, Return
<1>14. ASSUME NEW p \in Callers, Replay(p)
      PROVE  Configured'
  BY <1>14 DEF Replay, Goto, Return
<1>15. ASSUME NEW p \in Callers, Refuse(p)
      PROVE  Configured'
  BY <1>15 DEF Refuse, Return
<1>16. ASSUME NEW p \in Callers, FileError(p)
      PROVE  Configured'
  BY <1>16 DEF FileError, Return
<1>17. ASSUME Stop
      PROVE  Configured'
  BY <1>17 DEF Stop
<1>18. CASE UNCHANGED vars
  BY <1>18 DEF vars
<1>. QED
  BY <1>1, <1>2, <1>3, <1>4, <1>5, <1>6, <1>7, <1>8, <1>9, <1>10, <1>11,
     <1>12, <1>13, <1>14, <1>15, <1>16, <1>17, <1>18 DEF Next, Step

(* Every step keeps the types; config and cfg only ever get configurations *)
(* that were asked for.                                                    *)
LEMMA TypeOKStep ==
    ASSUME TypeInv, [Next]_vars
    PROVE  TypeOK' /\ raced' \in BOOLEAN
<1> USE DEF TypeInv, TypeOK, disk, callers, At, Die
<1>1. raced' \in BOOLEAN
  BY DEF Next, vars
<1>2. ASSUME Step
      PROVE  TypeOK'
  <2>1. ASSUME NEW p \in Callers, CreateCollection(p)
        PROVE  TypeOK'
    BY <2>1 DEF CreateCollection
  <2>2. ASSUME NEW p \in Callers, Main(p)
        PROVE  TypeOK'
    BY <2>2 DEF Main
  <2>3. ASSUME NEW p \in Callers, Stat(p)
        PROVE  TypeOK'
    BY <2>3 DEF Stat, Goto, Return
  <2>4. ASSUME NEW p \in Callers, TruncateConfig(p)
        PROVE  TypeOK'
    BY <2>4 DEF TruncateConfig, Goto
  <2>5. ASSUME NEW p \in Callers, SaveConfig(p)
        PROVE  TypeOK'
    BY <2>5 DEF SaveConfig, Goto, Configured
  <2>6. ASSUME NEW p \in Callers, OpenCollection(p)
        PROVE  TypeOK'
    BY <2>6 DEF OpenCollection
  <2>7. ASSUME NEW p \in Callers, LoadConfig(p)
        PROVE  TypeOK'
    BY <2>7 DEF LoadConfig, Goto, Return
  <2>8. ASSUME NEW p \in Callers, CreateIndex(p)
        PROVE  TypeOK'
    BY <2>8 DEF CreateIndex, Goto
  <2>9. ASSUME NEW p \in Callers, Panic(p)
        PROVE  TypeOK'
    BY <2>9 DEF Panic
  <2>10. ASSUME NEW p \in Callers, ScanDirectory(p)
        PROVE  TypeOK'
    BY <2>10 DEF ScanDirectory, Goto
  <2>11. ASSUME NEW p \in Callers, CreateSegment(p)
        PROVE  TypeOK'
    BY <2>11 DEF CreateSegment, Goto
  <2>12. ASSUME NEW p \in Callers, WriteHeader(p)
        PROVE  TypeOK'
    <3>1. headers + 1 \in 0 .. Cardinality(Callers)
      BY <2>12, AnotherHeader DEF WriteHeader
    <3>. QED
      BY <2>12, <3>1 DEF WriteHeader, Goto
  <2>13. ASSUME NEW p \in Callers, Created(p)
        PROVE  TypeOK'
    BY <2>13 DEF Created, Return
  <2>14. ASSUME NEW p \in Callers, Replay(p)
        PROVE  TypeOK'
    BY <2>14 DEF Replay, Goto, Return
  <2>15. ASSUME NEW p \in Callers, Refuse(p)
        PROVE  TypeOK'
    BY <2>15 DEF Refuse, Return
  <2>16. ASSUME NEW p \in Callers, FileError(p)
        PROVE  TypeOK'
    BY <2>16 DEF FileError, Return
  <2>17. ASSUME Stop
        PROVE  TypeOK'
    BY <2>17, BoundAssumption DEF Stop
  <2>. QED
    BY <1>2, <2>1, <2>2, <2>3, <2>4, <2>5, <2>6, <2>7, <2>8, <2>9, <2>10,
       <2>11, <2>12, <2>13, <2>14, <2>15, <2>16, <2>17 DEF Step
<1>3. CASE UNCHANGED vars
  BY <1>3 DEF vars
<1>. QED
  BY <1>2, <1>3 DEF Next

(* A header is written by a caller that leaves AboutToWrite; a caller      *)
(* joins it only while no header was written.                              *)
LEMMA HeadersStep ==
    ASSUME TypeInv, [Next]_vars, TypeOK'
    PROVE  HeadersBounded'
<1> USE DEF TypeInv, TypeOK, disk, callers, At, Die
<1>1. ASSUME NEW p \in Callers, CreateCollection(p)
      PROVE  HeadersBounded'
  BY <1>1 DEF CreateCollection, HeadersBounded, AboutToWrite
<1>2. ASSUME NEW p \in Callers, Main(p)
      PROVE  HeadersBounded'
  BY <1>2 DEF Main, HeadersBounded, AboutToWrite
<1>3. ASSUME NEW p \in Callers, Stat(p)
      PROVE  HeadersBounded'
  BY <1>3, NoneWritten DEF Stat, Goto, Return, HeadersBounded, AboutToWrite
<1>4. ASSUME NEW p \in Callers, TruncateConfig(p)
      PROVE  HeadersBounded'
  BY <1>4 DEF TruncateConfig, Goto, HeadersBounded, AboutToWrite
<1>5. ASSUME NEW p \in Callers, SaveConfig(p)
      PROVE  HeadersBounded'
  BY <1>5 DEF SaveConfig, Goto, HeadersBounded, AboutToWrite
<1>6. ASSUME NEW p \in Callers, OpenCollection(p)
      PROVE  HeadersBounded'
  BY <1>6 DEF OpenCollection, HeadersBounded, AboutToWrite
<1>7. ASSUME NEW p \in Callers, LoadConfig(p)
      PROVE  HeadersBounded'
  BY <1>7 DEF LoadConfig, Goto, Return, HeadersBounded, AboutToWrite
<1>8. ASSUME NEW p \in Callers, CreateIndex(p)
      PROVE  HeadersBounded'
  BY <1>8 DEF CreateIndex, Goto, HeadersBounded, AboutToWrite
<1>9. ASSUME NEW p \in Callers, Panic(p)
      PROVE  HeadersBounded'
  BY <1>9, NoneWritten DEF Panic, AboutToWrite
<1>10. ASSUME NEW p \in Callers, ScanDirectory(p)
      PROVE  HeadersBounded'
  <2>1. CASE segment
    <3>1. AboutToWrite' \subseteq AboutToWrite
      BY <1>10, <2>1 DEF ScanDirectory, Goto, AboutToWrite
    <3>. QED
      BY <1>10, <2>1, <3>1, NoneWritten DEF ScanDirectory
  <2>2. CASE ~segment
    <3>1. headers' = 0 /\ ~segment'
      BY <1>10, <2>2 DEF ScanDirectory, HeadersBounded
    <3>2. /\ Cardinality(AboutToWrite') \in Nat
          /\ Cardinality(AboutToWrite') <= Cardinality(Callers)
      BY CallersCounted DEF AboutToWrite
    <3>3. \A q \in Callers : pc'[q] # "header"
      BY <1>10, <2>2 DEF ScanDirectory, Goto, HeadersBounded
    <3>. QED
      BY <3>1, <3>2, <3>3 DEF HeadersBounded
  <2>. QED
    BY <2>1, <2>2
<1>11. ASSUME NEW p \in Callers, CreateSegment(p)
      PROVE  HeadersBounded'
  BY <1>11, NoneWritten DEF CreateSegment, Goto, AboutToWrite
<1>12. ASSUME NEW p \in Callers, WriteHeader(p)
      PROVE  HeadersBounded'
  <2>0. IsFiniteSet(AboutToWrite) /\ Cardinality(AboutToWrite) \in Nat
        /\ Cardinality(Callers) \in Nat
    BY CallersCounted DEF AboutToWrite
  <2>1. p \in AboutToWrite /\ AboutToWrite' = AboutToWrite \ {p}
    BY <1>12 DEF WriteHeader, Goto, AboutToWrite
  <2>2. /\ Cardinality(AboutToWrite') = Cardinality(AboutToWrite) - 1
        /\ Cardinality(AboutToWrite) \in Nat /\ Cardinality(Callers) \in Nat
    BY <2>1, <2>0, FS_RemoveElement
  <2>3. headers \in Nat /\ headers' = headers + 1
    BY <1>12 DEF WriteHeader
  <2>4. headers' + Cardinality(AboutToWrite') <= Cardinality(Callers)
    BY <2>2, <2>3 DEF HeadersBounded
  <2>. QED
    BY <1>12, <2>4 DEF WriteHeader, HeadersBounded
<1>13. ASSUME NEW p \in Callers, Created(p)
      PROVE  HeadersBounded'
  BY <1>13, NoneWritten DEF Created, Return, HeadersBounded, AboutToWrite
<1>14. ASSUME NEW p \in Callers, Replay(p)
      PROVE  HeadersBounded'
  BY <1>14 DEF Replay, Goto, Return, HeadersBounded, AboutToWrite
<1>15. ASSUME NEW p \in Callers, Refuse(p)
      PROVE  HeadersBounded'
  BY <1>15, NoneWritten DEF Refuse, Return, HeadersBounded, AboutToWrite
<1>16. ASSUME NEW p \in Callers, FileError(p)
      PROVE  HeadersBounded'
  BY <1>16, NoneWritten DEF FileError, Return, HeadersBounded, AboutToWrite
<1>17. ASSUME Stop
      PROVE  HeadersBounded'
  BY <1>17, NoneWritten DEF Stop, AboutToWrite
<1>18. CASE UNCHANGED vars
  BY <1>18 DEF vars, HeadersBounded, AboutToWrite
<1>. QED
  BY <1>1, <1>2, <1>3, <1>4, <1>5, <1>6, <1>7, <1>8, <1>9, <1>10, <1>11,
     <1>12, <1>13, <1>14, <1>15, <1>16, <1>17, <1>18 DEF Next, Step

-----------------------------------------------------------------------------
(* The schema.  Nothing is said of what calls leave that overlapped before *)
(* the collection was first returned.                                      *)

(* Once it was returned: config.json, the segment and a header in it are   *)
(* there, nobody is about to write one of them, and who is opening the     *)
(* collection works with what config.json says.                            *)
Settled ==
    usable /\ ~raced =>
        /\ config \in Configs /\ config.index = "Linear"
        /\ segment /\ headers > 0
        /\ \A p \in Callers :
              /\ pc[p] \notin {"truncate", "save", "createSegment", "header"}
              /\ pc[p] \in {"index", "scan", "opened"} => cfg[p] = config
              /\ pc[p] = "refused" => ~Loadable(config)

(* Before that: there is one call at a time, and how far it got says what  *)
(* is on the disk.  A create that was not refused by Stat finds no         *)
(* segment and so writes a header; an open may find a segment without.     *)
Alone ==
    ~usable /\ ~raced =>
        /\ ~Overlap
        /\ config = Absent => ~segment
        /\ \A p \in Callers :
              /\ pc[p] = "truncate" => config = Absent
              /\ pc[p] = "save" => ~segment
              /\ pc[p] \in {"index", "scan", "createSegment", "header", "opened"}
                    => config \in Configs /\ cfg[p] = config
              /\ pc[p] \in {"scan", "createSegment", "header", "opened"}
                    => config.index = "Linear"
              /\ pc[p] \in {"index", "scan", "createSegment"} /\ kind[p] # "open"
                    => ~segment
              /\ pc[p] = "opened" /\ kind[p] # "open" => headers > 0

IInv == TypeInv /\ Settled /\ Alone

LEMMA InvInit == Init => IInv
BY TypeInit DEF Init, IInv, Settled, Alone, Overlap, At

(* No action but the last of a call makes the collection usable, and a     *)
(* caller's own steps are all that happens while it is alone.              *)
LEMMA SchemaStep ==
    ASSUME IInv, Step, raced' = (raced \/ (~usable' /\ Overlap'))
    PROVE  Settled' /\ Alone'
<1> USE DEF IInv, TypeInv, TypeOK, disk, callers, At, Die
<1>1. CASE raced'
  BY <1>1 DEF Settled, Alone
<1>2. CASE ~raced'
  <2>1. ~raced /\ (usable' \/ ~Overlap')
    BY <1>2
  <2> USE <1>2, <2>1 DEF Settled, Alone, Overlap
  <2>2. ASSUME NEW p \in Callers, CreateCollection(p)
        PROVE  Settled' /\ Alone'
    BY <2>2 DEF CreateCollection
  <2>3. ASSUME NEW p \in Callers, Main(p)
        PROVE  Settled' /\ Alone'
    BY <2>3 DEF Main
  <2>4. ASSUME NEW p \in Callers, Stat(p)
        PROVE  Settled' /\ Alone'
    BY <2>4, ConfigsApart DEF Stat, Goto, Return
  <2>5. ASSUME NEW p \in Callers, TruncateConfig(p)
        PROVE  Settled' /\ Alone'
    BY <2>5 DEF TruncateConfig, Goto
  <2>6. ASSUME NEW p \in Callers, SaveConfig(p)
        PROVE  Settled' /\ Alone'
    BY <2>6 DEF SaveConfig, Goto, Configured
  <2>7. ASSUME NEW p \in Callers, OpenCollection(p)
        PROVE  Settled' /\ Alone'
    BY <2>7 DEF OpenCollection
  <2>8. ASSUME NEW p \in Callers, LoadConfig(p)
        PROVE  Settled' /\ Alone'
    <3>0. /\ pc[p] = "load" /\ UNCHANGED <<config, segment, headers, usable>>
          /\ \A q \in Callers \ {p} :
                pc'[q] = pc[q] /\ cfg'[q] = cfg[q] /\ kind'[q] = kind[q]
      BY <2>8 DEF LoadConfig, Goto, Return
    <3>1. CASE config = Absent
      <4>1. pc'[p] = "idle"
        BY <2>8, <3>1 DEF LoadConfig, Return, Absent, Torn, No
      <4>. QED
        BY <3>0, <4>1
    <3>2. CASE config = Torn
      BY <2>8, <3>2 DEF LoadConfig, Goto, Absent, Torn, No
    <3>3. CASE config \notin {Absent, Torn}
      <4>1. /\ config \in Configs /\ cfg'[p] = config
            /\ pc'[p] = IF Loadable(config) THEN "index" ELSE "refused"
            /\ kind'[p] = kind[p]
        BY <2>8, <3>3 DEF LoadConfig
      <4>2. ASSUME usable
            PROVE  Settled' /\ Alone'
        BY <3>0, <4>1, <4>2
      <4>3. ASSUME ~usable
            PROVE  Settled' /\ Alone'
        <5>1. kind[p] = "open"
          BY <3>0 DEF Configured
        <5>. QED
          BY <3>0, <4>1, <5>1
      <4>. QED
        BY <4>2, <4>3
    <3>. QED
      BY <3>1, <3>2, <3>3
  <2>9. ASSUME NEW p \in Callers, CreateIndex(p)
        PROVE  Settled' /\ Alone'
    BY <2>9 DEF CreateIndex, Goto
  <2>10. ASSUME NEW p \in Callers, Panic(p)
        PROVE  Settled' /\ Alone'
    BY <2>10 DEF Panic
  <2>11. ASSUME NEW p \in Callers, ScanDirectory(p)
        PROVE  Settled' /\ Alone'
    BY <2>11 DEF ScanDirectory, Goto
  <2>12. ASSUME NEW p \in Callers, CreateSegment(p)
        PROVE  Settled' /\ Alone'
    BY <2>12, ConfigsApart DEF CreateSegment, Goto
  <2>13. ASSUME NEW p \in Callers, WriteHeader(p)
        PROVE  Settled' /\ Alone'
    BY <2>13 DEF WriteHeader, Goto
  <2>14. ASSUME NEW p \in Callers, Created(p)
        PROVE  Settled' /\ Alone'
    BY <2>14 DEF Created, Return, HeadersBounded
  <2>15. ASSUME NEW p \in Callers, Replay(p)
        PROVE  Settled' /\ Alone'
    BY <2>15 DEF Replay, Goto, Return, HeadersBounded
  <2>16. ASSUME NEW p \in Callers, Refuse(p)
        PROVE  Settled' /\ Alone'
    BY <2>16 DEF Refuse, Return
  <2>17. ASSUME NEW p \in Callers, FileError(p)
        PROVE  Settled' /\ Alone'
    BY <2>17 DEF FileError, Return
  <2>18. ASSUME Stop
        PROVE  Settled' /\ Alone'
    BY <2>18 DEF Stop
  <2>. QED
    BY <2>2, <2>3, <2>4, <2>5, <2>6, <2>7, <2>8, <2>9, <2>10, <2>11, <2>12,
       <2>13, <2>14, <2>15, <2>16, <2>17, <2>18 DEF Step
<1>. QED
  BY <1>1, <1>2

LEMMA InvStep == IInv /\ [Next]_vars => IInv'
<1> SUFFICES ASSUME IInv, [Next]_vars
             PROVE  IInv'
  OBVIOUS
<1>1. TypeInv'
  BY TypeOKStep, ConfiguredStep, HeadersStep DEF IInv, TypeInv
<1>2. Settled' /\ Alone'
  <2>1. CASE Next
    BY <2>1, SchemaStep DEF Next
  <2>2. CASE UNCHANGED vars
    BY <2>2 DEF IInv, Settled, Alone, Overlap, At, vars, disk, callers
  <2>. QED
    BY <2>1, <2>2
<1>. QED
  BY <1>1, <1>2 DEF IInv

LEMMA Invariance == Spec => []IInv
BY InvInit, InvStep, PTL DEF Spec

(* Every variable holds a value the program could hold; segment 1 gets no  *)
(* more headers than there are callers, whatever dies in between.          *)
THEOREM TypeCorrect == Spec => []TypeOK
<1>1. IInv => TypeOK
  BY DEF IInv, TypeInv
<1>. QED
  BY <1>1, Invariance, PTL

(* A collection that was returned opens ever after, for any number of      *)
(* callers, deaths and file errors, unless calls overlapped before it was  *)
(* returned.  CreateCollection lets a configuration without data type      *)
(* pass, which loadConfig refuses: it must not be asked for.               *)
THEOREM OpensEverAfter ==
    ASSUME "unset" \notin DataTypes
    PROVE  Spec => []CreatedOpens
<1>1. IInv => CreatedOpens
  BY DEF IInv, Settled, CreatedOpens, Loadable, Configs, At
<1>. QED
  BY <1>1, Invariance, PTL

(* Its configuration never changes, with or without a data type.           *)
THEOREM SchemaKept == Spec => SchemaLocked
<1>1. IInv /\ [Next]_vars => [usable /\ ~raced => config' = config]_vars
  <2> SUFFICES ASSUME IInv, Next, usable, ~raced
               PROVE  config' = config
    OBVIOUS
  <2>1. \A p \in Callers : ~TruncateConfig(p) /\ ~SaveConfig(p)
    BY DEF IInv, Settled, TruncateConfig, SaveConfig, At
  <2>. QED
    BY <2>1 DEF Next, Step, disk, CreateCollection, Main, Stat,
       OpenCollection, LoadConfig, CreateIndex, Panic, ScanDirectory,
       CreateSegment, WriteHeader, Created, Replay, Refuse, FileError, Stop
<1>. QED
  BY <1>1, Invariance, PTL DEF Spec, SchemaLocked

=============================================================================
