----------------------------- MODULE Lifecycle -----------------------------
(***************************************************************************)
(* How one collection comes into being and is opened again:                *)
(* CreateCollection, which saves config.json before it makes the index and *)
(* the log, and OpenCollection, which believes config.json.  Any of their  *)
(* file operations may fail, and the process may die between any two.      *)
(*                                                                         *)
(* Of the log only its first segment matters here; modules WAL and         *)
(* Collection say what becomes of an open collection.                      *)
(*                                                                         *)
(* A definition named Bug_X stands before X: X with a plausible bug, used  *)
(* to see that a property notices it.                                      *)
(***************************************************************************)
EXTENDS Naturals, FiniteSets

CONSTANTS
    Callers,    \* the goroutines that create or open the collection
    Dimensions, \* the dimensions they ask for
    IndexTypes, \* the index types they ask for: "Linear", "HNSW"
    DataTypes,  \* the data types they ask for: "Text", "unset"
    MaxStops    \* bound on the stops

ASSUME ConfigAssumption ==
    /\ IndexTypes \subseteq {"Linear", "HNSW"}
    /\ DataTypes \subseteq {"Text", "unset"}
ASSUME BoundAssumption == IsFiniteSet(Callers) /\ MaxStops \in Nat

VARIABLES
    config,   \* config.json: absent, torn or a configuration
    segment,  \* segment 1 of the log exists
    headers,  \* the headers written to it
    pc, cfg,  \* where each caller is, and the configuration it works with
    kind,     \* the call it is in: create, open or none; main: the create
              \* of cmd/vectordb, which opens what is there already
    usable,   \* history: a call has returned the collection
    raced,    \* history: before that, two calls were in progress at once
    stops     \* counter, for the bound

disk    == <<config, segment, headers>>
callers == <<pc, cfg, kind>>
vars    == <<disk, callers, usable, raced, stops>>

(* What CreateCollection accepts: it looks at name, dimension, metric and  *)
(* index type, not at the data type.                                       *)
Configs == [dimension : Dimensions, index : IndexTypes, data : DataTypes]
Loadable(c) == c.data # "unset"

(* What else config.json or a caller's configuration may be.               *)
No(what) == [dimension |-> 0, index |-> what, data |-> what]
Absent   == No("absent")
Torn     == No("torn")
NoConfig == No("none")

Init ==
    /\ config = Absent /\ segment = FALSE /\ headers = 0
    /\ pc = [p \in Callers |-> "idle"] /\ kind = [p \in Callers |-> "none"]
    /\ cfg = [p \in Callers |-> NoConfig]
    /\ usable = FALSE /\ raced = FALSE /\ stops = 0

At(p, step)   == pc[p] = step
Goto(p, step) == pc' = [pc EXCEPT ![p] = step] /\ UNCHANGED <<cfg, kind>>
Return(p)     == /\ pc' = [pc EXCEPT ![p] = "idle"]
                 /\ cfg' = [cfg EXCEPT ![p] = NoConfig]
                 /\ kind' = [kind EXCEPT ![p] = "none"]

-----------------------------------------------------------------------------
(* CreateCollection up to saveConfig: os.WriteFile truncates, then writes. *)

CreateCollection(p) ==
    /\ At(p, "idle")
    /\ \E c \in Configs : cfg' = [cfg EXCEPT ![p] = c]
    /\ kind' = [kind EXCEPT ![p] = "create"]
    /\ pc' = [pc EXCEPT ![p] = "stat"]
    /\ UNCHANGED <<disk, usable, stops>>

(* cmd/vectordb: the dimension is a flag, the types are fixed.             *)
Main(p) ==
    /\ At(p, "idle")
    /\ \E c \in Configs : /\ c.index = "Linear" /\ c.data = "Text"
                          /\ cfg' = [cfg EXCEPT ![p] = c]
    /\ kind' = [kind EXCEPT ![p] = "main"]
    /\ pc' = [pc EXCEPT ![p] = "stat"]
    /\ UNCHANGED <<disk, usable, stops>>

Bug_Stat(p) ==   \* the existing collection is not noticed
    /\ At(p, "stat") /\ Goto(p, "truncate")
    /\ UNCHANGED <<disk, usable, stops>>
Stat(p) ==
    /\ At(p, "stat")
    /\ \/ config = Absent /\ Goto(p, "truncate")
       \/ /\ config # Absent   \* ErrCollectionAlreadyExists
          /\ \/ kind[p] = "create" /\ Return(p)
             \/ /\ kind[p] = "main" /\ kind' = [kind EXCEPT ![p] = "open"]
                /\ pc' = [pc EXCEPT ![p] = "load"] /\ UNCHANGED cfg
    /\ UNCHANGED <<disk, usable, stops>>

TruncateConfig(p) ==
    /\ At(p, "truncate") /\ Goto(p, "save")
    /\ config' = Torn
    /\ UNCHANGED <<segment, headers, usable, stops>>

SaveConfig(p) ==
    /\ At(p, "save") /\ Goto(p, "index")
    /\ config' = cfg[p]
    /\ UNCHANGED <<segment, headers, usable, stops>>

-----------------------------------------------------------------------------
(* OpenCollection up to loadConfig                                         *)

OpenCollection(p) ==
    /\ At(p, "idle") /\ pc' = [pc EXCEPT ![p] = "load"]
    /\ kind' = [kind EXCEPT ![p] = "open"]
    /\ UNCHANGED <<cfg, disk, usable, stops>>

LoadConfig(p) ==
    /\ At(p, "load")
    /\ \/ config = Absent /\ Return(p)   \* ErrCollectionNotFound
       \/ config = Torn /\ Goto(p, "refused")
       \/ /\ config \notin {Absent, Torn}
          /\ cfg' = [cfg EXCEPT ![p] = config]
          /\ pc' = [pc EXCEPT ![p] = IF Loadable(config) THEN "index"
                                                         ELSE "refused"]
          /\ UNCHANGED kind
    /\ UNCHANGED <<disk, usable, stops>>

-----------------------------------------------------------------------------
(* What both do then: the index, NewWAL in its steps, and, to open, the    *)
(* replay, which needs a header in the segment.                            *)

CreateIndex(p) ==
    /\ At(p, "index") /\ cfg[p].index = "Linear" /\ Goto(p, "scan")
    /\ UNCHANGED <<disk, usable, stops>>

Die == /\ pc' = [q \in Callers |-> "idle"] /\ kind' = [q \in Callers |-> "none"]
       /\ cfg' = [q \in Callers |-> NoConfig]

(* panic("unsupported index type"): the process dies.                      *)
Panic(p) ==
    /\ At(p, "index") /\ cfg[p].index # "Linear"
    /\ Die
    /\ UNCHANGED <<disk, usable, stops>>

Bug_ScanDirectory(p) ==   \* the segment that is there is not found
    /\ At(p, "scan") /\ Goto(p, "createSegment")
    /\ UNCHANGED <<disk, usable, stops>>
ScanDirectory(p) ==
    /\ At(p, "scan") /\ Goto(p, IF segment THEN "opened" ELSE "createSegment")
    /\ UNCHANGED <<disk, usable, stops>>

CreateSegment(p) ==
    /\ At(p, "createSegment") /\ Goto(p, "header")
    /\ segment' = TRUE
    /\ UNCHANGED <<config, headers, usable, stops>>

WriteHeader(p) ==
    /\ At(p, "header") /\ Goto(p, "opened")
    /\ headers' = headers + 1
    /\ UNCHANGED <<config, segment, usable, stops>>

Created(p) ==
    /\ At(p, "opened") /\ kind[p] \in {"create", "main"} /\ Return(p)
    /\ usable' = TRUE
    /\ UNCHANGED <<disk, stops>>

Replay(p) ==
    /\ At(p, "opened") /\ kind[p] = "open"
    /\ \/ headers > 0 /\ usable' = TRUE /\ Return(p)
       \/ headers = 0 /\ UNCHANGED usable /\ Goto(p, "refused")
    /\ UNCHANGED <<disk, stops>>

(* The call returns an error: the collection cannot be had.                *)
Refuse(p) ==
    /\ At(p, "refused") /\ Return(p)
    /\ UNCHANGED <<disk, usable, stops>>

(* A file operation fails, and the call with it: what it left stays.  A    *)
(* config.json that was truncated but not written stays torn.              *)
FileError(p) ==
    /\ pc[p] \in {"truncate", "save", "createSegment", "header"} /\ Return(p)
    /\ UNCHANGED <<disk, usable, stops>>

-----------------------------------------------------------------------------

Stop ==
    /\ stops < MaxStops /\ stops' = stops + 1
    /\ \E p \in Callers : ~At(p, "idle")
    /\ Die
    /\ UNCHANGED <<disk, usable>>

Step ==
    \/ Stop
    \/ \E p \in Callers :
          \/ CreateCollection(p) \/ Main(p) \/ Stat(p)
          \/ TruncateConfig(p) \/ SaveConfig(p)
          \/ OpenCollection(p) \/ LoadConfig(p)
          \/ CreateIndex(p) \/ Panic(p) \/ ScanDirectory(p) \/ CreateSegment(p)
          \/ WriteHeader(p) \/ Created(p) \/ Replay(p) \/ Refuse(p)
          \/ FileError(p)

Overlap == \E p, q \in Callers : p # q /\ ~At(p, "idle") /\ ~At(q, "idle")

Next == Step /\ raced' = (raced \/ (~usable' /\ Overlap'))

Spec == Init /\ [][Next]_vars

-----------------------------------------------------------------------------
(* Properties *)

(* Every variable holds a value the program could hold, and segment 1 gets *)
(* one header per caller that found no log.                                *)
TypeOK ==
    /\ config \in {Absent, Torn} \cup Configs
    /\ segment \in BOOLEAN /\ headers \in 0 .. Cardinality(Callers)
    /\ pc \in [Callers -> {"idle", "stat", "truncate", "save", "load", "index",
                           "scan", "createSegment", "header", "opened",
                           "refused"}]
    /\ cfg \in [Callers -> {NoConfig} \cup Configs]
    /\ kind \in [Callers -> {"none", "create", "open", "main"}]
    /\ usable \in BOOLEAN /\ stops \in 0 .. MaxStops

(* A collection that a call has once returned opens from then on, wherever *)
(* later calls die or fail, whatever they ask for, and however many there  *)
(* are at a time ("Strict validation at object construction ... to prevent *)
(* half-valid states", README.md:18).  The Stat of CreateCollection that   *)
(* finds nothing is stale only for calls that overlap the creation itself. *)
CreatedOpens == usable /\ ~raced => \A p \in Callers : ~At(p, "refused")

(* ... and its configuration never changes: "schemas are locked"           *)
(* (README.md:18).                                                         *)
SchemaLocked == [][usable /\ ~raced => config' = config]_vars

(* If there is a config.json, there is a collection: "existence of         *)
(* config.json becomes authoritative collection existence signal"          *)
(* (collection/config.go:16).                                              *)
ExistsOpens == config # Absent => \A p \in Callers : ~At(p, "refused")

(* "exactly one header per segment file" (wal.go:94).                      *)
OneHeader == headers <= 1

(* Calls that create the collection at the same time do not overwrite each *)
(* other's schema, either.                                                 *)
SchemaLockedInRaces == [][usable => config' = config]_vars
=============================================================================
