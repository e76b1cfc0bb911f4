----------------------------- MODULE LinearIndex -----------------------------
(***************************************************************************)
(* Vectors (internal/vector) and the linear index over them                *)
(* (internal/index/linear.go): normalization at construction, the three    *)
(* similarity metrics, and the search for the k most similar vectors.      *)
(*                                                                         *)
(* A float is an integer number of 1/One, so that vectors whose magnitude  *)
(* is an integer (3, 4 and 5) are computed with exactly; rounding is left  *)
(* out.  A number beyond MaxFloat is an infinity of float32.               *)
(*                                                                         *)
(* Slices are pointers: the heap holds their values, and whoever holds a   *)
(* pointer may write through it.  The caller has one buffer, which it      *)
(* fills, passes, and fills again.  li.mu makes each method one step here; *)
(* module Concurrency takes it apart.                                      *)
(*                                                                         *)
(* A definition named Bug_X stands before X: X with a plausible bug, used  *)
(* to see that a property notices it.                                      *)
(***************************************************************************)
EXTENDS Integers, SequencesExt

CONSTANTS
    Ids,       \* the internal ids of the vectors; they are also the
               \* addresses of their slices, 0 is the caller's buffer
    Raw,       \* the values callers fill in: sequences of floats
    Ks,        \* the numbers of results callers ask for
    Configs,   \* the configurations an index may be asked for
    One,       \* the float 1
    Epsilon,   \* magnitudes below this count as zero
    MaxFloat   \* the largest finite float32

ASSUME IdAssumption == Ids \subseteq Nat \ {0}
ASSUME KAssumption == Ks \subseteq Int
ASSUME FloatAssumption ==
    /\ One \in Nat \ {0} /\ Epsilon \in 1 .. One /\ MaxFloat \in Nat
    /\ One <= MaxFloat
    /\ \A v \in Raw : v \in Seq(Int)

VARIABLES
    config,    \* li.config
    vectors,   \* li.vectors: the address of each vector's values
    heap,      \* the values at each address
    buffer,    \* the address of the caller's slice
    answer,    \* what the last step returned, if it was a Search
    from       \* history: the raw values each vector was made of

vars == <<config, vectors, heap, buffer, answer, from>>

-----------------------------------------------------------------------------
(* Vectors *)

Sum(s) == SumFunction(s)

DotProduct(u, v) == Sum([i \in DOMAIN u |-> u[i] * v[i]])
Cosine(u, v)     == DotProduct(u, v)

Bug_Euclidean(u, v) == Sum([i \in DOMAIN u |-> (u[i] - v[i]) * (u[i] - v[i])])
Euclidean(u, v) == -Sum([i \in DOMAIN u |-> (u[i] - v[i]) * (u[i] - v[i])])

Magnitude(v) ==
    CHOOSE m \in 0 .. Sum([i \in DOMAIN v |-> v[i] * v[i]]) :
        m * m = DotProduct(v, v)

(* NaN and the infinities are refused.                                     *)
validateValues(v) == \A i \in DOMAIN v : -MaxFloat <= v[i] /\ v[i] <= MaxFloat

(* The magnitude is a float64 and is converted to float32 before the       *)
(* division: beyond MaxFloat it becomes an infinity, and x / Inf is 0.     *)
Bug_Normalize(v) == v   \* keeps the values as they came
Normalize(v) ==
    LET m == Magnitude(v)
    IN  [i \in DOMAIN v |-> IF m > MaxFloat THEN 0 ELSE (v[i] * One) \div m]

(* Every division comes out even.                                          *)
ASSUME ExactAssumption ==
    \A v \in Raw :
        /\ Magnitude(v) \in Nat /\ Magnitude(v) * Magnitude(v) = DotProduct(v, v)
        /\ Magnitude(v) > 0 => \A i \in DOMAIN v : (v[i] * One) % Magnitude(v) = 0

NewVectorOK(v) == v # <<>> /\ validateValues(v) /\ Magnitude(v) >= Epsilon

-----------------------------------------------------------------------------
(* The index *)

Empty        == [x \in {} |-> {}]
Put(f, k, x) == [y \in DOMAIN f \cup {k} |-> IF y = k THEN x ELSE f[y]]
Drop(f, k)   == [y \in DOMAIN f \ {k} |-> f[y]]

Nil        == [of |-> "nothing"]
Value(id)  == heap[vectors[id]]
Size       == Cardinality(DOMAIN vectors)

NewIndexConfig(c) ==
    /\ c.dimension > 0
    /\ c.indexType \in {"Linear", "HNSW", "IVF", "PQ"}
    /\ c.metric \in {"Cosine", "Dot", "Euclidean"}

(* The factory makes linear indexes, and panics for the other types.       *)
Init ==
    /\ config \in {c \in Configs : NewIndexConfig(c) /\ c.indexType = "Linear"}
    /\ vectors = Empty /\ from = Empty
    /\ \E v \in Raw : heap = [a \in {0} |-> v]
    /\ buffer = 0
    /\ answer = Nil

(* The caller writes its slice.                                            *)
Fill(v) ==
    /\ heap' = [heap EXCEPT ![buffer] = v]
    /\ answer' = Nil
    /\ UNCHANGED <<config, vectors, buffer, from>>

(* NewVector of the buffer, in a slice of its own, and Add under an id.    *)
Bug_Add(id) ==   \* forgets the dimension
    /\ NewVectorOK(heap[buffer])
    /\ id \notin DOMAIN vectors
    /\ heap' = Put(heap, id, Normalize(heap[buffer]))
    /\ vectors' = Put(vectors, id, id)
    /\ from' = Put(from, id, heap[buffer])
    /\ answer' = Nil
    /\ UNCHANGED <<config, buffer>>
Add(id) ==
    /\ NewVectorOK(heap[buffer])
    /\ Len(heap[buffer]) = config.dimension
    /\ id \notin DOMAIN vectors
    /\ heap' = Put(heap, id, Normalize(heap[buffer]))
    /\ vectors' = Put(vectors, id, id)
    /\ from' = Put(from, id, heap[buffer])
    /\ answer' = Nil
    /\ UNCHANGED <<config, buffer>>

(* A vector that is not there is deleted without complaint.                *)
Delete(id) ==
    /\ vectors' = Drop(vectors, id)
    /\ heap' = IF id \in DOMAIN vectors THEN Drop(heap, id) ELSE heap
    /\ from' = Drop(from, id)
    /\ answer' = Nil
    /\ UNCHANGED <<config, buffer>>

(* Get and Values: the caller goes on with a copy of the vector's values.  *)
Bug_GetValues(id) ==   \* the slice itself
    /\ id \in DOMAIN vectors
    /\ buffer' = vectors[id]
    /\ answer' = Nil
    /\ UNCHANGED <<config, vectors, heap, from>>
GetValues(id) ==
    /\ id \in DOMAIN vectors
    /\ buffer' = 0
    /\ heap' = [heap EXCEPT ![0] = Value(id)]
    /\ answer' = Nil
    /\ UNCHANGED <<config, vectors, from>>

-----------------------------------------------------------------------------
(* Search *)

ScoreBy(metric, u, q) == CASE metric = "Cosine"    -> Cosine(u, q)
                           [] metric = "Dot"       -> DotProduct(u, q)
                           [] metric = "Euclidean" -> Euclidean(u, q)
Score(id, q) == ScoreBy(config.metric, Value(id), q)

(* The ids in the order of a map's iteration, sorted by descending score   *)
(* by an unstable sort: equals come in any order.                          *)
Sorted(s, q) == \A i, j \in DOMAIN s : i < j => Score(s[i], q) >= Score(s[j], q)
Rankings(q)  == {s \in SetToSeqs(DOMAIN vectors) : Sorted(s, q)}

Bug_Cut(s, k) == IF k >= Size THEN SubSeq(s, 1, k - 1) ELSE SubSeq(s, 1, k)
Cut(s, k) == IF k > Size THEN s ELSE SubSeq(s, 1, k)

Result(s, q) == [i \in DOMAIN s |-> [id |-> s[i], score |-> Score(s[i], q)]]

Answer(q, k, results) ==
    [of |-> "search", raw |-> heap[buffer], query |-> q, k |-> k,
     error |-> FALSE, results |-> results]
Error(q, k) == [of |-> "search", raw |-> heap[buffer], query |-> q, k |-> k,
                error |-> TRUE, results |-> <<>>]

(* NewVector of the buffer, and a search for it; a caller that drops       *)
(* NewVector's error passes a nil vector, <<>>.                            *)
Query == IF NewVectorOK(heap[buffer]) THEN Normalize(heap[buffer]) ELSE <<>>

Search(k) ==
    /\ \/ /\ Size = 0   \* before the arguments are looked at
          /\ answer' = Answer(Query, k, <<>>)
       \/ /\ Size > 0
          /\ Query = <<>> \/ Len(Query) # config.dimension \/ k <= 0
          /\ answer' = Error(Query, k)
       \/ /\ Size > 0
          /\ Query # <<>> /\ Len(Query) = config.dimension /\ k > 0
          /\ \E s \in Rankings(Query) :
                answer' = Answer(Query, k, Result(Cut(s, k), Query))
    /\ UNCHANGED <<config, vectors, heap, buffer, from>>

-----------------------------------------------------------------------------

Next == \/ \E v \in Raw : Fill(v)
        \/ \E id \in Ids : Add(id) \/ Delete(id) \/ GetValues(id)
        \/ \E k \in Ks : Search(k)

Spec == Init /\ [][Next]_vars

-----------------------------------------------------------------------------
(* Properties *)

(* Every variable holds a value the program could hold; in particular all  *)
(* stored vectors have the index's dimension.                              *)
TypeOK ==
    /\ config \in Configs
    /\ DOMAIN vectors \subseteq Ids
    /\ \A id \in DOMAIN vectors : vectors[id] \in DOMAIN heap
    /\ DOMAIN heap \subseteq {0} \cup Ids /\ buffer \in DOMAIN heap
    /\ \A id \in DOMAIN vectors : Len(Value(id)) = config.dimension
    /\ DOMAIN from = DOMAIN vectors

Answered == answer.of = "search" /\ ~answer.error
results  == answer.results

(* Search returns min(k, Size) different vectors with their scores, in an  *)
(* order in which position p is right by counting: fewer than p vectors of *)
(* the index score higher, and at least p score no less.  Ties at the cut  *)
(* leave the choice open (linear.go:139), but never a better vector out.   *)
BestK ==
    Answered =>
        /\ Len(results) = IF answer.k > Size THEN Size
                          ELSE IF Size = 0 THEN 0 ELSE answer.k
        /\ \A p, q \in DOMAIN results : results[p].id = results[q].id => p = q
        /\ \A p \in DOMAIN results :
              /\ results[p].id \in DOMAIN vectors
              /\ results[p].score = Score(results[p].id, answer.query)
              /\ Cardinality({id \in DOMAIN vectors :
                                Score(id, answer.query) > results[p].score}) < p
              /\ Cardinality({id \in DOMAIN vectors :
                                Score(id, answer.query) >= results[p].score}) >= p

Parallel(u, v) ==
    /\ Len(u) = Len(v) /\ DotProduct(u, v) > 0
    /\ \A i, j \in DOMAIN u : u[i] * v[j] = u[j] * v[i]

(* A search in the direction of a stored vector finds one of that          *)
(* direction first, under every metric and whatever the lengths of the     *)
(* vectors that callers passed: only normalization at construction makes   *)
(* it so (DESIGN.md:31 "automatically normalized to a unit vector").       *)
ClosestFirst ==
    Answered /\ results # <<>> =>
        ((\E id \in DOMAIN vectors : Parallel(from[id], answer.raw))
            => Parallel(from[results[1].id], answer.raw))

(* The ranking under one metric is a right ranking under each other one,   *)
(* which is why Cosine does not divide by the magnitudes (vec_math.go:38   *)
(* "all vectors passed here must be normalised").                          *)
MetricsAgree ==
    Answered =>
        \A metric \in {"Cosine", "Dot", "Euclidean"} :
            \A p, q \in DOMAIN results :
                p < q => ScoreBy(metric, Value(results[p].id), answer.query)
                           >= ScoreBy(metric, Value(results[q].id), answer.query)

(* A stored vector never changes, though callers go on writing the slices  *)
(* they passed to NewVector or got from Values (DESIGN.md:32 "cannot be    *)
(* modified after creation").                                              *)
Immutable ==
    [][\A id \in DOMAIN vectors \cap DOMAIN vectors' : Value(id)' = Value(id)]_vars
=============================================================================
