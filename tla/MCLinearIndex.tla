---------------------------- MODULE MCLinearIndex ----------------------------
(* Model checking of LinearIndex: vectors of the plane of lengths 2, 5 and *)
(* 10 in four directions, two of which are the same and tie, the zero      *)
(* vector, an infinite one and one of another dimension.                   *)
EXTENDS LinearIndex

MCRaw == {<<3, 4>>, <<6, 8>>, <<4, -3>>, <<0, 2>>, <<5, 0>>, <<0, 0>>,
          <<11, 0>>, <<5>>}
MCConfigs == [indexType : {"Linear"}, metric : {"Cosine", "Dot", "Euclidean"},
              dimension : {2}]
             \cup [indexType : {"Linear", "HNSW"}, metric : {"none", "Dot"},
                   dimension : {0, 2}]
=============================================================================
