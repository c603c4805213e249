----------------------------- MODULE Embeddings -----------------------------
(***************************************************************************)
(* Checking and ordering the vectors of an embedding response              *)
(* (internal/router/router.go: normalizeEmbeddingResponse,                 *)
(* internal/contract/openai.go: InputCount).                               *)
(*                                                                         *)
(* A vector is its declared index and its length; which vector it is, is   *)
(* told by its position in the response.  That a vector holds no infinite  *)
(* number is left out: JSON cannot carry one.                              *)
(***************************************************************************)
EXTENDS Integers, Sequences

Single == -1    \* the input is not an array

\* An array counts its entries and must have one; anything else is one input.
InputCount(input) == IF input = Single THEN 1 ELSE input

\* The k-th vector beside those before it: an index in range that none of them
\* has, not empty, and as long as they are.
Fits(input, response, k) ==
  /\ response[k].index \in 0 .. InputCount(input) - 1
  /\ \A j \in 1 .. k - 1 : response[j].index # response[k].index
  /\ response[k].length > 0
  /\ response[k].length = response[1].length

\* Mutant: the last vector decides.
NeedsNormalization_LastOnly(response) ==
  response[Len(response)].index # Len(response) - 1

\* Some vector's index is not the number of vectors before it.
NeedsNormalization(response) ==
  \E k \in DOMAIN response : response[k].index # k - 1

\* The positions of the vectors by their index.
ByIndex(response) ==
  CHOOSE order \in [DOMAIN response -> DOMAIN response] :
    \A j, k \in DOMAIN response :
      j < k => response[order[j]].index < response[order[k]].index

\* The positions of the vectors returned, in their order; none if refused.
Normalize(input, readable, response) ==
  IF ~(/\ input # 0 /\ readable /\ Len(response) = InputCount(input)
       /\ \A k \in DOMAIN response : Fits(input, response, k))
  THEN <<>>
  ELSE IF NeedsNormalization(response) THEN ByIndex(response)
  ELSE [k \in DOMAIN response |-> k]
=============================================================================
