--------------------------- MODULE MCChunkedUpload ---------------------------
(* Small instances of ChunkedUpload: sizes that take one chunk and a part    *)
(* of another, and names that are distinct or shared.                        *)
EXTENDS ChunkedUpload, TLC

CONSTANTS s1, s2

MCSize == (s1 :> 3) @@ (s2 :> 2)
MCSizeOne == s1 :> 3
MCSizeShort == s1 :> 2
MCName == (s1 :> "a") @@ (s2 :> "b")
MCNameShared == (s1 :> "a") @@ (s2 :> "a")
MCNameOne == s1 :> "a"

(* Request goroutines are interchangeable. *)
MCSymmetry == Permutations(Request)
==============================================================================
