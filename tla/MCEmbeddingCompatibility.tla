---------------------- MODULE MCEmbeddingCompatibility ----------------------
(* A small instance of EmbeddingCompatibility for TLC.                      *)
EXTENDS EmbeddingCompatibility, TLC

CONSTANTS s1, s2, c1, c2, c3, c4, c5, ea, eb, ew, A, B

(* ew has the model A in other dimensions.  Two calls share a check, one   *)
(* their store with another model, two come from another process.          *)
MCModelOf == ea :> A @@ eb :> B @@ ew :> A
MCStoreOf == [c \in Calls |-> IF c \in {c1, c2, c3} THEN s1 ELSE s2]
MCEmbedderOf == [c \in Calls |-> IF c \in {c1, c2} THEN ea
                                 ELSE IF c \in {c3, c4} THEN eb ELSE ew]
=============================================================================
