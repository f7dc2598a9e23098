---------------------------- MODULE MCHashStream ----------------------------
(***************************************************************************)
(* Instantiates HashStream for TLC.  Block sizes are scaled down: the      *)
(* driver only uses block_size through queue_size (block + 4 then block)   *)
(* and the word count of a block, so an 8-byte block (2 words) exercises   *)
(* the same branches as SHA-256's 64 bytes with far fewer states.          *)
(***************************************************************************)
EXTENDS HashStream, TLC

CONSTANTS s1, s2, k1, k2

MCSessions == {s1, s2}
MCAlgos == {"SHA256"}
\* MD5 is in the catalog but not in the STM32MP13 capabilities.
MCCatalog == {"SHA256", "MD5"}
MCBlockSize == [a \in MCCatalog |-> 8]
MCModes == {"hash", "hmac"}
MCHashOnly == {"hash"}
MCKeys == {k2}
\* k1 is shorter than a block, k2 longer (LKEY path of hw_init).
MCKeyLen == k1 :> 3 @@ k2 :> 9
\* one byte, three bytes (never word aligned), one byte over two words,
\* and one byte over the first queue (block + 4).
MCLens == {1, 3, 9, 13}

MCSymmetry == Permutations(MCSessions)
=============================================================================
