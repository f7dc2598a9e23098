------------------------------ MODULE MCHashRegs ------------------------------
(* HashRegs for TLC: two sessions on the STM32MP13 HASH (every save     *)
(* class available), one algorithm per class.                             *)
EXTENDS HashRegs, TLC

CONSTANTS s1, s2

MCSessions == {s1, s2}
MCAlgos == {"SHA256", "SHA512", "SHA3_256"}

\* The registers holding the engine state, as the table of the
\* specification (section 4.4, context-class register maps) gives them,
\* written out independently of the driver's SAVE_* constants.
MCHwRegs(c, m) ==
  LET plain == [small |-> 0..21, big |-> 0..90, sha3 |-> 0..71]
      hmac  == [small |-> 38..53, big |-> 91..102, sha3 |-> 16..87]
  IN plain[c] \cup (IF m = HMAC THEN hmac[c] ELSE {})

MCSymmetry == Permutations(MCSessions)
====
