------------------------------- MODULE HashRegs -------------------------------
(***************************************************************************)
(* The context registers of the STM32 HASH peripheral and the csr[] save   *)
(* array of each session (stm32_hash.c: get_save_registers, save_context,  *)
(* restore_context, the csr calloc of stm32_hash_alloc and the csr memcpy *)
(* of stm32_hash_deep_copy).                                               *)
(*                                                                         *)
(* CSR(j) holds a value <<j, t>>: the content register j has in hash state *)
(* t.  Each step of the engine starts from one state and makes a fresh     *)
(* one, so a register holding another state's value (another session's,   *)
(* or an older one of the same session) is visible as a token mismatch.  *)
(* Which registers hold the engine's state for a save class and mode is a  *)
(* property of the hardware: the constant HwRegs.  Calls are atomic (the  *)
(* device mutex); timeouts and the data path are in HashStream.           *)
(***************************************************************************)
EXTENDS Integers

CONSTANTS
  Sessions,
  Algos,     \* algorithm identifiers of the catalog
  Compat,    \* the probed compat: "mp13" or "mp15"
  HwRegs(_, _), \* registers holding the engine state of a class and mode
  MaxTok,    \* bound: engine steps in one behaviour
  None

HASH == "hash"
HMAC == "hmac"
Modes == {HASH, HMAC}

\* SAVE_SMALL, SAVE_BIG, SAVE_SHA3 and their register counts and offsets.
SaveTable ==
  [small |-> [nb |-> 22, first |-> 0, hnb |-> 16, hfirst |-> 38],
   big   |-> [nb |-> 91, first |-> 0, hnb |-> 12, hfirst |-> 91],
   sha3  |-> [nb |-> 72, first |-> 0, hnb |-> 72, hfirst |-> 16]]

\* stm32_hash_alloc: the capability bit and save class of each algorithm.
Catalog ==
  [MD5 |-> [cap |-> "MD5", cls |-> "small"], SHA1 |-> [cap |-> "SHA1", cls |-> "small"],
   SHA224 |-> [cap |-> "SHA2_224", cls |-> "small"], SHA256 |-> [cap |-> "SHA2_256", cls |-> "small"],
   SHA384 |-> [cap |-> "SHA2_384", cls |-> "big"], SHA512 |-> [cap |-> "SHA2_512", cls |-> "big"],
   SHA3_224 |-> [cap |-> "SHA3", cls |-> "sha3"], SHA3_256 |-> [cap |-> "SHA3", cls |-> "sha3"],
   SHA3_384 |-> [cap |-> "SHA3", cls |-> "sha3"], SHA3_512 |-> [cap |-> "SHA3", cls |-> "sha3"]]
ASSUME Algos \subseteq DOMAIN Catalog

\* mp13_compat and mp15_compat (st,stm32f756-hash).
Caps ==
  IF Compat = "mp13"
  THEN {"SHA1", "SHA2_224", "SHA2_256", "SHA2_384", "SHA2_512", "SHA3"}
  ELSE {"MD5", "SHA1", "SHA2_224", "SHA2_256"}

\* get_save_registers: the HMAC count and offset stay 0 (the caller's
\* initial values) in hash mode.
SaveRegs(cls, m) ==
  LET t == SaveTable[cls]
  IN IF m = HMAC THEN t ELSE [t EXCEPT !.hnb = 0, !.hfirst = 0]

\* The CSR window: _HASH_CSR(j) for j below the first digest register
\* (0xF8 + 4 * j < 0x310).
RegIdx == 0..133
Zero == <<0, 0>>
Val(j, t) == <<j, t>>

VARIABLES
  reg,    \* [RegIdx -> value]: the peripheral's CSR registers
  cls,    \* [Sessions -> save class or None]: c->save_mode
  mode,   \* [Sessions -> Modes \cup {None}]
  csr,    \* [Sessions -> [0..n-1 -> value]]: c->csr
  phase,  \* ghost: "none", "alloc", "init", "done"
  tok,    \* ghost: the hash state the session's saved registers belong to
  ntok,   \* ghost: last state token handed out
  intact  \* ghost: every step of the session started from its own state

rvars == <<reg, cls, mode, csr, phase, tok, ntok, intact>>

G(s) == SaveRegs(cls[s], mode[s])

\* The register csr[i] mirrors: the first loop of save_context, then the
\* HMAC loop (csr[i + nb_reg] = CSR(i + hmac_first)).
CsrReg(s, i) == IF i < G(s).nb THEN i + G(s).first ELSE i - G(s).nb + G(s).hfirst

\* stm32_hash_alloc: csr = calloc(nb_reg + hmac_nb_reg, sizeof(uint32_t)).
CsrCount(s) == G(s).nb + G(s).hnb

\* save_context: both loops read CSR registers into csr[].
Saved(s, r) == [i \in DOMAIN csr[s] |-> r[CsrReg(s, i)]]

\* restore_context: the first loop writes CSR(first..first+nb-1), then the
\* HMAC loop writes CSR(hfirst..), so on an overlap (SHA3 HMAC) the HMAC
\* loop's write is the one left.  (RestoredHmacUnshifted: the HMAC loop
\* reads csr[i] in place of csr[i + nb_reg].)
InHmac(s, j) == G(s).hnb > 0 /\ j \in G(s).hfirst..(G(s).hfirst + G(s).hnb - 1)
InMain(s, j) == j \in G(s).first..(G(s).first + G(s).nb - 1)
RestoredHmacUnshifted(s) ==
  [j \in RegIdx |-> IF InHmac(s, j) THEN csr[s][j - G(s).hfirst]
                    ELSE IF InMain(s, j) THEN csr[s][j - G(s).first] ELSE reg[j]]
Restored(s) ==
  [j \in RegIdx |-> IF InHmac(s, j) THEN csr[s][j - G(s).hfirst + G(s).nb]
                    ELSE IF InMain(s, j) THEN csr[s][j - G(s).first] ELSE reg[j]]

\* Peripheral (not code): the engine state registers of the session's
\* class and mode.  A step starts from them and writes state t.
State(s) == HwRegs(cls[s], mode[s])
Holds(s, r, t) == \A j \in State(s) : r[j] = Val(j, t)
Stepped(s, r, t) == [j \in RegIdx |-> IF j \in State(s) THEN Val(j, t) ELSE r[j]]

-----------------------------------------------------------------------------
(* stm32_hash_alloc, capability accepted: class from the catalog, csr     *)
(* zeroed by calloc.                                                       *)
Alloc(s, a, m) ==
  /\ phase[s] = "none" /\ Catalog[a].cap \in Caps
  /\ cls' = [cls EXCEPT ![s] = Catalog[a].cls]
  /\ mode' = [mode EXCEPT ![s] = m]
  /\ csr' = [csr EXCEPT ![s] = [i \in 0..(SaveRegs(Catalog[a].cls, m).nb
                                          + SaveRegs(Catalog[a].cls, m).hnb - 1) |-> Zero]]
  /\ phase' = [phase EXCEPT ![s] = "alloc"]
  /\ UNCHANGED <<reg, tok, ntok, intact>>

(* stm32_hash_free *)
Free(s) ==
  /\ phase[s] # "none"
  /\ phase' = [phase EXCEPT ![s] = "none"]
  /\ UNCHANGED <<reg, cls, mode, csr, tok, ntok, intact>>

(* stm32_hash_init: hw_init writes CR with INIT (a fresh state; in HMAC   *)
(* mode the key goes in too), then save_context.                           *)
Init_(s) ==
  /\ phase[s] # "none" /\ ntok < MaxTok
  /\ LET r == Stepped(s, reg, ntok + 1)
     IN /\ reg' = r
        /\ csr' = [csr EXCEPT ![s] = Saved(s, r)]
  /\ tok' = [tok EXCEPT ![s] = ntok + 1]
  /\ ntok' = ntok + 1
  /\ phase' = [phase EXCEPT ![s] = "init"]
  /\ intact' = [intact EXCEPT ![s] = TRUE]
  /\ UNCHANGED <<cls, mode>>

(* stm32_hash_update, bytes kept in remain: restore_context only.          *)
UpdateBuffered(s) ==
  /\ phase[s] = "init"
  /\ reg' = Restored(s)
  /\ UNCHANGED <<cls, mode, csr, phase, tok, ntok, intact>>

(* stm32_hash_update, FIFO filled: restore_context, the engine absorbs    *)
(* words, save_context.                                                    *)
UpdateFlush(s) ==
  /\ phase[s] = "init" /\ ntok < MaxTok
  /\ LET r0 == Restored(s)
         r  == Stepped(s, r0, ntok + 1)
     IN /\ reg' = r
        /\ csr' = [csr EXCEPT ![s] = Saved(s, r)]
        /\ intact' = [intact EXCEPT ![s] = @ /\ Holds(s, r0, tok[s])]
  /\ tok' = [tok EXCEPT ![s] = ntok + 1]
  /\ ntok' = ntok + 1
  /\ UNCHANGED <<cls, mode, phase>>

(* stm32_hash_final: restore_context, the last words and DCAL; the digest *)
(* is computed from the restored state; no save.                          *)
Final(s) ==
  /\ phase[s] = "init" /\ ntok < MaxTok
  /\ LET r0 == Restored(s)
     IN /\ reg' = Stepped(s, r0, ntok + 1)
        /\ intact' = [intact EXCEPT ![s] = @ /\ Holds(s, r0, tok[s])]
  /\ ntok' = ntok + 1
  /\ phase' = [phase EXCEPT ![s] = "done"]
  /\ UNCHANGED <<cls, mode, csr, tok>>

\* stm32_hash_deep_copy: (nb_reg + hmac_nb_reg) words, counted for dst.
\* (CopyCountNoHmac: only nb_reg words are copied.)
CopyCountNoHmac(d) == G(d).nb
CopyCount(d) == G(d).nb + G(d).hnb

(* stm32_hash_deep_copy: same algorithm and mode; the csr words of src    *)
(* are copied into dst's own array.                                       *)
DeepCopy(d, s) ==
  /\ d # s /\ phase[s] = "init" /\ phase[d] # "none"
  /\ cls[d] = cls[s] /\ mode[d] = mode[s]
  /\ csr' = [csr EXCEPT ![d] = [i \in DOMAIN csr[d] |->
                                  IF i < CopyCount(d) THEN csr[s][i] ELSE csr[d][i]]]
  /\ tok' = [tok EXCEPT ![d] = tok[s]]
  /\ phase' = [phase EXCEPT ![d] = "init"]
  /\ intact' = [intact EXCEPT ![d] = intact[s]]
  /\ UNCHANGED <<reg, cls, mode, ntok>>

RInit ==
  /\ reg = [j \in RegIdx |-> Zero]
  /\ cls = [s \in Sessions |-> None]
  /\ mode = [s \in Sessions |-> None]
  /\ csr = [s \in Sessions |-> <<>>]
  /\ phase = [s \in Sessions |-> "none"]
  /\ tok = [s \in Sessions |-> 0]
  /\ ntok = 0
  /\ intact = [s \in Sessions |-> TRUE]

RNext ==
  \/ \E s \in Sessions, a \in Algos, m \in Modes : Alloc(s, a, m)
  \/ \E s \in Sessions :
       Free(s) \/ Init_(s) \/ UpdateBuffered(s) \/ UpdateFlush(s) \/ Final(s)
  \/ \E d, s \in Sessions : DeepCopy(d, s)

RSpec == RInit /\ [][RNext]_rvars

-----------------------------------------------------------------------------
(* Every update and final of a session starts the engine from the state   *)
(* its own last save_context (or deep_copy) left, whatever sessions of    *)
(* other classes and modes ran on the peripheral in between: the CSR      *)
(* registers restore_context writes cover the engine state, at the right *)
(* indices.                                                                *)
OwnStateRestored == \A s \in Sessions : intact[s]

(* The csr[] array of an initialised session mirrors, at every index, the *)
(* register save_context reads into it, in the session's current state:   *)
(* deep_copy copies the whole array, HMAC part included.                  *)
CsrMirrors ==
  \A s \in Sessions :
    phase[s] = "init" =>
      \A i \in DOMAIN csr[s] : csr[s][i] = Val(CsrReg(s, i), tok[s])
====
