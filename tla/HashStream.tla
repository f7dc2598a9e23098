------------------------------ MODULE HashStream ------------------------------
(***************************************************************************)
(* The streaming engine of the STM32 HASH driver                           *)
(* (src/core/drivers/crypto/stm32/stm32_hash.c).                           *)
(*                                                                         *)
(* Caller-owned contexts (struct stm32_hash_context) share one HASH        *)
(* peripheral.  stm32_hash_init, _update and _final take the device mutex, *)
(* restore the context's saved registers into the peripheral, feed its    *)
(* FIFO, save the registers back and release the mutex.  A call holds the  *)
(* mutex from its first register access to its return and a context is    *)
(* used by one caller only, so each call is one atomic step of this model. *)
(*                                                                         *)
(* Data is abstracted to the position of each byte: the i-th byte a      *)
(* caller passes to a session after its init is i.  Zero (0) is a byte the *)
(* driver cleared, Junk (-1) a byte read past the caller's buffer or past  *)
(* remain.len.  The peripheral's hash state (the CSR registers) is the     *)
(* sequence of bytes it has absorbed; its CR value is a configuration      *)
(* record.  The sub-word byte count NBLW only matters at DCAL, where Final *)
(* uses it to cut the message.                                             *)
(*                                                                         *)
(* The peripheral's registers are not a variable: every call overwrites    *)
(* them (restore_context, or hw_init with CR.INIT) before it reads them,    *)
(* so what one call leaves there is never seen by another; the registers  *)
(* a call works on are the restored copy, Restored(s).                    *)
(***************************************************************************)
EXTENDS Integers, Sequences, FiniteSets

CONSTANTS
  Sessions,   \* caller-owned struct stm32_hash_context instances
  Algos,      \* algorithms (enum stm32_hash_algo) in the model
  BlockSize,  \* [Algos -> bytes]: c->block_size, a multiple of 4
  Caps,       \* algorithms the probed revision implements (compat->caps)
  UsedModes,  \* modes callers allocate sessions with
  Keys,       \* HMAC keys
  KeyLen,     \* [Keys -> bytes]: key length passed to init and final
  Lens,       \* lengths passed to stm32_hash_update
  MaxFed,     \* bound: bytes passed to one session between two inits
  MaxFaults,  \* bound: busy / digest-ready timeouts in one behaviour
  Misuse,     \* TRUE: a caller may call final again on a finalized session
  None

ASSUME \A a \in Algos : BlockSize[a] > 0 /\ BlockSize[a] % 4 = 0
ASSUME Caps \subseteq Algos /\ None \notin Keys /\ Misuse \in BOOLEAN

HASH == "hash"          \* STM32_HASH_MODE
HMAC == "hmac"          \* STM32_HMAC_MODE
Modes == {HASH, HMAC}
ASSUME UsedModes \subseteq Modes
Zero == 0
Junk == -1
Byte == Junk..MaxFed

\* State of a heap pointer held in the context: NULL, allocated, or freed
\* but still stored in the structure.
NULLP == "null"
LIVE  == "live"
FREED == "freed"
Ptr == {NULLP, LIVE, FREED}

\* CR as programmed by hw_init; ZeroCfg is the CR value 0 of a context
\* that was never initialised (calloc'ed caller structure).
Cfg == [algo : Algos \cup {None}, mode : Modes \cup {None}, lkey : BOOLEAN,
        ikey : Keys \cup {None}]
ZeroCfg == [algo |-> None, mode |-> None, lkey |-> FALSE, ikey |-> None]
Regs == [cfg : Cfg, msg : Seq(Byte)]
ZeroRegs == [cfg |-> ZeroCfg, msg |-> <<>>]

\* Caller-side lifecycle of a session (spec section 3): not a driver field.
Phases == {"none", "alloc", "init", "done"}

VARIABLES
  ctx,      \* [Sessions -> context]: the driver's per-session structure
  stuck,    \* session whose call never returns while holding the mutex
  faults,   \* timeouts so far
  fed,      \* ghost: number of bytes passed to each session since its init
  phase,    \* ghost: caller's view of each session's lifecycle
  ok,       \* ghost: no call on the session failed since its init
  key,      \* ghost: key the session was initialised with
  digest    \* ghost: output of the session's last successful final

vars == <<ctx, stuck, faults, fed, phase, ok, key, digest>>

\* The zeroed caller structure before stm32_hash_alloc.
NoCtx == [algo |-> None, mode |-> None, block |-> 0, cap |-> 0, qsize |-> 0,
          remain |-> <<>>, snap |-> ZeroRegs, rbuf |-> NULLP, csr |-> NULLP]

-----------------------------------------------------------------------------
(* Peripheral behaviour (not code of this repository).  The FIFO takes    *)
(* block+1 words before it starts the first block and keeps one word of    *)
(* look-ahead after that, so a block is taken when the (B*k+1)-th word     *)
(* arrives.  DINIS is set after init and whenever a block is taken, and    *)
(* cleared by the next write to DIN.                                      *)
Dinis(nw, B) == nw = 0 \/ (nw > B /\ (nw - 1) % B = 0)

-----------------------------------------------------------------------------
RoundUp4(n) == ((n + 3) \div 4) * 4

NewBytes(s, L) == [i \in 1..L |-> fed[s] + i]

\* stm32_hash_alloc: remain.buf is calloc(block_size + sizeof(uint32_t)).
RemainCapBlock(a) == BlockSize[a]
RemainCap(a) == BlockSize[a] + 4

\* stm32_hash_init: the first queue is block_size + one register.
FirstQueueSizeByte(c) == c.block + 1
FirstQueueSize(c) == c.block + 4

\* stm32_hash_init: remain.len = 0 (InitRemainKept: the reset is missing).
InitRemainKept(r) == r
InitRemain(r) == <<>>

\* stm32_hash_update: queue_size becomes block_size once the data left
\* after the saved bytes fill the current queue.
NextQueueSize(c, len) == IF len >= c.qsize THEN c.block ELSE c.qsize

\* stm32_hash_deep_copy: the structure (CR, IMR, STR, remain.len, queue
\* size) is copied, dst keeps its own remain.buf and csr arrays, and both
\* are then filled from src.
CopiedCtxNoCsr(dst, src) ==
  [ctx[src] EXCEPT !.cap = ctx[dst].cap, !.rbuf = ctx[dst].rbuf,
                   !.csr = ctx[dst].csr, !.snap.msg = ctx[dst].snap.msg]
CopiedCtx(dst, src) ==
  [ctx[src] EXCEPT !.cap = ctx[dst].cap, !.rbuf = ctx[dst].rbuf,
                   !.csr = ctx[dst].csr]

\* The bytes passed to session s since its init.
Stream(s) == [i \in 1..fed[s] |-> i]

\* The first n bytes of seq, each cleared (c->remain.buf[i] = 0).
ZeroWords(seq, n) == [j \in DOMAIN seq |-> IF j <= 4 * n THEN Zero ELSE seq[j]]

\* restore_context: IMR, STR, CR (with INIT) and the CSR registers are
\* written from the context's saved copy.  (RestoredNoCsr: the CSR loops
\* write nothing, so the peripheral restarts from CR.INIT.)
RestoredNoCsr(s) == [cfg |-> ctx[s].snap.cfg, msg |-> <<>>]
Restored(s) == ctx[s].snap

\* hw_init: CR value for the context's algorithm and mode; LKEY is set
\* when the HMAC key is longer than a block.
InitCfg(c, k) ==
  [algo |-> c.algo, mode |-> c.mode,
   lkey |-> c.mode = HMAC /\ KeyLen[k] > c.block,
   ikey |-> IF c.mode = HMAC THEN k ELSE None]

\* save_context: after the busy wait, the FIFO must be empty (DINIS set).
SaveOk(regs, c) == Dinis(Len(regs.msg) \div 4, c.block \div 4)

\* Number of words the while loop of stm32_hash_update writes while a full
\* word of input is left: it runs while len >= queue_size or DINIS is clear.
RECURSIVE FeedWords(_, _, _, _)
FeedWords(nw, rest, q, B) ==
  IF (rest >= q \/ ~Dinis(nw, B)) /\ rest >= 4
  THEN 1 + FeedWords(nw + 1, rest - 4, q, B)
  ELSE 0

\* stm32_hash_update when the bytes reach queue_size: the saved bytes are
\* padded to a word with the first new bytes and written, then the new
\* data is written word by word; what is left goes to remain.  "words" is
\* every byte written to DIN in order, "nr" the number of words of the
\* saved part, "overrun" that the loop would write a word with len < 4.
FlushPlan(s, L) ==
  LET c     == ctx[s]
      data  == NewBytes(s, L)
      rlen  == Len(c.remain)
      align == RoundUp4(rlen) - rlen
      rr    == c.remain \o [i \in 1..align |-> IF i <= L THEN data[i] ELSE Junk]
      rest0 == L - align
      B     == c.block \div 4
      nw0   == Len(Restored(s).msg) \div 4 + Len(rr) \div 4
      k     == IF rest0 < 0 THEN 0 ELSE FeedWords(nw0, rest0, c.qsize, B)
  IN [rr      |-> rr,
      nr      |-> Len(rr) \div 4,
      words   |-> rr \o SubSeq(data, align + 1, align + 4 * k),
      left    |-> SubSeq(data, align + 4 * k + 1, L),
      nq      |-> NextQueueSize(c, rest0),
      overrun |-> rest0 < 0 \/ rest0 - 4 * k >= c.qsize \/ ~Dinis(nw0 + k, B)]

\* stm32_hash_final: NBLW, the number of valid bytes of the last word
\* written (0: all four).  (NblwCleared: NBLW is cleared as in the branch
\* with nothing pending.)
NblwCleared(r) == 0
Nblw(r) == Len(r) % 4

\* stm32_hash_final: the saved bytes are written as whole words, NBLW is
\* set to the number of valid bytes of the last word, DCAL is set and, in
\* HMAC mode, the key is written again.  The digest is the configuration
\* and the message cut to the valid bytes, and the outer key.
FinalPlan(s, k) ==
  LET c    == ctx[s]
      h    == Restored(s)
      r    == c.remain
      nwr  == (Len(r) + 3) \div 4
      msg  == h.msg \o r \o [i \in 1..(4 * nwr - Len(r)) |-> Junk]
      nblw == Nblw(r)
      cut  == IF nblw = 0 THEN 0 ELSE 4 - nblw
  IN [nwr    |-> nwr,
      regs   |-> [h EXCEPT !.msg = msg],
      digest |-> [cfg  |-> h.cfg,
                  msg  |-> SubSeq(msg, 1, Len(msg) - cut),
                  okey |-> IF c.mode = HMAC THEN k ELSE None]]

-----------------------------------------------------------------------------
(* Caller obligations (spec section 3): a session is allocated, then       *)
(* initialised, updated and finalised; after an error it is only           *)
(* re-initialised or freed.  The owner of a stuck call makes no call.     *)
Idle(s) == s # stuck
CanStream(s) == Idle(s) /\ stuck = None /\ phase[s] = "init" /\ ok[s]

\* stm32_hash_final checks only the key (lines 693-694), so nothing stops
\* a caller who calls it again once the session is finalized.
CanFinal(s) ==
  \/ CanStream(s)
  \/ Misuse /\ Idle(s) /\ stuck = None /\ phase[s] = "done" /\ ok[s]

\* Keys a caller passes: none in hash mode, a key in HMAC mode.
KeysFor(s) == IF ctx[s].mode = HMAC THEN Keys ELSE {None}

-----------------------------------------------------------------------------
(* stm32_hash_alloc *)
AllocUnsupported(s, a, m) ==
  /\ Idle(s) /\ phase[s] = "none" /\ a \notin Caps
  /\ ctx' = [ctx EXCEPT ![s].algo = a, ![s].mode = m]
  /\ UNCHANGED <<stuck, faults, fed, phase, ok, key, digest>>

\* calloc of remain.buf fails, or calloc of csr fails and remain.buf is
\* freed but left in the structure.
AllocNoMem(s, a, m) ==
  /\ Idle(s) /\ phase[s] = "none" /\ a \in Caps
  /\ \E bufOk \in BOOLEAN :
       ctx' = [ctx EXCEPT ![s] = [@ EXCEPT !.algo = a, !.mode = m,
                                   !.block = BlockSize[a],
                                   !.rbuf = IF bufOk THEN FREED ELSE NULLP,
                                   !.csr = IF bufOk THEN NULLP ELSE @]]
  /\ UNCHANGED <<stuck, faults, fed, phase, ok, key, digest>>

Alloc(s, a, m) ==
  /\ Idle(s) /\ phase[s] = "none" /\ a \in Caps
  /\ ctx' = [ctx EXCEPT ![s] = [@ EXCEPT !.algo = a, !.mode = m,
                                   !.block = BlockSize[a],
                                   !.cap = RemainCap(a),
                                   !.remain = [j \in DOMAIN @ |-> Zero],
                                   !.snap.msg = <<>>,
                                   !.rbuf = LIVE, !.csr = LIVE]]
  /\ phase' = [phase EXCEPT ![s] = "alloc"]
  /\ UNCHANGED <<stuck, faults, fed, ok, key, digest>>

(* stm32_hash_free *)
Free(s) ==
  /\ Idle(s) /\ phase[s] # "none"
  /\ ctx' = [ctx EXCEPT ![s].rbuf = FREED, ![s].csr = FREED]
  /\ phase' = [phase EXCEPT ![s] = "none"]
  /\ UNCHANGED <<stuck, faults, fed, ok, key, digest>>

(* stm32_hash_init: remain emptied, queue_size = block + 4, CR programmed, *)
(* the HMAC key written, then the registers saved.  A busy timeout in the  *)
(* key write or in save_context leaves the saved registers as they were.   *)
InitCall(s, k, fails) ==
  /\ Idle(s) /\ stuck = None /\ phase[s] # "none"
  /\ k \in KeysFor(s)
  /\ fails => faults < MaxFaults
  /\ LET regs == [cfg |-> InitCfg(ctx[s], k), msg |-> <<>>]
     IN /\ ctx' = [ctx EXCEPT ![s] = [@ EXCEPT !.remain = InitRemain(@),
                                         !.qsize = FirstQueueSize(ctx[s]),
                                         !.snap = IF fails \/ ~SaveOk(regs, ctx[s])
                                                  THEN @ ELSE regs]]
        /\ ok' = [ok EXCEPT ![s] = ~fails /\ SaveOk(regs, ctx[s])]
  /\ faults' = IF fails THEN faults + 1 ELSE faults
  /\ fed' = [fed EXCEPT ![s] = 0]
  /\ phase' = [phase EXCEPT ![s] = "init"]
  /\ key' = [key EXCEPT ![s] = k]
  /\ digest' = [digest EXCEPT ![s] = None]
  /\ UNCHANGED stuck

(* stm32_hash_update, bytes kept in remain: the registers are restored but *)
(* not saved again.                                                        *)
UpdateBuffered(s, L) ==
  /\ CanStream(s) /\ fed[s] + L <= MaxFed
  /\ Len(ctx[s].remain) + L < ctx[s].qsize
  /\ ctx' = [ctx EXCEPT ![s].remain = @ \o NewBytes(s, L)]
  /\ fed' = [fed EXCEPT ![s] = @ + L]
  /\ UNCHANGED <<stuck, faults, phase, ok, key, digest>>

(* stm32_hash_update, FIFO filled: every word written, queue_size updated, *)
(* the rest kept in remain and the registers saved.                        *)
UpdateFlush(s, L) ==
  /\ CanStream(s) /\ fed[s] + L <= MaxFed
  /\ Len(ctx[s].remain) + L >= ctx[s].qsize
  /\ LET p    == FlushPlan(s, L)
         regs == [Restored(s) EXCEPT !.msg = @ \o p.words]
         saved == SaveOk(regs, ctx[s])
     IN /\ ~p.overrun
        /\ ctx' = [ctx EXCEPT ![s] = [@ EXCEPT !.remain = p.left, !.qsize = p.nq,
                                         !.snap = IF saved THEN regs ELSE @]]
        /\ ok' = [ok EXCEPT ![s] = saved]
  /\ fed' = [fed EXCEPT ![s] = @ + L]
  /\ UNCHANGED <<stuck, faults, phase, key, digest>>

(* stm32_hash_update, FIFO filled, the busy wait after the i-th word times *)
(* out (i = number of words + 1: the busy wait of save_context).  Words    *)
(* of remain written so far are cleared; once remain is written its length *)
(* is 0; queue_size is only updated after the loop.                        *)
UpdateBusyTimeout(s, L) ==
  /\ CanStream(s) /\ fed[s] + L <= MaxFed /\ faults < MaxFaults
  /\ Len(ctx[s].remain) + L >= ctx[s].qsize
  /\ LET p == FlushPlan(s, L)
         n == Len(p.words) \div 4
     IN \E i \in 1..(IF p.overrun THEN n ELSE n + 1) :
          ctx' = [ctx EXCEPT ![s] = [@ EXCEPT
                        !.remain = IF i <= p.nr THEN ZeroWords(p.rr, i - 1)
                                   ELSE IF i <= n THEN <<>> ELSE p.left,
                        !.qsize = IF i <= n THEN @ ELSE p.nq]]
  /\ ok' = [ok EXCEPT ![s] = FALSE]
  /\ faults' = faults + 1
  /\ fed' = [fed EXCEPT ![s] = @ + L]
  /\ UNCHANGED <<stuck, phase, key, digest>>

(* stm32_hash_update, FIFO filled, the loop goes on with len < 4: it reads *)
(* past the caller's buffer and len -= 4 wraps, so the call never returns  *)
(* and keeps the mutex.                                                    *)
UpdateOverrun(s, L) ==
  /\ CanStream(s) /\ fed[s] + L <= MaxFed
  /\ Len(ctx[s].remain) + L >= ctx[s].qsize
  /\ FlushPlan(s, L).overrun
  /\ stuck' = s
  /\ fed' = [fed EXCEPT ![s] = @ + L]
  /\ UNCHANGED <<ctx, faults, phase, ok, key, digest>>

(* stm32_hash_final: remain written, DCAL, key written again in HMAC mode, *)
(* digest read once DCIS is set; the registers are not saved.  The caller  *)
(* passes the key it gave to init.  A final on a finalized session runs    *)
(* the same code on the snapshot saved before the first final.             *)
FinalDone(s) ==
  /\ CanFinal(s)
  /\ digest' = [digest EXCEPT ![s] = FinalPlan(s, key[s]).digest]
  /\ ctx' = [ctx EXCEPT ![s].remain = <<>>]
  /\ phase' = [phase EXCEPT ![s] = "done"]
  /\ UNCHANGED <<stuck, faults, fed, ok, key>>

(* stm32_hash_final, a timeout: after the i-th word of remain (cleared     *)
(* words of remain stay counted), or (i = words + 1) in the key write or   *)
(* the digest-ready wait, once remain.len is 0.                            *)
FinalTimeout(s) ==
  /\ CanFinal(s) /\ faults < MaxFaults
  /\ LET nwr == FinalPlan(s, key[s]).nwr
     IN \E i \in 1..(nwr + 1) :
          ctx' = [ctx EXCEPT ![s].remain = IF i <= nwr THEN ZeroWords(@, i - 1)
                                                        ELSE <<>>]
  /\ ok' = [ok EXCEPT ![s] = FALSE]
  /\ faults' = faults + 1
  /\ UNCHANGED <<stuck, fed, phase, key, digest>>

(* stm32_hash_deep_copy: the whole structure is copied, then dst's own     *)
(* buffers are put back and filled from src.  No mutex is taken.           *)
DeepCopy(dst, src) ==
  /\ Idle(dst) /\ Idle(src) /\ dst # src
  /\ phase[dst] # "none" /\ phase[src] = "init" /\ ok[src]
  /\ ctx[dst].mode = ctx[src].mode /\ ctx[dst].algo = ctx[src].algo
  /\ ctx' = [ctx EXCEPT ![dst] = CopiedCtx(dst, src)]
  /\ fed' = [fed EXCEPT ![dst] = fed[src]]
  /\ key' = [key EXCEPT ![dst] = key[src]]
  /\ phase' = [phase EXCEPT ![dst] = "init"]
  /\ ok' = [ok EXCEPT ![dst] = TRUE]
  /\ digest' = [digest EXCEPT ![dst] = None]
  /\ UNCHANGED <<stuck, faults>>

-----------------------------------------------------------------------------
Init ==
  /\ ctx = [s \in Sessions |-> NoCtx]
  /\ stuck = None
  /\ faults = 0
  /\ fed = [s \in Sessions |-> 0]
  /\ phase = [s \in Sessions |-> "none"]
  /\ ok = [s \in Sessions |-> FALSE]
  /\ key = [s \in Sessions |-> None]
  /\ digest = [s \in Sessions |-> None]

Next ==
  \/ \E s \in Sessions, a \in Algos, m \in UsedModes :
        AllocUnsupported(s, a, m) \/ AllocNoMem(s, a, m) \/ Alloc(s, a, m)
  \/ \E s \in Sessions : Free(s)
  \/ \E s \in Sessions, k \in Keys \cup {None}, f \in BOOLEAN : InitCall(s, k, f)
  \/ \E s \in Sessions, L \in Lens :
        \/ UpdateBuffered(s, L) \/ UpdateFlush(s, L)
        \/ UpdateBusyTimeout(s, L) \/ UpdateOverrun(s, L)
  \/ \E s \in Sessions : FinalDone(s) \/ FinalTimeout(s)
  \/ \E d, s \in Sessions : DeepCopy(d, s)

Spec == Init /\ [][Next]_vars

-----------------------------------------------------------------------------
(* Properties *)

\* queue_size of a zeroed structure, then block_size + 4 and block_size.
QSizes == {0} \cup {BlockSize[a] : a \in Algos} \cup {BlockSize[a] + 4 : a \in Algos}

TypeOK ==
  /\ ctx \in [Sessions -> [algo : Algos \cup {None}, mode : Modes \cup {None},
                           block : Nat, cap : Nat, qsize : QSizes,
                           remain : Seq(Byte), snap : Regs,
                           rbuf : Ptr, csr : Ptr]]
  /\ stuck \in Sessions \cup {None}
  /\ faults \in 0..MaxFaults
  /\ fed \in [Sessions -> 0..MaxFed]
  /\ phase \in [Sessions -> Phases]
  /\ ok \in [Sessions -> BOOLEAN]
  /\ key \in [Sessions -> Keys \cup {None}]

\* The configuration a correctly initialised session runs with.
SessionCfg(s) == InitCfg(ctx[s], key[s])

(* Save/restore isolation and streaming: for a session whose calls all    *)
(* succeeded since init, the bytes absorbed in its saved registers         *)
(* followed by the bytes pending in remain are exactly the bytes its       *)
(* caller passed, in order, whatever other sessions did on the peripheral  *)
(* in between, and its saved CR is its own.  (A stuck call never returned *)
(* to its caller.)                                                         *)
StreamConserved ==
  \A s \in Sessions :
    phase[s] = "init" /\ ok[s] /\ s # stuck =>
      /\ ctx[s].snap.msg \o ctx[s].remain = Stream(s)
      /\ ctx[s].snap.cfg = SessionCfg(s)

(* The digest stm32_hash_final returns is the hash, under the session's   *)
(* own algorithm, mode and key, of exactly the bytes passed since init.    *)
DigestCorrect ==
  \A s \in Sessions :
    phase[s] = "done" /\ ok[s] =>
      digest[s] = [cfg  |-> SessionCfg(s), msg |-> Stream(s),
                   okey |-> IF ctx[s].mode = HMAC THEN key[s] ELSE None]

(* remain never holds more bytes than remain.buf was allocated with       *)
(* (block_size + 4 in stm32_hash_alloc): the memcpy calls of               *)
(* stm32_hash_update stay inside the buffer.                               *)
RemainFits ==
  \A s \in Sessions : ctx[s].rbuf = LIVE => Len(ctx[s].remain) <= ctx[s].cap

(* Refinement: a session is open for its caller while its calls have all  *)
(* succeeded since init and none hangs; its message is what the saved     *)
(* registers absorbed followed by what remain holds.                      *)
IsOpen(s) == phase[s] = "init" /\ ok[s] /\ s # stuck

Abs == INSTANCE HashSession WITH
         aopen   <- [s \in Sessions |-> IsOpen(s)],
         acfg    <- [s \in Sessions |-> IF IsOpen(s) THEN SessionCfg(s) ELSE ZeroCfg],
         amsg    <- [s \in Sessions |-> IF IsOpen(s)
                                         THEN ctx[s].snap.msg \o ctx[s].remain
                                         ELSE <<>>],
         adigest <- digest,
         Cfgs    <- Cfg,
         NoCfg   <- ZeroCfg

(* Every behaviour of the driver's sessions, seen through this mapping, is *)
(* a behaviour of HashSession: each init, update, final, deep_copy and     *)
(* failure is an Open, Append, Finish, Fork or Abort of that session and   *)
(* leaves every other session's message, configuration and digest alone.  *)
AbsSpec == Abs!ASpec

(* Spec section 3: between calls an initialised session holds fewer        *)
(* pending bytes than its FIFO threshold (remain.len < queue_size), so the *)
(* next stm32_hash_update flushes them before the threshold is exceeded.   *)
PendingBelowThreshold ==
  \A s \in Sessions :
    phase[s] = "init" /\ ok[s] /\ s # stuck =>
      Len(ctx[s].remain) < ctx[s].qsize

(* Spec section 4 (update, step 3): once a session's first flush has fed   *)
(* the FIFO, queue_size is block_size for good.                            *)
ThresholdDowngraded ==
  \A s \in Sessions :
    phase[s] = "init" /\ ok[s] /\ s # stuck /\ ctx[s].snap.msg # <<>> =>
      ctx[s].qsize = ctx[s].block
====
