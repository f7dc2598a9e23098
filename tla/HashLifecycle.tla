----------------------------- MODULE HashLifecycle -----------------------------
(***************************************************************************)
(* The memory side of the STM32 HASH driver                                 *)
(* (src/core/drivers/crypto/stm32/stm32_hash.c): the device structure      *)
(* calloc'ed by stm32_hash_probe, and the remain.buf and csr arrays that    *)
(* stm32_hash_alloc attaches to a caller-owned context.  The heap is a set *)
(* of blocks; calloc returns any free block (so freed blocks are reused)   *)
(* or NULL.  Every call is one step whose outcome is the first pointer     *)
(* access, in code order, that is NULL or not allocated: a NULL that the   *)
(* code checks returns BAD_STATE, one it does not check is a NULL          *)
(* dereference, and a freed block is a use after free.  Hashing data is    *)
(* left to HashStream; here a context only records whether bytes are       *)
(* pending (remain.len # 0) and whether queue_size was ever set.           *)
(***************************************************************************)
EXTENDS Sequences, FiniteSets

CONSTANTS
  Sessions,    \* caller-owned struct stm32_hash_context instances
  Blocks,      \* heap blocks calloc can return
  Discipline,  \* "strict": the intended call order; "spec": what spec.md allows
  NULLP

ASSUME NULLP \notin Blocks /\ Discipline \in {"strict", "spec"}

Ptr == Blocks \cup {NULLP}
Outcomes == {"none", "double_free", "use_after_free", "null_deref", "hang"}

VARIABLES
  probed,   \* stm32_hash_probe has run
  device,   \* the global stm32_hash pointer
  used,     \* heap blocks currently allocated
  dev,      \* [Sessions -> Ptr]: c->dev
  rbuf,     \* [Sessions -> Ptr]: c->remain.buf
  csr,      \* [Sessions -> Ptr]: c->csr
  queued,   \* [Sessions -> BOOLEAN]: c->queue_size # 0
  pend,     \* [Sessions -> BOOLEAN]: c->remain.len # 0
  phase,    \* ghost: caller's view of the session
  fault     \* ghost: the first memory fault or hang, "none" so far

vars == <<probed, device, used, dev, rbuf, csr, queued, pend, phase, fault>>

-----------------------------------------------------------------------------
(* A pointer access of the code: chk is TRUE when the code tests the       *)
(* pointer for NULL first and returns TEE_ERROR_BAD_STATE.                 *)
Use(p) == [p |-> p, chk |-> FALSE]
Chk(p) == [p |-> p, chk |-> TRUE]

\* The outcome of a call's pointer accesses done in order.
RECURSIVE Run(_)
Run(acc) ==
  IF acc = <<>> THEN "ok"
  ELSE LET a == Head(acc) IN
       IF a.p = NULLP THEN IF a.chk THEN "bad_state" ELSE "null_deref"
       ELSE IF a.p \notin used THEN "use_after_free"
       ELSE Run(Tail(acc))

Faulty(r) == r \in {"null_deref", "use_after_free"}
Fault(r) == IF Faulty(r) THEN r ELSE "none"

\* free(p): free(NULL) does nothing, a block not allocated is freed twice.
FreeOutcome(p) == IF p # NULLP /\ p \notin used THEN "double_free" ELSE "none"
Freed(u, p) == u \ {p}

FreeBlocks == Blocks \ used

-----------------------------------------------------------------------------
(* Caller obligations.  "strict": alloc a fresh or freed context, free it  *)
(* once after a successful alloc, init before update and final, deep copy *)
(* from an initialised session.  "spec": spec.md section 4.2 says free is  *)
(* idempotent on a freed or NULL context and section 7 that a call out of *)
(* lifecycle order fails with BadState, so such calls are made too.      *)
Strict == Discipline = "strict"
CanAlloc(s) == phase[s] \in {"none", "failed"} \/ ~Strict
CanFree(s) == phase[s] \in {"alloc", "init"} \/ ~Strict
CanInit(s) == phase[s] \in {"alloc", "init"} \/ ~Strict
CanCall(s) == phase[s] = "init" \/ ~Strict

\* Driver probe runs at boot, before any session call; a crash or hang
\* ends the behaviour.
Live == fault = "none"
Booted == Live /\ probed

-----------------------------------------------------------------------------
(* stm32_hash_probe: platform data or DT parsing fails, the device calloc  *)
(* fails, or the device is allocated (resets, mutex, registration).       *)
ProbeFails ==
  /\ Live /\ ~probed
  /\ probed' = TRUE
  /\ UNCHANGED <<device, used, dev, rbuf, csr, queued, pend, phase, fault>>

Probe ==
  /\ Live /\ ~probed
  /\ \E b \in FreeBlocks : device' = b /\ used' = used \cup {b}
  /\ probed' = TRUE
  /\ UNCHANGED <<dev, rbuf, csr, queued, pend, phase, fault>>

(* stm32_hash_alloc before a successful probe: TEE_ERROR_NOT_IMPLEMENTED.  *)
AllocNoDevice(s) ==
  /\ Booted /\ CanAlloc(s) /\ device = NULLP
  /\ UNCHANGED vars

(* stm32_hash_alloc of an algorithm outside compat->caps: c->dev is set,  *)
(* nothing is allocated.                                                   *)
AllocUnsupported(s) ==
  /\ Booted /\ CanAlloc(s) /\ device # NULLP
  /\ dev' = [dev EXCEPT ![s] = device]
  /\ UNCHANGED <<probed, device, used, rbuf, csr, queued, pend, phase, fault>>

(* calloc of remain.buf returns NULL.                                      *)
AllocBufNoMem(s) ==
  /\ Booted /\ CanAlloc(s) /\ device # NULLP
  /\ dev' = [dev EXCEPT ![s] = device]
  /\ rbuf' = [rbuf EXCEPT ![s] = NULLP]
  /\ phase' = [phase EXCEPT ![s] = "failed"]
  /\ UNCHANGED <<probed, device, used, csr, queued, pend, fault>>

(* calloc of csr returns NULL: remain.buf is freed but stays in c.         *)
AllocCsrLeak(s, b) == used \cup {b}
AllocCsrFreed(s, b) == Freed(used \cup {b}, b)
AllocCsrNoMem(s) ==
  /\ Booted /\ CanAlloc(s) /\ device # NULLP
  /\ \E b \in FreeBlocks :
       /\ rbuf' = [rbuf EXCEPT ![s] = b]
       /\ used' = AllocCsrFreed(s, b)
  /\ dev' = [dev EXCEPT ![s] = device]
  /\ csr' = [csr EXCEPT ![s] = NULLP]
  /\ phase' = [phase EXCEPT ![s] = "failed"]
  /\ UNCHANGED <<probed, device, queued, pend, fault>>

Alloc(s) ==
  /\ Booted /\ CanAlloc(s) /\ device # NULLP
  /\ \E b, c \in FreeBlocks :
       /\ b # c
       /\ rbuf' = [rbuf EXCEPT ![s] = b]
       /\ csr' = [csr EXCEPT ![s] = c]
       /\ used' = used \cup {b, c}
  /\ dev' = [dev EXCEPT ![s] = device]
  /\ phase' = [phase EXCEPT ![s] = "alloc"]
  /\ UNCHANGED <<probed, device, queued, pend, fault>>

(* stm32_hash_free: free(remain.buf) then free(csr); the pointers are     *)
(* left in the structure.  (FreeBufTwice: the second call frees remain.buf *)
(* again instead of csr.)                                                  *)
FreeBufTwice(s) ==
  LET u1 == Freed(used, rbuf[s])
  IN [fault |-> IF FreeOutcome(rbuf[s]) # "none" THEN FreeOutcome(rbuf[s])
                ELSE IF rbuf[s] # NULLP THEN "double_free" ELSE "none",
      used  |-> u1]
FreeCalls(s) ==
  LET u1 == Freed(used, rbuf[s])
      f2 == IF csr[s] # NULLP /\ csr[s] \notin u1 THEN "double_free" ELSE "none"
  IN [fault |-> IF FreeOutcome(rbuf[s]) # "none" THEN FreeOutcome(rbuf[s]) ELSE f2,
      used  |-> Freed(u1, csr[s])]
Free(s) ==
  /\ Booted /\ CanFree(s)
  /\ fault' = FreeCalls(s).fault
  /\ used' = FreeCalls(s).used
  /\ phase' = [phase EXCEPT ![s] = "none"]
  /\ UNCHANGED <<probed, device, dev, rbuf, csr, queued, pend>>

(* stm32_hash_init: mutex_lock(&c->dev->lock), memset(remain.buf), hw_init *)
(* and save_context, which returns BAD_STATE on a NULL csr.               *)
InitCall(s) ==
  /\ Booted /\ CanInit(s)
  /\ LET r == Run(<<Use(dev[s]), Use(rbuf[s]), Chk(csr[s])>>)
     IN /\ fault' = Fault(r)
        /\ phase' = [phase EXCEPT ![s] = IF r = "ok" THEN "init" ELSE @]
  /\ queued' = [queued EXCEPT ![s] = TRUE]
  /\ pend' = [pend EXCEPT ![s] = FALSE]
  /\ UNCHANGED <<probed, device, used, dev, rbuf, csr>>

(* stm32_hash_update: restore_context (BAD_STATE on a NULL csr); with      *)
(* queue_size 0 the loop condition len >= queue_size always holds and the *)
(* call never returns; otherwise remain.buf is used (checked for NULL)    *)
(* when bytes are buffered, were pending or are left over, and the        *)
(* context is saved.                                                       *)
UpdateCall(s) ==
  /\ Booted /\ CanCall(s)
  /\ \E buffered, left \in BOOLEAN :
       LET touch == buffered \/ pend[s] \/ left
           r0 == Run(<<Use(dev[s]), Chk(csr[s])>>)
           r  == IF r0 # "ok" THEN r0
                 ELSE IF ~queued[s] THEN "hang"
                 ELSE Run(IF touch THEN <<Chk(rbuf[s])>> ELSE <<>>)
       IN /\ fault' = IF r = "hang" THEN "hang" ELSE Fault(r)
          /\ pend' = [pend EXCEPT ![s] = IF r = "ok" THEN buffered \/ left ELSE @]
  /\ UNCHANGED <<probed, device, used, dev, rbuf, csr, queued, phase>>

(* stm32_hash_final: restore_context, the pending bytes of remain.buf are *)
(* written (checked for NULL), the digest is read; remain.len becomes 0.  *)
FinalCall(s) ==
  /\ Booted /\ CanCall(s)
  /\ LET r == Run(<<Use(dev[s]), Chk(csr[s])>> \o
                  (IF pend[s] THEN <<Chk(rbuf[s])>> ELSE <<>>))
     IN /\ fault' = Fault(r)
        /\ pend' = [pend EXCEPT ![s] = IF r = "ok" THEN FALSE ELSE @]
        /\ phase' = [phase EXCEPT ![s] = IF r = "ok" /\ Strict THEN "alloc" ELSE @]
  /\ UNCHANGED <<probed, device, used, dev, rbuf, csr, queued>>

(* stm32_hash_deep_copy: the structure is copied, dst's own remain.buf    *)
(* and csr pointers are put back, then remain.len bytes and the csr words *)
(* are copied between the arrays.  (CopiedPtrsKept: the pointers are not *)
(* put back, so dst shares src's arrays.)                                  *)
CopiedPtrsKept(d, s) == [rbuf |-> rbuf[s], csr |-> csr[s]]
CopiedPtrs(d, s) == [rbuf |-> rbuf[d], csr |-> csr[d]]
DeepCopy(d, s) ==
  /\ Booted /\ d # s
  /\ Strict => phase[s] = "init" /\ phase[d] \in {"alloc", "init"}
  /\ LET p == CopiedPtrs(d, s)
         r == Run((IF pend[s] THEN <<Use(p.rbuf), Use(rbuf[s])>> ELSE <<>>)
                  \o <<Use(p.csr), Use(csr[s])>>)
     IN /\ rbuf' = [rbuf EXCEPT ![d] = p.rbuf]
        /\ csr' = [csr EXCEPT ![d] = p.csr]
        /\ fault' = Fault(r)
        /\ phase' = [phase EXCEPT ![d] = IF r = "ok" THEN phase[s] ELSE @]
  /\ dev' = [dev EXCEPT ![d] = dev[s]]
  /\ queued' = [queued EXCEPT ![d] = queued[s]]
  /\ pend' = [pend EXCEPT ![d] = pend[s]]
  /\ UNCHANGED <<probed, device, used>>

-----------------------------------------------------------------------------
Init ==
  /\ probed = FALSE /\ device = NULLP /\ used = {}
  /\ dev = [s \in Sessions |-> NULLP]
  /\ rbuf = [s \in Sessions |-> NULLP]
  /\ csr = [s \in Sessions |-> NULLP]
  /\ queued = [s \in Sessions |-> FALSE]
  /\ pend = [s \in Sessions |-> FALSE]
  /\ phase = [s \in Sessions |-> "none"]
  /\ fault = "none"

Next ==
  \/ ProbeFails \/ Probe
  \/ \E s \in Sessions :
       \/ AllocNoDevice(s) \/ AllocUnsupported(s) \/ AllocBufNoMem(s)
       \/ AllocCsrNoMem(s) \/ Alloc(s) \/ Free(s)
       \/ InitCall(s) \/ UpdateCall(s) \/ FinalCall(s)
  \/ \E d, s \in Sessions : DeepCopy(d, s)

Spec == Init /\ [][Next]_vars

-----------------------------------------------------------------------------
(* No free, memset, memcpy or register save of the driver touches a NULL  *)
(* it does not check, a block already freed, or frees a block twice, and  *)
(* no stm32_hash_update call hangs, for a caller that keeps the intended   *)
(* order, while calloc reuses freed blocks and fails at any allocation.   *)
HeapSafe == fault = "none"

(* Ownership: the allocated blocks are exactly the device and the arrays   *)
(* of the allocated sessions, and no block is held twice (deep_copy keeps *)
(* dst's own arrays; the failing alloc releases remain.buf; free releases *)
(* both arrays).                                                           *)
Held == {device} \cup UNION {{rbuf[s], csr[s]} : s \in {x \in Sessions : phase[x] \in {"alloc", "init"}}}
OwnershipExact ==
  /\ used = Held \ {NULLP}
  /\ \A s, t \in Sessions :
       s # t /\ phase[s] \in {"alloc", "init"} /\ phase[t] \in {"alloc", "init"} =>
         {rbuf[s], csr[s]} \cap {rbuf[t], csr[t]} = {}

(* Spec section 4.2: free is idempotent on an already-freed context.  No     *)
(* stm32_hash_free call frees a block twice.                              *)
NoDoubleFree == fault # "double_free"

(* Spec section 7: a session used out of its lifecycle order fails with    *)
(* BadState.  No stm32_hash_update call on a context that was allocated   *)
(* but never initialised hangs.                                           *)
NoHang == fault # "hang"
====
