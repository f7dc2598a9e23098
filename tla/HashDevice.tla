------------------------------ MODULE HashDevice ------------------------------
(***************************************************************************)
(* The device mutex of the STM32 HASH driver around the streaming engine. *)
(* Each session has one caller thread (contexts are single-owner).          *)
(* stm32_hash_init, _update and _final first block in                       *)
(* mutex_lock(&c->dev->lock).  Then they run their body, which is one step *)
(* of HashStream because no other thread touches the peripheral while the  *)
(* mutex is held.  Every exit path goes through the "exit:" label, which   *)
(* does clk_disable and mutex_unlock.  alloc, free and deep_copy take no   *)
(* lock and touch no register; they need their caller not to be inside a *)
(* call.                                                                   *)
(***************************************************************************)
EXTENDS HashStream

VARIABLES
  holder,  \* thread (session) holding stm32_hash->lock, or None
  call     \* [Sessions -> {"idle", "wait", "run"}]: caller's position

dvars == <<vars, holder, call>>
lockvars == <<holder, call>>

\* A call: init, update of a length in Lens, or final.
Ops == [kind : {"init", "final"}, len : {0}] \cup [kind : {"update"}, len : Lens]

\* The calls a caller makes (spec section 3): init on an allocated context,
\* then update and final while the last call succeeded.  update returns
\* before mutex_lock when len is 0, so Lens holds no 0.
MayCall(s, o) ==
  CASE o.kind = "init"   -> phase[s] # "none"
    [] o.kind = "update" -> phase[s] = "init" /\ ok[s] /\ fed[s] + o.len <= MaxFed
    [] o.kind = "final"  -> ok[s] /\ (phase[s] = "init" \/ (Misuse /\ phase[s] = "done"))

(* The caller enters stm32_hash_init, _update or _final; the argument     *)
(* check passes and mutex_lock blocks until the mutex is free.  Which call *)
(* it is, and its arguments, are only read under the mutex, so Body       *)
(* chooses them: nothing else changes the caller's context meanwhile.     *)
Call(s) ==
  /\ call[s] = "idle" /\ \E o \in Ops : MayCall(s, o)
  /\ call' = [call EXCEPT ![s] = "wait"]
  /\ UNCHANGED <<vars, holder>>

(* mutex_lock returns, then clk_enable. *)
Acquire(s) ==
  /\ call[s] = "wait" /\ holder = None
  /\ holder' = s
  /\ call' = [call EXCEPT ![s] = "run"]
  /\ UNCHANGED vars

\* "exit:" of init, update and final: clk_disable, then mutex_unlock on
\* every path.  (UnlockedHolderIfOk: an error path returns without
\* mutex_unlock, e.g. a "return res" in place of "goto exit".)
UnlockedHolderIfOk(s) == IF ok'[s] THEN None ELSE s
UnlockedHolder(s) == None

(* The body of the call under the mutex, then "exit:", and the call       *)
(* returns.  The overrun loop of stm32_hash_update never reaches "exit:": *)
(* the caller stays in the call and the mutex stays held.                 *)
Body(s) ==
  /\ call[s] = "run" /\ holder = s
  /\ \E o \in Ops :
     /\ MayCall(s, o)
     /\ CASE o.kind = "init" ->
               \E k \in KeysFor(s), f \in BOOLEAN : InitCall(s, k, f)
          [] o.kind = "update" ->
               \/ UpdateBuffered(s, o.len) \/ UpdateFlush(s, o.len)
               \/ UpdateBusyTimeout(s, o.len) \/ UpdateOverrun(s, o.len)
          [] o.kind = "final" -> FinalDone(s) \/ FinalTimeout(s)
  /\ IF stuck' = s THEN UNCHANGED <<holder, call>>
     ELSE /\ holder' = UnlockedHolder(s)
          /\ call' = [call EXCEPT ![s] = "idle"]

(* alloc, free and deep_copy: no mutex, done by an idle caller (deep_copy *)
(* reads src, so src's caller is idle too).                               *)
Unlocked ==
  \/ \E s \in Sessions, a \in Algos, m \in UsedModes :
       /\ call[s] = "idle"
       /\ AllocUnsupported(s, a, m) \/ AllocNoMem(s, a, m) \/ Alloc(s, a, m)
  \/ \E s \in Sessions : call[s] = "idle" /\ Free(s)
  \/ \E d, s \in Sessions : call[d] = "idle" /\ call[s] = "idle" /\ DeepCopy(d, s)

DInit ==
  /\ Init
  /\ holder = None
  /\ call = [s \in Sessions |-> "idle"]

DNext ==
  \/ \E s \in Sessions : Call(s)
  \/ \E s \in Sessions : Acquire(s) \/ Body(s)
  \/ Unlocked /\ UNCHANGED lockvars

(* The thread holding the mutex runs: it is never blocked inside the body *)
(* (every poll has a timeout).  OP-TEE's mutex (not in this repository)  *)
(* is assumed starvation-free: a thread waiting while the mutex is free   *)
(* again and again gets it.  Callers are not fair: they may stop calling. *)
DSpec ==
  /\ DInit /\ [][DNext]_dvars
  /\ \A s \in Sessions : WF_dvars(Body(s)) /\ SF_dvars(Acquire(s))

-----------------------------------------------------------------------------
(* Every call to init, update or final returns to its caller: the body   *)
(* ends, and every exit path releases the mutex, so no other call waits   *)
(* forever (spec section 7: a stuck flag gives a timeout, never a hang).  *)
CallReturns == \A s \in Sessions : call[s] # "idle" ~> call[s] = "idle"
====
