# TLA+ models of the STM32 HASH driver

This directory models `src/core/drivers/crypto/stm32/stm32_hash.c`, the OP-TEE driver for the STM32 HASH/HMAC accelerator. The board `src/core/arch/arm/dts/stm32mp135d-altair-mx.dts` enables `&hash` on an STM32MP13. The probe therefore selects `mp13_compat`, which has SHA-1, SHA-2 and SHA-3 and no MD5.

## 1. Inventory

### Components

| Part | Code | State | Operations |
|---|---|---|---|
| Algorithm catalog and capability gate | `stm32_hash_alloc` switch (438-540), `hw_init` switch (323-385), `mp13_compat`/`mp15_compat` (897-905) | `compat->caps`, `save_mode` | the caps check in alloc; the save class; the CR encoding |
| Session context lifecycle | `stm32_hash_alloc`, `stm32_hash_free`, `stm32_hash_deep_copy` (412-571) | `struct stm32_hash_context`: algo, mode, block_size, queue_size, `remain.{buf,len}`, imr/str/cr, `csr[]` | alloc (unsupported, two out-of-memory paths, success), free, deep_copy |
| Register transport | `wait_end_busy`, `wait_digest_ready`, `hash_write_data`, `write_key` (150-221) | the peripheral's SR, DIN and STR | word write followed by a busy poll with a timeout |
| Streaming engine | the save classes (105-121), `get_save_registers`, `save_context`, `restore_context` (223-321), `stm32_hash_update`, `stm32_hash_final`, `stm32_hash_init` (573-775) | queue_size, remain, the saved snapshot | init, update (buffered or flushing), final |
| HMAC key handling | `hw_init` (LKEY), `write_key`, key re-write in final | the key passed to init and final | key write at init and at final |
| Device handle and probe | `stm32_hash_probe`, `stm32_hash_parse_fdt` (777-917) | the global `stm32_hash` with its mutex | runs once at boot and panics on failure |
| DT glue | board dts, `src/unnamed/part_000` | static configuration | none |

### How the parts interact

- **One shared peripheral.** Every session shares one peripheral, guarded by `stm32_hash->lock`.
- **Each call runs one sequence under the lock.** `init`, `update` and `final` each take the lock, then:
  1. restore the session's snapshot (`restore_context`: IMR, STR, CR|INIT, CSR), or in init program CR from scratch;
  2. write words to DIN, each followed by a busy poll;
  3. save the snapshot back (`save_context`, which also requires DINIS, i.e. an empty FIFO);
  4. release the lock.
- **Isolation depends only on the snapshot.** Nothing else keeps two sessions apart on the peripheral.
- **Pending bytes.** `update` keeps bytes that do not yet fill the FIFO "queue" in `remain`.
  - The first queue is `block_size + 4`, because the peripheral keeps one word of look-ahead. After that it is `block_size`.
  - A flushing update first pads `remain` to a word with bytes borrowed from the new data, writes it, then writes words while `len >= queue_size || !DINIS`. It keeps the rest in `remain`.
- **deep_copy.** It copies a whole context into another one of the same algorithm and mode, without taking the lock.

### Hard behaviours

These are listed with their lines under `hazards` in PROJECT.json:

- interleaving of sessions on one peripheral;
- a timeout after some words of a call were already written;
- the threshold switching from `block+4` to `block`;
- the FIFO loop running out of input while the peripheral still wants a word;
- reuse of a structure through alloc without init;
- a deep_copy fork;
- a double free.

### What makes it correct

- Each session's snapshot and pending bytes together hold exactly the bytes its caller passed, in order.
- The digest is the hash of exactly those bytes, under the session's own algorithm, mode and key.
- `remain` stays within its allocation.
- The FIFO loop never reads past the caller's buffer.
- The spec's pending-below-threshold and threshold-downgrade rules hold.

## 2. Modules and plan

| Module | Models |
|---|---|
| `HashStream.tla` | all session operations, with two or more sessions on one peripheral |
| `MCHashStream.tla` | instantiates it for TLC: sessions `s1, s2`, keys `k1, k2`, block 8 bytes, symmetry over sessions |
| `HashSession.tla` | the abstract contract (spec sections 4.2 and 8): per session, a configuration and the message passed since open; `Open`, `Extend`, `Finish`, `Fork`, `Abort` |
| `HashLifecycle.tla` | the memory side of probe, alloc, free, init, update, final and deep_copy: heap blocks, NULL pointers, calloc failure and reuse, double free, `queue_size` 0 |
| `MCHashLifecycle.tla` | instantiates it: sessions `s1, s2`, five heap blocks, symmetry over sessions and over blocks |
| `HashDevice.tla` | composes the device mutex with `HashStream`: each session's caller blocks in `mutex_lock`, runs its call's body (one `HashStream` step) and unlocks at `exit:`; alloc, free and deep_copy run unlocked |
| `HashRegs.tla` | the CSR registers of the peripheral and each session's `csr[]` array: the save class of each algorithm, `get_save_registers`, the csr calloc, both loops of `save_context` and of `restore_context`, and the csr copy of deep_copy |
| `MCHashRegs.tla` | instantiates it: sessions `s1, s2` on the MP13 compat, one algorithm per save class (SHA256, SHA512, SHA3_256), hash and HMAC, the hardware's state registers taken from the table of spec section 4.4 |
| `MCHashDevice.tla` | instantiates it with the `MCHashStream` definitions, a one-word block and lengths {1, 9}, with no symmetry (liveness) |

### Abstraction in HashStream

- **Atomic calls.** The device mutex is held from the first register access of a call to its return, and a context belongs to one caller. Each init, update or final is therefore one step.
- **Bytes.** The bytes are their positions: the i-th byte passed since init is `i`. `Zero` (0) is a byte the driver cleared, and `Junk` (-1) is a byte read past the caller's buffer. The peripheral's CSR state is the sequence of bytes it absorbed (`snap.msg`), and CR is a record (`InitCfg`).
- **The digest.** A digest is the record `[cfg, msg, okey]`: two digests are equal exactly when the hash inputs are.
- **No register variable.** The peripheral registers are not a variable, because every call overwrites them before reading them. `Restored(s)` is what a call works on.
- **FIFO acceptance.** `Dinis(nw, B)` describes the peripheral, not code of this repository. After init it takes B+1 words before the first block, then a block at every (B·k+1)-th word. DINIS is set at init and after each block, and cleared by a DIN write.
- **Timeouts.** Each busy or digest-ready poll may time out. `UpdateBusyTimeout` and `FinalTimeout` choose the word after which it happens, and leave `remain` and `queue_size` as the code does at that point.
- **Ghost variables.** `fed`, `phase`, `ok`, `key` and `digest` are ghost state.
  - `phase` and `ok` encode the caller obligations of spec section 3: alloc, init, update*, final; after an error, only init or free.
  - The overrun's caller, once `stuck`, makes no more calls.
- **Mutation points.** Helpers such as `RemainCap`, `FirstQueueSize`, `NextQueueSize`, `InitRemain` and `CopiedCtx` name single code decisions, and the mutants replace them.

### Refinement of HashSession by HashStream

`HashStream` defines `Abs == INSTANCE HashSession WITH ...`:

- a session is open (`aopen`) when its phase is `"init"`, its last call succeeded and it is not the stuck overrun session;
- `acfg` is the session's configuration (`SessionCfg`), or `ZeroCfg` when it is closed;
- `amsg` is `snap.msg \o remain`: the bytes the peripheral absorbed, followed by the pending bytes;
- `adigest` is `digest`.

`AbsSpec == Abs!ASpec` is a temporal property. A buffered or flushing update is an `Extend`, and init is an `Open`. A successful final is a `Finish`. A timeout, an overrun or a failed re-init is an `Abort`. deep_copy is a `Fork`, and free/alloc change no open session (stutter).

### HashLifecycle

- **Pointers.** The state holds the pointers (`dev`, `rbuf`, `csr`) and the set `used` of allocated heap blocks. calloc returns any free block, including one freed earlier, or fails.
- **One call is one step.** `Run` evaluates the sequence of pointer accesses of a call in code order and stops at the first fault:
  - `Use(p)` is an unchecked dereference or free;
  - `Chk(p)` is a NULL check returning BAD_STATE.
- **Fault outcome.** The first fault ends the behaviour: `fault` is set and every action requires `fault = "none"`.
- **Discipline.** `Discipline = "strict"` is the caller order of spec section 3: alloc, init, update*, final, free. `"spec"` adds the calls the spec says must be refused (free twice, update before init).
- **Data.** The data path is in `HashStream`. Here `pend` only says whether `remain.len` is non-zero, and `queued` whether `queue_size` is non-zero.

### HashDevice

- **Caller positions.** `call[s]` is the position of session `s`'s caller:
  - `"idle"`: not inside a driver call;
  - `"wait"`: blocked in `mutex_lock`;
  - `"run"`: holding the mutex.
- **`holder`** is the thread holding `stm32_hash->lock`.
- **`Body(s)`** is the `HashStream` step of the call, followed by the `exit:` label: `clk_disable` and `mutex_unlock` (`UnlockedHolder`). An update stuck in the overrun loop never reaches `exit:`.
- **Arguments.** Which call, and with which arguments, is chosen by `Body`, because only the body reads them and the caller's context is not changed by anyone else while the caller waits.

### HashRegs

- **Register values as versions.** `reg[j]` is the value of `_HASH_CSR(j)`, written `<<j, t>>`: what register j holds in engine state `t`. Every engine step (hw_init, or words absorbed by update or final) starts from one state and produces a fresh token. So a register that holds another session's value, or an older value of the same session, is visible as a mismatch. The token counter is bounded by `MaxTok`.
- **The hardware constant.** Which registers hold the engine state for a save class and mode is a fact about the peripheral: the constant `HwRegs(class, mode)`. `MCHashRegs` gives it the table of spec section 4.4, written out on its own, not through the driver's `SAVE_*` constants.
- **The code.** `SaveTable`, `Catalog`, `Caps` and `SaveRegs` translate the `SAVE_*` defines, the save class set by each alloc case, the two compats and `get_save_registers` (whose HMAC count stays 0 in hash mode). `Saved` and `Restored` are the two loops of `save_context` and `restore_context`, at their indices. On the SHA3 HMAC overlap, the HMAC loop runs last and its write is the one left. `DeepCopy` copies `nb_reg + hmac_nb_reg` words, counted for dst.
- **The calls.** `Init_` is hw_init followed by save. `UpdateBuffered` only restores. `UpdateFlush` restores, steps and saves. `Final` restores and steps without saving. Timeouts and the data path are in `HashStream`.

### Plan for later sittings, most important first

1. Update after final under `Misuse` (the same missing state check as final twice).
2. IMR, STR and CR of the snapshot at register level (they are the configuration record in `HashStream`).

## 3. Runs

All runs use 2 sessions. The `HashStream` runs use one algorithm (`SHA256`, block scaled to 8 bytes) and `Lens = {1, 3, 9, 13}`. The `HashDevice` runs use a 4-byte block and `Lens = {1, 9}` (see below).

- **Why a block of 8 bytes is enough.** The driver uses `block_size` only through `queue_size` (`block+4`, then `block`) and through the word count of a block. Two words per block already gives the look-ahead word and the DINIS rhythm.
- **Why these lengths.** The lengths are a sub-word byte, three bytes (never aligned), two words plus one byte, and one byte over the first queue.
- **The MaxFed bounds.** 16 bytes reaches a flush with pending bytes before and after it, deep copies of flushed sessions, and digests of messages longer than the first queue. 24 bytes reaches the overrun (the overrun trace below ends at 24 bytes).

| Run | cfg | Bounds | Checks | Result |
|---|---|---|---|---|
| isolation | `MCHashStream.cfg` | hash and HMAC, key `k2` (longer than a block), MaxFed 16 | `TypeOK`, `StreamConserved`, `DigestCorrect` | pass, 905k states, about 75 s |
| hang | `MCHashStreamHang.cfg` | hash, catalog {SHA256, MD5} with caps {SHA256}, MaxFed 24 | `RemainFits` | pass, 847k states, about 60 s |
| faults | `MCHashStreamFaults.cfg` | hash, one timeout, MaxFed 16 | `StreamConserved`, `AbsSpec` | pass, 367k states, about 2 min |
| pending | `MCHashStreamPending.cfg` | hash, MaxFed 24 | `PendingBelowThreshold` | violation |
| downgrade | `MCHashStreamDowngrade.cfg` | hash, MaxFed 24 | `ThresholdDowngraded` | violation |
| lifecycle | `MCHashLifecycle.cfg` | strict order, 2 sessions, 5 blocks | `HeapSafe`, `OwnershipExact` | pass, 432 states |
| free_idempotent | `MCHashLifecycleFree.cfg` | spec order | `NoDoubleFree` | violation |
| update_before_init | `MCHashLifecycleOrder.cfg` | spec order | `NoHang` | violation |
| final_twice | `MCHashStreamFinalTwice.cfg` | hash, `Misuse = TRUE`, MaxFed 8 | `DigestCorrect` | violation |
| device_live | `MCHashDeviceLive.cfg` | hash, block 4, Lens {1, 9}, one timeout, MaxFed 10 | `CallReturns` | pass, 486k states, about 2 min |
| device_hang | `MCHashDeviceHang.cfg` | hash, block 4, Lens {1, 9}, no timeout, MaxFed 14 | `CallReturns` | violation |
| registers | `MCHashRegs.cfg` | MP13, {SHA256, SHA512, SHA3_256} × {hash, HMAC}, MaxTok 3 | `OwnStateRestored`, `CsrMirrors` | pass, 169k states, about 1 min |

### What each passing run checks

- **isolation** checks two properties while both sessions interleave every operation, including deep_copy in both directions:
  - `StreamConserved`: a session's saved snapshot followed by its `remain` is exactly its caller's stream;
  - `DigestCorrect`: a successful final returns the hash of that stream under the session's configuration and key.
- **hang** fires every action, including the overrun and the refusal of an algorithm that is not in the capabilities. It checks that `remain` never outgrows `block_size + 4`.
- **faults** lets a timeout hit after any word of update or final. It checks that a re-init restores `StreamConserved` (the digest after a timeout is reached only through that re-init, so `DigestCorrect` would add nothing there). It also checks `AbsSpec`: seen through the mapping above, every step of the driver, a timeout after any word included, is one step of the abstract contract. The refinement is checked on these bounds because on the isolation bounds the temporal check takes more than 8 minutes.
- **lifecycle** lets calloc fail at each of its three calls (probe, remain.buf, csr) and reuse freed blocks. It checks:
  - `HeapSafe`: no call touches a NULL it does not check or a freed block, frees twice, or hangs;
  - `OwnershipExact`: the allocated blocks are exactly the device and the arrays of the allocated sessions, and no two sessions share a block.
- **device_live** lets both callers contend for the mutex while one busy or digest timeout may end any call, and checks `CallReturns`: every init, update or final a caller enters returns.
  - **Why these bounds.** The block is one word (queue 8 then 4) and the lengths are a byte and two words plus a byte. A state space small enough for the liveness check still contains buffered and flushing updates, finals with and without pending bytes, timeouts, deep copies, and callers waiting on each other.
  - **What it leaves out.** With MaxFed 10 the overrun is out of reach: its shortest trace passes 14 bytes. `device_hang` covers it.
- **registers** lets two sessions of any save class and mode allocate, init, update, final, deep_copy and free in any order on one CSR file. It checks two properties:
  - `OwnStateRestored`: every update and final starts the engine from the session's own last saved state;
  - `CsrMirrors`: an initialised session's `csr[i]` is the register `save_context` reads into index i, in the session's current state.
  - **Why these bounds.** Three engine steps are enough for init s1, a step of another class over s1's registers, then s1's restore. Two sessions of different classes overlap in CSR 0..21 and beyond. The SHA3 HMAC ranges overlap each other. A third session or a fourth step makes the run take more than 5 minutes.
- **Why five blocks.** They are the device plus two arrays for each of two sessions, so each calloc can succeed or fail. After a free, a block can be reused.

### What the violation runs show

All six are findings in PROJECT.json.

- **free_idempotent** (`stm32_hash_free`, line 569): probe; then an alloc whose csr calloc fails, which frees remain.buf but leaves the pointer (line 557); then free, which frees remain.buf again. Two frees of the same context do the same thing. The spec says free is idempotent.
- **final_twice** (`stm32_hash_final`, line 693): init, update(1), final, final. The first final writes the pending byte and sets `remain.len = 0` without saving. The second restores the snapshot from before the first final and returns `TEE_SUCCESS` with the digest of the empty message. The spec says final on a finalized session is a state fault. `Misuse` is a constant of `HashStream`: when TRUE, the caller may call final on a finalized session. Every other run sets it FALSE.
- **update_before_init** (line 649): probe, alloc, update. `queue_size` is 0 from calloc, so `len >= queue_size` holds forever and the loop never stops. The spec says BadState.

- **device_hang** (line 649): with a one-word block, s1 does init, four update(1), then update(9). That leaves 5 bytes pending with `queue_size` 4. The next update(1) borrows 3 alignment bytes from a 1-byte buffer, and `len -= align` wraps. The call loops with the mutex held, and the other session's caller waits in `mutex_lock` forever.
- **The same overrun with block 8** (`stm32_hash_update`, line 649). The `hang` run fires it:
  - The trace, with block 8 (queue 12), is init, update(1), update(9), update(13), update(1).
  - The third call leaves 11 bytes pending with `queue_size` still 12. The fourth call flushes them, and the peripheral then needs one more word.
  - The loop copies 4 bytes past the caller's 1-byte buffer, and `len -= 4` wraps. The call never returns and holds the mutex.
  - With SHA-256 (block 64, queue 68) it happens for update(64), update(4), update(65), update(3): the third call leaves 65 bytes pending with `queue_size` still 68, and the fourth flush writes 17 words, the last of them on word 34, so the peripheral wants one more word with no bytes left. (update(64), update(4), update(64), update(4) does not overrun: that flush ends on word 33, where DINIS is set, with 4 bytes kept.)
- **downgrade:** after update(1) and update(13) the FIFO has taken a block, yet `queue_size` is still `block + 4`. This contradicts spec section 4, step 3.
- **pending:** update(3), update(1), update(3), update(13) returns with 8 bytes pending and `queue_size` 8. This contradicts the at-rest invariant of spec section 3.

## 4. Fairness and deadlock

### Fairness in `HashDevice` (`DSpec`)

- **`WF(Body(s))`.** The mutex holder keeps running. Its body never blocks: every poll of `wait_end_busy` and `wait_digest_ready` has a deadline, and no other lock is taken.
- **`SF(Acquire(s))`.** A waiting thread that sees the mutex free again and again eventually gets it. This is an assumption about OP-TEE's kernel mutex, which is not in this repository. Weak fairness would not do: with two callers, the mutex is free only between their calls, so a waiter could starve.
- **Callers are not fair.** A caller may stop calling at any time.

### Checking every call returns

`HashStream` and `HashLifecycle` have no fairness. Their calls are atomic, so a hang is a state there: `stuck` in `HashStream`, and `fault = "hang"` (checked by `NoHang`) in `HashLifecycle`.

### Deadlock

Deadlock is checked in every passing run except `device_live`, and none occurs. In `HashRegs`, free and alloc are always enabled. In `HashStream`, even with a stuck call, the other session can still free and allocate, which takes no lock.

`device_live` says `CHECK_DEADLOCK FALSE` because `CallReturns` is stronger there. An idle caller can always call init, or alloc or free its context. So a state with no enabled step has a caller blocked inside a call, and `CallReturns` fails on it. The mutant that skips `mutex_unlock` on an error path deadlocks both callers in `mutex_lock`, and is reported as a violation of `CallReturns`.

The two lifecycle violation runs and `device_hang` also say `CHECK_DEADLOCK FALSE`: there, a memory fault or a hang really stops the system.

## 5. Not modelled

- **The panics of probe and DT parsing** (reset, register mapping, registration). They halt boot. The error returns of probe are modelled in `HashLifecycle`.
- **Register values.** In `HashStream` they are abstracted to the byte sequence and the configuration record. `HashRegs` models the CSR registers as versions of the engine state, not as words.
- **digest_u32 and the output byte order.** Only equality of digests matters.
- **Clock enable and disable.** Every `clk_enable` is matched by the `clk_disable` at `exit:`, and the clock has no state the driver reads.
- **A deep_copy racing a call on the same context.** deep_copy takes no lock, but it touches no register. Its src and dst are single-owner contexts (spec section 5), so their callers are idle when it runs, and `HashDevice` requires that.
- **Which CSR registers the silicon really uses.** `HashRegs` checks the save and restore code against the table of spec section 4.4 (`HwRegs`). Whether that table covers all of the peripheral's hash state (e.g. CSR 22..37 for SHA-256) depends on the hardware, not on this code. If it did not, `OwnStateRestored` would fail for the missing registers.
- **NBLW of the key.**
- **More than one timeout per behaviour.**
