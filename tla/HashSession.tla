------------------------------ MODULE HashSession ------------------------------
(***************************************************************************)
(* What the STM32 HASH driver promises each caller (spec.md sections 4.2   *)
(* and 8), with no peripheral, FIFO or pending buffer: an open session has *)
(* a configuration and the message passed to it since it was opened;       *)
(* update extends the message, final returns the hash of the               *)
(* configuration and the message, deep_copy forks the message, and any     *)
(* failed call closes the session.  Message bytes are numbered by          *)
(* position, as in HashStream.                                             *)
(***************************************************************************)
EXTENDS Integers, Sequences

CONSTANTS
  Sessions,
  Cfgs,    \* configurations a session can be opened with
  NoCfg,   \* configuration of a closed session
  Lens,    \* lengths passed to update
  None

VARIABLES
  aopen,    \* [Sessions -> BOOLEAN]: the session accepts update and final
  acfg,     \* [Sessions -> Cfgs \cup {NoCfg}]
  amsg,     \* [Sessions -> Seq(Nat)]: bytes passed since it was opened
  adigest   \* [Sessions -> digest record or None]: last digest returned

avars == <<aopen, acfg, amsg, adigest>>

\* The digest of a message under a configuration (the HMAC outer key is
\* the key of the configuration).
Hash(c, m) == [cfg |-> c, msg |-> m, okey |-> c.ikey]

Open(s, c) ==
  /\ aopen' = [aopen EXCEPT ![s] = TRUE]
  /\ acfg' = [acfg EXCEPT ![s] = c]
  /\ amsg' = [amsg EXCEPT ![s] = <<>>]
  /\ adigest' = [adigest EXCEPT ![s] = None]

Extend(s, n) ==
  /\ aopen[s]
  /\ amsg' = [amsg EXCEPT ![s] = @ \o [i \in 1..n |-> Len(@) + i]]
  /\ UNCHANGED <<aopen, acfg, adigest>>

Finish(s) ==
  /\ aopen[s]
  /\ adigest' = [adigest EXCEPT ![s] = Hash(acfg[s], amsg[s])]
  /\ aopen' = [aopen EXCEPT ![s] = FALSE]
  /\ acfg' = [acfg EXCEPT ![s] = NoCfg]
  /\ amsg' = [amsg EXCEPT ![s] = <<>>]

Fork(d, s) ==
  /\ aopen[s] /\ d # s
  /\ aopen' = [aopen EXCEPT ![d] = TRUE]
  /\ acfg' = [acfg EXCEPT ![d] = acfg[s]]
  /\ amsg' = [amsg EXCEPT ![d] = amsg[s]]
  /\ adigest' = [adigest EXCEPT ![d] = None]

\* A failed, abandoned or never-returning call, or a re-init that fails.
Abort(s) ==
  /\ aopen' = [aopen EXCEPT ![s] = FALSE]
  /\ acfg' = [acfg EXCEPT ![s] = NoCfg]
  /\ amsg' = [amsg EXCEPT ![s] = <<>>]
  /\ adigest' = [adigest EXCEPT ![s] = None]

AInit ==
  /\ aopen = [s \in Sessions |-> FALSE]
  /\ acfg = [s \in Sessions |-> NoCfg]
  /\ amsg = [s \in Sessions |-> <<>>]
  /\ adigest = [s \in Sessions |-> None]

ANext ==
  \E s \in Sessions :
    \/ \E c \in Cfgs : Open(s, c)
    \/ \E n \in Lens : Extend(s, n)
    \/ Finish(s)
    \/ Abort(s)
    \/ \E d \in Sessions : Fork(d, s)

ASpec == AInit /\ [][ANext]_avars
====
