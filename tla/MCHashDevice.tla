---------------------------- MODULE MCHashDevice ----------------------------
(***************************************************************************)
(* Instantiates HashDevice for TLC with the definitions of MCHashStream.   *)
(* No symmetry: the runs check liveness.                                    *)
(***************************************************************************)
EXTENDS HashDevice, MCHashStream

\* A one-word block keeps the state space small enough for the liveness
\* check; the data path is checked with two-word blocks in MCHashStream.
\* update(4), update(9), update(1) after init reaches the overrun.
MCDeviceBlock == [a \in MCCatalog |-> 4]
MCDeviceLens == {1, 9}
=============================================================================
