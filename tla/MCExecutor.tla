------------------------------ MODULE MCExecutor ------------------------------
(* Finite values for the constants of Executor. *)
EXTENDS Executor, TLC

CONSTANTS c1, c2, none

MCConn == {c1, c2}
MCKey == {"entity", "meta"} \X (Genesis .. MaxHeight)

ConnSymmetry == Permutations(MCConn)

(* Manifests with and without a start block and `resumable`.               *)
AllManifests ==
    [start_block : {0, 2}, resumable : {"none", "true"},
     native : BOOLEAN, stop_idle_indexers : {FALSE}]

(* WASM modules of a service that does, or does not, stop idle indexers.   *)
IdleConfigs ==
    [start_block : {1}, resumable : {"none"},
     native : {FALSE}, stop_idle_indexers : BOOLEAN]

ResumableManifests ==
    [start_block : {1}, resumable : {"true"},
     native : {FALSE}, stop_idle_indexers : {FALSE}]

=============================================================================
