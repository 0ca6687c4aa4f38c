---------------------------- MODULE MCIndexerService ----------------------------
(* Finite values for the constants of IndexerService. *)
EXTENDS IndexerService

CONSTANTS c1, c2, none, u1, u2, w1, w2, w3, a1, a2

MCConn == {c1, c2}
MCUid == {u1, u2}
MCClient == {a1, a2}

Symmetry == Permutations(MCConn) \cup Permutations(MCClient)
            \cup Permutations({w1, w2})

(* Two indexers deployed and stopped; one indexer with reverts too.        *)
DeploysAndStops == {"deploy", "stop"} \X {u1, u2}
OneIndexer == {"deploy", "stop", "revert"} \X {u1}
AllScenarios == {DeploysAndStops, OneIndexer}

JustOneIndexer == {OneIndexer}

Deploys == {{"deploy"} \X {u1}}
DeploysAndReverts == {{"deploy", "revert"} \X {u1}}

=============================================================================
