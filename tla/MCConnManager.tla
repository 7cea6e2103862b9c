---------------------------- MODULE MCConnManager ----------------------------
(* TLC instance of ConnManager: two shards and up to three connections.    *)
EXTENDS ConnManager

CONSTANTS a1, a2, u1

TwoAcceptors == {a1, a2}
OneUser == {u1}

\* Two accept loops race for three connections in two shards; one accept loop races
\* with the calls of a user, whose callbacks call the manager or do not, while two
\* connections of different shards or of the same come and go.
RaceConfigs ==
    [hash: {<<1, 0, 1>>}, reenter: {FALSE}, run: {{a1, a2}}, accepts: {3}]
        \cup [hash: {<<1, 0, 1>>, <<0, 0, 1>>}, reenter: BOOLEAN, run: {{a1, u1}},
              accepts: {2}]
=============================================================================
