---------------------------- MODULE MCK1sCluster ----------------------------
(***************************************************************************)
(* Values of the constants of K1sCluster for TLC.                          *)
(***************************************************************************)
EXTENDS K1sCluster

\* An edit adds the Secret and the apishim, and drops the bootstrap ConfigMap.
Open == [auth |-> FALSE, bootstrap |-> TRUE, apishim |-> FALSE]
Secured == [auth |-> TRUE, bootstrap |-> FALSE, apishim |-> TRUE]

BothSpecs == {Open, Secured}

Secure == {<<Open, Secured>>}

Node(status, stale) == [status |-> Str(status), stale |-> stale]

\* Four nodes of which two are stale, one way or the other; and an answer that
\* has only the count.
SomeNodes ==
    {[count |-> Num(4),
      nodes |-> <<Node("Ready", Bool(FALSE)), Node("NotReady", Absent),
                  Node("Ready", Bool(TRUE)), Node("Ready", Str("true"))>>],
     [count |-> Str("2")]}
=============================================================================
