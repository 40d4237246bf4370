------------------------------ MODULE MCSeries ------------------------------
(* Small instances of Series: the start gate of the root series, a fan-out    *)
(* and, in the larger instance, a stage, both with a waiting room.            *)
EXTENDS Series

\* The larger instance: two items fit in the fan-out, the dials are fixed.
FixedLimits == [u \in Units |-> IF u = 1 THEN {2} ELSE {1}]
FixedQueues == [u \in Units |-> IF u = 0 THEN {0} ELSE {1}]

\* The smaller one: the fan-out's dials are turned while items go through.
LiveLimits == [u \in Units |-> IF u = 1 THEN {1, 2} ELSE {1}]
LiveQueues == [u \in Units |-> IF u = 1 THEN {0, 1} ELSE {0}]
=============================================================================
