--------------------------- MODULE MCDataMonitor ---------------------------
(* A small instance of DataMonitor for TLC. *)
EXTENDS DataMonitor

CONSTANTS c2, z2, s1, s2

MCCCs == {c2}
MCZombies == {z2}
MCServices == {s1, s2}

\* An alarm, and a report that is an alarm and completes the labels of a run.
Qos(service, snort) ==
  [snort |-> snort, cc |-> c2, src |-> {z2}, stamped |-> TRUE, qos |-> TRUE, service |-> service]

MCMessages == {Qos(s1, FALSE), Qos(s2, TRUE)}

\* Two apps of one service, one of which has data of another time, too.
MCAppIds == 1 .. 2
Row(id, service, in_range) == [app |-> id, service |-> service, in_range |-> in_range]
MCRows == {Row(1, s1, TRUE), Row(2, s1, TRUE), Row(2, s1, FALSE), Row(2, s2, TRUE)}

\* They differ in the last part, and in all of them.
MCVersions == {<<0, 1, 1, 1>>, <<1>>, <<1, 0, 0, 1>>}
=============================================================================
