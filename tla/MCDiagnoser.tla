---------------------------- MODULE MCDiagnoser ----------------------------
(* Small instances of Diagnoser for TLC. *)
EXTENDS Diagnoser

CONSTANTS c1, c2, z1, z2, s1, s2

MCCCs == {c1, c2}
MCZombies == {z1, z2}
MCServices == {s1, s2}

Snort(cc, src, stamped) ==
  [snort |-> TRUE, cc |-> cc, src |-> src, stamped |-> stamped,
   qos |-> FALSE, service |-> None]
Qos(service, snort) ==
  [snort |-> snort, cc |-> c2, src |-> {z2}, stamped |-> TRUE,
   qos |-> TRUE, service |-> service]

\* Labels alone, with and without a C&C address or a timestamp, alarms
\* alone, and one report that is both.
MCMessages ==
  {Snort(c1, {z1}, TRUE), Snort(c2, {z2}, FALSE), Snort(None, {z2}, TRUE),
   Qos(s1, FALSE), Qos(s2, TRUE)}
=============================================================================
