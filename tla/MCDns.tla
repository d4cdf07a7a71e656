------------------------------- MODULE MCDns -------------------------------
(* Datagrams of different lengths for one buffer: a host, the wildcard, a  *)
(* name for the upstream servers, one shorter than a header, one that      *)
(* counts no question, and one whose pointer refers to itself.             *)
EXTENDS Dns

CONSTANTS host, other, wild, ip1, ip2

MCDatagrams ==
    <<[id |-> 1, name |-> host,  type |-> "A",     len |-> 2, form |-> "good"],
      [id |-> 2, name |-> wild,  type |-> "A",     len |-> 1, form |-> "good"],
      [id |-> 3, name |-> other, type |-> "other", len |-> 1, form |-> "good"],
      [id |-> 4, name |-> host,  type |-> "A",     len |-> 0, form |-> "short"],
      [id |-> 5, name |-> host,  type |-> "A",     len |-> 1, form |-> "empty"],
      [id |-> 6, name |-> host,  type |-> "A",     len |-> 1, form |-> "circle"]>>

MCNames == {host, other, wild}

MCNexusNames == {host, wild}

MCConfigured == [n \in {host} |-> ip1]
=============================================================================
