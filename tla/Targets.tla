------------------------------ MODULE Targets ------------------------------
(***************************************************************************)
(* What the scrape manager is told to scrape: generateTargetGroup          *)
(* (server/configuration.go) and generateCallsTargets                      *)
(* (server/calls_targets.go).                                              *)
(*                                                                         *)
(* A target is a label set; it is kept as the host and the endpoint its    *)
(* labels (address, metrics path, job) stand for.  The manager does not    *)
(* care for the order of a group, nor for repetitions: a group is a set.   *)
(***************************************************************************)
EXTENDS FiniteSets, Naturals

CONSTANTS
  Servers,   \* servers of the deployment
  RtcdNodes, \* addresses behind the RTCD URL of Calls
  NoOne      \* no host

ASSUME TargetsAssumption ==
  /\ NoOne \notin Servers \cup RtcdNodes
  /\ Servers \cap RtcdNodes = {}

Endpoints == {"metrics",  \* the metrics endpoint of a server
              "node",     \* a node exporter
              "calls",    \* the Calls plugin of a server
              "rtcd"}     \* an RTCD node

At(h, e)  == [host |-> h, endpoint |-> e]
NoAddress == At(NoOne, "metrics")  \* the empty label set
Target    == [host: Servers \cup RtcdNodes, endpoint: Endpoints] \cup {NoAddress}

Group(hosts, endpoint) == {At(h, endpoint) : h \in hosts}

\* The servers a list of nodes of the cluster stands for.  A list of fewer
\* than two is not used: the server itself is scraped.
Members(self, nodes) == IF Cardinality(nodes) < 2 THEN {self} ELSE nodes

\* generateCallsTargets, when Calls is running; rtcd are the addresses its
\* RTCD URL resolves to.
CallsTargets(members, rtcd, exporter) ==
  Group(members, "calls") \cup Group(rtcd, "rtcd") \cup
    (IF exporter THEN Group(rtcd, "node") ELSE {})

\* Mutation: a list of two nodes is taken for a single server.
ServerTargetsOffByOne(self, nodes, exporter) ==
  LET members == IF Cardinality(nodes) <= 2 THEN {self} ELSE nodes IN
  Group(members, "metrics") \cup (IF exporter THEN Group(members, "node") ELSE {})

\* generateTargetGroup without Calls.  With two nodes or more the slice is
\* made with empty label sets and then appended to.
ServerTargets(self, nodes, exporter) ==
  Group(Members(self, nodes), "metrics") \cup
    (IF exporter THEN Group(Members(self, nodes), "node") ELSE {}) \cup
    (IF Cardinality(nodes) < 2 THEN {} ELSE {NoAddress})

\* What a reader of the settings expects to be scraped on the servers in
\* hosts, as a condition on each single target.
Expected(hosts, exporter, calls) ==
  {t \in Target \ {NoAddress} :
     \/ t.endpoint = "metrics" /\ t.host \in hosts
     \/ t.endpoint = "calls"   /\ calls /\ t.host \in hosts
     \/ t.endpoint = "rtcd"    /\ calls /\ t.host \in RtcdNodes
     \/ t.endpoint = "node"    /\ exporter /\ (t.host \in hosts \/ (calls /\ t.host \in RtcdNodes))}

=============================================================================
