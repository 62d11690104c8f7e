------------------------------ MODULE Controller ------------------------------
(***************************************************************************)
(* tsp-controller: the decoding of its configuration document and the      *)
(* views it serves to the other programs (cmd/tsp-controller).             *)
(*                                                                         *)
(* A document has tree: the hostgroup, cluster and host elements in their  *)
(* order, each with the path of ids that leads to it, itself included, and *)
(* of a host its short id, its process elements and its statse element, if *)
(* any; groups: the querygroup elements; other: whether there is an        *)
(* element that no module decodes; and net, the network file: scope, the   *)
(* ids its restrict patterns match, agg and subs.  An attribute that is    *)
(* missing is Nil.                                                         *)
(*                                                                         *)
(* rules is what the filter program prints for a host: a sequence of       *)
(* rules, or Nil if it fails; a program that does not exist prints none.   *)
(***************************************************************************)
EXTENDS Integers, Sequences, FiniteSets, SequencesExt, Functions

CONSTANTS Nil

-------------------------------------------------------------------------------
(* Decoding: the common configuration, then the elements of the modules.     *)

IsHost(e) == e.kind = "host"
Hosts(doc) == {doc.tree[i] : i \in {j \in DOMAIN doc.tree : IsHost(doc.tree[j])}}
ClusterID(h) == IF h.path = <<>> THEN Nil ELSE h.path[Len(h.path) - 1]
NS(doc)    == {e.id : e \in ToSet(doc.tree)}
Processes(doc) == UNION {h.procs : h \in Hosts(doc)}

\* addGroup, addCluster and add: every element has an id that no other one has.
addGroup(doc) ==
    LET ids == [i \in DOMAIN doc.tree |-> doc.tree[i].id]
    IN  Nil \notin Range(ids) /\ IsInjective(ids)

\* updateHost of collect-jmx: no process has the id of another element.
updateHost(doc) == Nil \notin Processes(doc) /\ Processes(doc) \cap NS(doc) = {}

\* QueryGroup.validate: the targets exist, and no two of them name the same
\* host or the same process of a host.
validateGroup(doc, g) ==
    /\ g.id # Nil /\ g.targets # Nil
    /\ ToSet(g.targets) \subseteq NS(doc) \cup Processes(doc)
    /\ \A i, j \in DOMAIN g.targets : i # j =>
          \A h \in Hosts(doc) :
             /\ ~ ({g.targets[i], g.targets[j]} \subseteq ToSet(h.path))
             /\ g.targets[i] = g.targets[j] => g.targets[i] \notin h.procs

\* updateGlobal of collect-jmx.
updateGlobal(doc) ==
    /\ \A g \in ToSet(doc.groups) : validateGroup(doc, g)
    /\ IsInjective([i \in DOMAIN doc.groups |-> doc.groups[i].id])

\* HostConfig.validate of collect-statse: only an aggregator has an interval.
validateStatse(h) == h.statse # Nil => (h.statse.interval # Nil => h.statse.agg)

\* Decode: the document is accepted or the controller does not start.
Decode(doc) ==
    /\ addGroup(doc) /\ updateHost(doc) /\ updateGlobal(doc)
    /\ \A h \in Hosts(doc) : validateStatse(h)
    /\ ~doc.other

-------------------------------------------------------------------------------
(* Lookup.                                                                   *)

InScope(cfg, id) == id \in cfg.net.scope

\* Mutant: any host with the short id will do.
AmbiguousFirst(S) == S # {}

\* An inexact match counts if it is the only one.
Unambiguous(S) == Cardinality(S) = 1

\* Config.Host: the host with the id, the only one with the short id, or else one
\* without a cluster; Nil if it is out of scope.
Host(cfg, id) ==
    LET all     == Hosts(cfg)
        exact   == {h \in all : h.id = id}
        inexact == {h \in all : h.short = id}
        host    == IF exact # {} THEN CHOOSE h \in exact : TRUE
                   ELSE IF Unambiguous(inexact) THEN CHOOSE h \in inexact : TRUE
                   ELSE [kind |-> "host", id |-> id, short |-> id, path |-> <<>>,
                         procs |-> {}, statse |-> Nil]
    IN  IF InScope(cfg, host.id) THEN host ELSE Nil

\* Config.Cluster: the hosts of a cluster that are in scope, by their places in the tree.
Cluster(cfg, id) ==
    {i \in DOMAIN cfg.tree : LET h == cfg.tree[i]
                             IN  IsHost(h) /\ InScope(cfg, h.id) /\ ClusterID(h) = id}

-------------------------------------------------------------------------------
(* The views of the forwarder, the poller and the aggregator; Nil stands for *)
(* an error response.                                                        *)

\* The rule that adds a tag where it is missing.
AddTag(key, value) == [match |-> key, set |-> <<key, value>>, block |-> FALSE]

\* newView: the rules of the filter program and the one that adds the host.
newView(host, rules) == Append(rules, AddTag("host", host.id))

ClusterRule(host) ==
    IF ClusterID(host) = Nil THEN <<>> ELSE <<AddTag("cluster", ClusterID(host))>>

\* directSubscribers and indirectSubscribers: their places in the network file.
Direct(cfg)   == {i \in DOMAIN cfg.net.subs : cfg.net.subs[i].direct}
Indirect(cfg) == {i \in DOMAIN cfg.net.subs : ~cfg.net.subs[i].direct}

\* A relay for each subscriber; of two with one id the last one counts.
Feed(cfg, who, conns) ==
    LET last(id) == cfg.net.subs[Max({i \in who : cfg.net.subs[i].id = id})]
    IN  [id \in {cfg.net.subs[i].id : i \in who} |->
            [host |-> last(id).host, dedup |-> last(id).dedup, conns |-> conns]]

\* The keys of f are set in the map g.
Override(f, g) == [k \in DOMAIN f \cup DOMAIN g |-> IF k \in DOMAIN f THEN f[k] ELSE g[k]]

\* The direct subscribers and the aggregator, which takes its key from a
\* subscriber that has it.
relay(cfg, conns) ==
    LET direct == Feed(cfg, Direct(cfg), conns)
    IN  IF cfg.net.agg = Nil THEN direct
        ELSE Override([k \in {"aggregator"} |-> [host |-> cfg.net.agg, dedup |-> FALSE, conns |-> Nil]],
                      direct)

forwarderView(cfg, host, rules) ==
    [filter |-> newView(host, rules) \o ClusterRule(host), relay |-> relay(cfg, Nil)]

pollerView(cfg, host, rules) ==
    [filter |-> newView(host, rules), relay |-> relay(cfg, 12)]

\* Only the host that the network file names may ask, by that name.
isAggregator(cfg, id) == cfg.net.agg # Nil /\ cfg.net.agg = id

aggregatorView(cfg, host, rules) ==
    [filter |-> newView(host, rules), relay |-> Feed(cfg, Indirect(cfg), Nil)]

-------------------------------------------------------------------------------
(* The views of collect-statse and collect-jmx.                              *)

\* aggregator: the first host of the cluster that is one; Nil if there is none.
aggregator(cfg, host) ==
    LET IsAgg(h) == h.statse # Nil /\ h.statse.agg
        aggs == {i \in Cluster(cfg, ClusterID(host)) : IsAgg(cfg.tree[i])}
    IN  IF aggs = {} THEN Nil ELSE cfg.tree[Min(aggs)]

\* An interval is served to the aggregator only; it has a default.
snapshotInterval(cfg, host) ==
    LET a == aggregator(cfg, host)
    IN  IF a = Nil \/ a.id # host.id THEN Nil
        ELSE IF a.statse.interval = Nil THEN "10s" ELSE a.statse.interval

\* The host tag is the id of the request, not the one of the host.
statseView(cfg, id, host, rules) ==
    LET a == aggregator(cfg, host)
    IN  [filter |-> Append(rules, AddTag("host", id)) \o ClusterRule(host),
         agg    |-> IF a = Nil THEN Nil ELSE a.id,
         interval |-> snapshotInterval(cfg, host)]

\* QueryGroup.Match.
Match(g, ids) == ToSet(g.targets) \cap ids # {}

\* The queries of the groups that match one of ids, in the order of the groups.
Queries(cfg, ids) ==
    LET found[n \in 0..Len(cfg.groups)] ==
            IF n = 0 THEN <<>>
            ELSE IF Match(cfg.groups[n], ids) THEN found[n - 1] \o cfg.groups[n].queries
            ELSE found[n - 1]
    IN  found[Len(cfg.groups)]

\* appendObject: s and those elements of t that are not yet there, one after the other.
AppendNew(s, t) ==
    LET objects[n \in 0..Len(t)] ==
            IF n = 0 THEN s
            ELSE LET o == objects[n - 1] IN IF t[n] \in ToSet(o) THEN o ELSE Append(o, t[n])
    IN  objects[Len(t)]

\* The queries of the host, and those of the process that are not among them.
jmxView(cfg, host, process) ==
    AppendNew(Queries(cfg, ToSet(host.path)),
              IF process \in host.procs THEN Queries(cfg, {process}) ELSE <<>>)

\* ServeHTTP and View: the response to a program on the host that calls itself id.
View(cfg, rules, program, id) ==
    LET host == Host(cfg, id)
    IN  IF host = Nil \/ rules = Nil THEN Nil
        ELSE CASE program = "tsp-forwarder" -> forwarderView(cfg, host, rules)
               [] program = "tsp-poller" -> pollerView(cfg, host, rules)
               [] program = "tsp-aggregator" ->
                     IF isAggregator(cfg, id) THEN aggregatorView(cfg, host, rules) ELSE Nil
               [] program = "collect-statse" -> statseView(cfg, id, host, rules)

===============================================================================
