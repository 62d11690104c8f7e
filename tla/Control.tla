-------------------------------- MODULE Control --------------------------------
(***************************************************************************)
(* How a program gets its configuration: the controller serves it a view,  *)
(* internal/config lays the view over the local file, validates the result *)
(* and runs the program with it, and waits for the next one, at which the  *)
(* program executes itself anew (internal/config/load.go, the config.go of *)
(* the programs, internal/restart).                                        *)
(*                                                                         *)
(* One program is modelled, node: its program, the name its host gives     *)
(* itself, and whether CONTROL_HOST is set.  A setting that a file or a    *)
(* view does not have is Nil.                                              *)
(*                                                                         *)
(* encoding/json (external): a map is decoded into key by key, and so is a *)
(* slice, element by element, each of them field by field; what is not in  *)
(* the input is left alone.                                                *)
(***************************************************************************)
EXTENDS Controller

CONSTANTS
    Documents,   \* what operators write as the controller's configuration
    Outputs,     \* what the filter program may print
    Files,       \* local configuration files, Nil if there is none
    Broken,      \* a file that does not parse
    Nodes,       \* the programs: program, host and controlled
    MaxRules,    \* maxRules
    MaxRelays,   \* maxRelays
    Scenarios    \* bounds: how often each of document, output, file, names and
                 \* controller changes, and reload signals

VARIABLES
    doc, output,    \* the controller's files
    ctl,            \* the configuration the controller runs with; Nil: it is down
    node,           \* the program, which never changes
    file, names,    \* its local file; whether host names can be looked up
    pc,             \* the process: load, run, restart, hung
    lpc, cfg,       \* its load loop, in Load or in Next: file, update; the struct
    buf, last,      \* the config client: payload being delivered, payload before
    running,        \* <<the settings the process runs with, and what they came from>>, or <<>>
    left            \* what is left of the bounds

world  == <<doc, output, ctl, file, names>>
client == <<buf, last>>
vars == <<world, node, pc, lpc, cfg, client, running, left>>

Defaults == [filter |-> Nil, relay |-> Nil, agg |-> Nil, interval |-> Nil]
NewConfig == [struct |-> Defaults, file |-> Nil]

Init ==
    /\ doc \in Documents /\ output \in Outputs /\ ctl = Nil
    /\ node \in Nodes /\ file \in Files /\ names = TRUE
    /\ pc = "load" /\ lpc = "file" /\ cfg = NewConfig
    /\ buf = Nil /\ last = Nil /\ running = <<>>
    /\ left \in Scenarios

-------------------------------------------------------------------------------
(* Operators and the controller.                                             *)

Spend(what) == left[what] > 0 /\ left' = [left EXCEPT ![what] = @ - 1]
program     == <<node, pc, lpc, cfg, client, running>>

Edit ==
    \/ /\ Spend("doc") /\ doc' \in Documents \ {doc}
       /\ UNCHANGED <<output, ctl, file, names>>
    \/ /\ Spend("output") /\ output' \in Outputs \ {output}
       /\ UNCHANGED <<doc, ctl, file, names>>
    \/ /\ Spend("file") /\ file' \in Files \ {file}
       /\ UNCHANGED <<doc, output, ctl, names>>
    \/ /\ Spend("names") /\ names' = ~names
       /\ UNCHANGED <<doc, output, ctl, file>>

\* Load: a document that does not decode ends the controller.
Start ==
    /\ ctl = Nil /\ Decode(doc) /\ ctl' = doc
    /\ UNCHANGED <<doc, output, file, names, left>>

Stop ==
    /\ ctl # Nil /\ Spend("ctl") /\ ctl' = Nil
    /\ UNCHANGED <<doc, output, file, names>>

\* What the controller answers now; Nil if it does not or answers with an error.
Served == IF ctl = Nil THEN Nil ELSE View(ctl, output, node.program, node.host)

-------------------------------------------------------------------------------
(* The config client.                                                        *)

\* Mutant: only the first payload is an update.
DiffersFirst(p) == last = Nil

\* Mutant: every payload is an update.
DiffersAlways(p) == TRUE

\* mainloop: a payload is delivered if it is the first or not the last one.
Differs(p) == last = Nil \/ p # last

Fetch ==
    /\ node.controlled /\ pc \in {"load", "run"} /\ buf = Nil
    /\ \E payload \in {Served} \ {Nil} : Differs(payload) /\ buf' = payload
    /\ UNCHANGED <<world, node, pc, lpc, cfg, last, running, left>>

-------------------------------------------------------------------------------
(* The load loop.                                                            *)

\* json.Unmarshal of a sequence of rules over another one.
MergeRules(old, new) ==
    [i \in DOMAIN new |->
        IF old = Nil \/ i \notin DOMAIN old THEN new[i]
        ELSE [match |-> IF new[i].match = Nil THEN old[i].match ELSE new[i].match,
              set   |-> IF new[i].set = Nil THEN old[i].set ELSE new[i].set,
              block |-> new[i].block \/ old[i].block]]

\* fieldFilter.UnmarshalJSON: the dynamic fields of v over those of s.
Over(s, v) ==
    [filter |-> IF v.filter = Nil THEN s.filter ELSE MergeRules(s.filter, v.filter),
     relay  |-> IF v.relay = Nil THEN s.relay
                ELSE IF s.relay = Nil THEN v.relay ELSE Override(v.relay, s.relay),
     agg    |-> IF v.agg = Nil THEN s.agg ELSE v.agg,
     interval |-> IF v.interval = Nil THEN s.interval ELSE v.interval]

\* A view as settings: the programs have different ones.
Settings(v) == Override(v, Defaults)

\* Rule.validate: a rule sets something or blocks, not both.
validRule(r) == r.match # "bad" /\ (r.block <=> r.set = Nil)

\* validate.Filter: without rules everything is blocked.
validFilter(f) == f # Nil => Len(f) <= MaxRules /\ \A i \in DOMAIN f : validRule(f[i])
BlockAll == <<[match |-> Nil, set |-> Nil, block |-> TRUE]>>

\* validate.Relay and relay.Config.Validate.
validRelay(r) == r # Nil /\ Cardinality(DOMAIN r) <= MaxRelays /\ \A n \in DOMAIN r : r[n].host # Nil

\* Config.Validate; that of collect-statse looks up the name of its aggregator.
Validate(s) ==
    /\ validFilter(s.filter)
    /\ IF node.program = "collect-statse" THEN s.interval # "0s" /\ (s.agg = Nil \/ names)
       ELSE validRelay(s.relay)

\* What Validate leaves in the settings.
Validated(s) == IF s.filter = Nil THEN [s EXCEPT !.filter = BlockAll] ELSE s

\* Mutant: what an attempt that failed has decoded stays.
ResetNot(c) == c

\* Config.Reset.
Reset(c) == NewConfig

\* The file is read before the wait for a payload; one that does not parse is
\* tried again, one that does not exist has no settings.
ReadFile ==
    /\ node.controlled /\ pc \in {"load", "run"} /\ lpc = "file" /\ file # Broken
    /\ cfg' = [struct |-> IF file = Nil THEN Reset(cfg).struct ELSE Over(Reset(cfg).struct, file),
               file |-> file]
    /\ lpc' = "update"
    /\ UNCHANGED <<world, node, pc, client, running, left>>

\* The payload is taken whether or not the settings are then valid.  If they are,
\* Load returns to the program, and Next makes it restart.
Update ==
    /\ lpc = "update" /\ buf # Nil /\ pc \in {"load", "run"}
    /\ buf' = Nil /\ last' = buf
    /\ lpc' = "file"
    /\ LET s == Over(cfg.struct, Settings(buf))
       IN  CASE ~Validate(s) -> cfg' = [cfg EXCEPT !.struct = s] /\ UNCHANGED <<pc, running>>
             [] Validate(s) /\ pc = "load" ->
                   /\ pc' = "run" /\ cfg' = NewConfig
                   /\ running' = <<[set |-> Validated(s), file |-> cfg.file, view |-> buf]>>
             [] Validate(s) /\ pc = "run" ->
                   pc' = "restart" /\ cfg' = NewConfig /\ UNCHANGED running
    /\ UNCHANGED <<world, node, left>>

\* Without CONTROL_HOST the file alone is loaded; the process exits, and is started
\* again, until it is valid.  Next blocks forever.
LoadFile ==
    /\ ~node.controlled /\ pc = "load" /\ file # Broken
    /\ LET s == IF file = Nil THEN Defaults ELSE Over(Defaults, file)
       IN  /\ Validate(s)
           /\ running' = <<[set |-> Validated(s), file |-> file, view |-> Nil]>>
    /\ pc' = "run"
    /\ UNCHANGED <<world, node, lpc, cfg, client, left>>

\* SIGHUP.  collect-statse does not wait for it: the signal ends it.
Signal ==
    /\ pc = "run" /\ Spend("signal") /\ pc' = "restart"
    /\ UNCHANGED <<world, node, lpc, cfg, client, running>>

\* The forwarder and the poller kill their plugins first, and Kill may not return
\* (KillReturns of PluginPool): the process neither runs nor restarts.
Hang ==
    /\ pc = "restart" /\ node.program \in {"tsp-forwarder", "tsp-poller"} /\ pc' = "hung"
    /\ UNCHANGED <<world, node, lpc, cfg, client, running, left>>

\* restart.Do, or exit and a start by the supervisor: nothing is remembered.
Restart ==
    /\ pc = "restart" /\ pc' = "load" /\ lpc' = "file" /\ cfg' = NewConfig
    /\ buf' = Nil /\ last' = Nil /\ running' = <<>>
    /\ UNCHANGED <<world, node, left>>

-------------------------------------------------------------------------------
Operator == (Edit \/ Start \/ Stop) /\ UNCHANGED program
Load     == Fetch \/ ReadFile \/ Update \/ LoadFile \/ Hang \/ Restart

Next == Operator \/ Signal \/ Load
Spec == Init /\ [][Next]_vars

\* The goroutines of the program go on, and it restarts unless Kill blocks it for
\* good; nothing is assumed of operators.
FairSpec == Spec /\ WF_vars(Fetch) /\ WF_vars(ReadFile \/ Update) /\ WF_vars(LoadFile)
                 /\ WF_vars(Restart)

-------------------------------------------------------------------------------
(* Properties.                                                               *)

\* The process, the load loop and the client agree: a process that runs has valid
\* settings, only a program with a controller has payloads, and the client holds
\* none that is equal to the one before (internal/config/load.go load, mainloop).
TypeOK ==
    /\ pc \in {"load", "run", "restart", "hung"} /\ lpc \in {"file", "update"}
    /\ (pc = "load" => running = <<>>) /\ (pc = "run" => running # <<>>)
    /\ running # <<>> => /\ validFilter(running[1].set.filter) /\ running[1].set.filter # Nil
                         /\ node.program # "collect-statse" => validRelay(running[1].set.relay)
    /\ ~node.controlled => buf = Nil /\ last = Nil
    /\ buf # Nil => buf # last
    /\ ctl # Nil => Decode(ctl)

\* The settings of a file, decoded into an empty struct.
FileAlone(f) == IF f = Nil THEN Defaults ELSE Over(Defaults, f)

\* A program runs with nothing but one file and one payload: nothing is left of the
\* payloads and the files that were rejected before, however many there were, although
\* they were decoded into the same struct (internal/config/load.go load and Reset).
NoTrace ==
    running # <<>> =>
    LET r == running[1]
    IN  r.set = Validated(IF node.controlled THEN Over(FileAlone(r.file), Settings(r.view))
                          ELSE FileAlone(r.file))

\* The relays of a running program that are not from its local file alone.
ServedRelays ==
    LET r     == running[1]
        local == IF r.file = Nil \/ r.file.relay = Nil THEN {}
                 ELSE DOMAIN r.file.relay \ DOMAIN r.view.relay
    IN  [n \in DOMAIN r.set.relay \ local |-> r.set.relay[n]]

\* The ways from the program to a subscriber, one of them through the aggregator.
Paths(s) ==
    LET to(r, host) == {n \in DOMAIN r : r[n].host = host}
        v == View(ctl, <<>>, "tsp-aggregator", ctl.net.agg)
    IN  to(ServedRelays, s.host)
        \cup IF ctl.net.agg = Nil \/ to(ServedRelays, ctl.net.agg) = {}
                \/ Host(ctl, ctl.net.agg) = Nil THEN {}
             ELSE {<<"aggregator", n>> : n \in to(v.relay, s.host)}

\* The network file is not validated.  A subscriber that shares its host, or its id
\* with another one of its kind, is fed more than once or not at all.
Alone(s) ==
    /\ s.host # ctl.net.agg
    /\ \A t \in ToSet(ctl.net.subs) \ {s} : t.host # s.host /\ (t.direct = s.direct => t.id # s.id)

\* A direct subscriber that has the key of the aggregator, or an indirect one that
\* has no aggregator in scope.
Unroutable(s) ==
    IF s.direct THEN s.id = "aggregator" /\ ctl.net.agg # Nil
    ELSE ctl.net.agg = Nil \/ Host(ctl, ctl.net.agg) = Nil

\* The program runs, routes points, and has what the controller serves now.
UpToDate ==
    /\ pc = "run" /\ node.program \in {"tsp-forwarder", "tsp-poller"} /\ ctl # Nil
    /\ node.controlled /\ running[1].view = Served

\* A forwarder or poller that runs with what the controller serves feeds no subscriber
\* that has an id and a host of its own by two ways, and feeds it by one unless the
\* subscriber is Unroutable, which is a fault of the views (DirectFed); it feeds nobody
\* else but what its own file says, and filters by the rules served unless its file has
\* rules; and NoTrace (internal/config/load.go load, control/tsp-forwarder/control.go).
Routed ==
    /\ NoTrace
    /\ UpToDate =>
       /\ \A s \in ToSet(ctl.net.subs) : Alone(s) =>
             Cardinality(Paths(s)) <= 1 /\ (Paths(s) # {} \/ Unroutable(s))
       /\ \A n \in DOMAIN ServedRelays :
             ServedRelays[n].host \in {s.host : s \in ToSet(ctl.net.subs)} \cup {ctl.net.agg}
       /\ running[1].file = Nil \/ running[1].file.filter = Nil =>
             running[1].set.filter = running[1].view.filter

\* What the manual of the controller says: a direct subscriber is fed by every forwarder
\* (control/tsp-forwarder/control.go relay, which gives its key to the aggregator).
DirectFed ==
    UpToDate /\ node.program = "tsp-forwarder" =>
       \A s \in ToSet(ctl.net.subs) : s.direct /\ Alone(s) => Paths(s) # {}

\* What Load says: the remote file overrides the dynamic settings of the local one.  So
\* the rules of the program, and those of a payload that it rejects, are the rules of
\* the payload (internal/config/load.go fieldFilter.UnmarshalJSON).
Overrides ==
    node.controlled =>
    /\ running # <<>> => running[1].set.filter = running[1].view.filter
    /\ lpc = "file" /\ cfg # NewConfig => cfg.struct.filter = last.filter

\* The queries of the groups that target the host or the process, by group and place.
Targeting(config, h, p) ==
    LET ids == ToSet(h.path) \cup (IF p \in h.procs THEN {p} ELSE {})
        at  == {i \in DOMAIN config.groups : Match(config.groups[i], ids)}
    IN  UNION {{i} \X DOMAIN config.groups[i].queries : i \in at}

\* They are what is served, and none of them comes more often than it is configured.
OwnQueries(config, h, p) ==
    LET q == jmxView(config, h, p)
        T == Targeting(config, h, p)
        query(t) == config.groups[t[1]].queries[t[2]]
    IN  /\ ToSet(q) = {query(t) : t \in T}
        /\ \A x \in ToSet(q) :
              Cardinality({n \in DOMAIN q : q[n] = x}) <= Cardinality({t \in T : query(t) = x})

\* The views of a host that asks by the name id.
OwnOf(config, id, h) ==
    LET all == Hosts(config)
        v   == statseView(config, id, h, <<>>)
    IN  /\ InScope(config, h.id)
        /\ h \in all => h.id = id \/ {g \in all : id \in {g.id, g.short}} = {h}
        /\ h \notin all => id \notin {g.id : g \in all} /\ ClusterID(h) = Nil /\ v.agg = Nil
        /\ \A g \in all : InScope(config, g.id) /\ ClusterID(g) = ClusterID(h) =>
              statseView(config, g.id, g, <<>>).agg = v.agg
        /\ v.agg # Nil => \E g \in all : /\ g.id = v.agg /\ g.statse.agg /\ InScope(config, g.id)
                                         /\ ClusterID(g) = ClusterID(h)
        /\ v.interval # Nil <=> (h \in all /\ v.agg = h.id)
        /\ v.filter[1] = forwarderView(config, h, <<>>).filter[1] \/ (id = h.short /\ id # h.id)
        /\ \A p \in Processes(config) \cup {Nil} : OwnQueries(config, h, p)

\* The views of a configuration, for all names a host may ask by.
Own(config) ==
    LET all == Hosts(config)
        ids == {h.id : h \in all} \cup {h.short : h \in all} \cup config.net.scope
    IN  \A id \in ids : Host(config, id) # Nil => OwnOf(config, id, Host(config, id))

\* With every document the controller starts with, what a host is served is its own:
\* a name stands for the host that has it, or for
\* the only one that has it as its short name, or for none; all hosts of a cluster
\* name the same statse aggregator, which is one of them in scope, and only it has an
\* interval; the queries are those of the groups that target the host or the process,
\* and a group's queries come once.  collect-statse and tsp-forwarder add the same
\* host tag unless the host asks by its short name (config.go Host and Cluster,
\* control/collect-statse/control.go, control/collect-jmx/control.go).
OwnView == [][ctl' # ctl /\ ctl' # Nil => Own(ctl')]_vars

\* What the manual of collect-statse says: the host tag is the full name of the host,
\* by whatever name it asks (control/collect-statse/control.go View).
FullName ==
    ctl # Nil => \A h \in Hosts(ctl) : \A id \in {h.id, h.short} : Host(ctl, id) = h =>
        statseView(ctl, id, h, <<>>).filter[1] = AddTag("host", h.id)

\* The settings the program would now load, and whether there are any.
Loadable ==
    /\ file # Broken /\ (node.controlled => Served # Nil)
    /\ Validate(IF node.controlled THEN Over(FileAlone(file), Settings(Served)) ELSE FileAlone(file))

\* The program runs with the view that is served.
Current == pc = "run" /\ (node.controlled => running[1].view = Served)

\* The view that is served has been taken before and was rejected, by a file or for a
\* name lookup that may be right by now: the client does not deliver it again.
Consumed == node.controlled /\ pc \in {"load", "run"} /\ buf = Nil /\ last # Nil /\ last = Served

\* Whatever operators do, in the end the program runs with the view that is served,
\* if there is one and it is valid with the file, unless it has been consumed, or the
\* program hangs in Kill (internal/config/load.go load, Next, mainloop; Restart of
\* tsp-forwarder/config.go; internal/restart).
Converges == <>[](Current \/ ~Loadable \/ Consumed \/ pc = "hung")

\* What Next says: once new values have arrived, the program gets them, also if the
\* first attempt to load them failed (internal/config/load.go Next).
Adopts == <>[](Current \/ ~Loadable \/ pc = "hung")

-------------------------------------------------------------------------------
(* The invariant that the proofs use.                                        *)

\* A document is a tree of elements, in which a host is in a cluster and its path
\* leads through elements, and lists of query groups and subscribers.
Shaped(d) ==
    /\ d.tree \in Seq(ToSet(d.tree)) /\ \A h \in Hosts(d) : h.path \in Seq(NS(d)) /\ Len(h.path) >= 2
    /\ d.groups \in Seq(ToSet(d.groups)) /\ \A g \in ToSet(d.groups) : g.queries \in Seq(ToSet(g.queries))
    /\ d.net.subs \in Seq(ToSet(d.net.subs)) /\ \A s \in ToSet(d.net.subs) : s.direct \in BOOLEAN

\* Nil is none of the things it stands in for.
ASSUME ControlAssumption ==
    /\ MaxRules \in Nat \ {0}
    /\ Nil \notin {"bad", "10s"} /\ Nil # BlockAll /\ Nil # <<>>
    /\ \A o \in Outputs : o # Nil => o \in Seq(ToSet(o))
    /\ \A d \in Documents : Shaped(d)
    /\ \A d \in Documents, o \in Outputs, n \in Nodes :
          LET v == View(d, o, n.program, n.host)
          IN  v # Nil => v.filter # Nil /\ (n.program # "collect-statse" => v.relay # Nil)

\* When the payload is awaited the struct has what the file read last gives, and
\* nothing else; only a program with a controller gets there.
StructInv ==
    lpc = "update" => /\ cfg = [struct |-> FileAlone(cfg.file), file |-> cfg.file]
                      /\ node.controlled

\* What the controller runs with and what the program has been served is real.
ServedInv ==
    /\ node \in Nodes /\ doc \in Documents /\ output \in Outputs
    /\ ctl # Nil => ctl \in Documents
    /\ node.controlled /\ running # <<>> => running[1].view # Nil

IInv == TypeOK /\ NoTrace /\ StructInv

===============================================================================
