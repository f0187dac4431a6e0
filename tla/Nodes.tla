-------------------------------- MODULE Nodes --------------------------------
(***************************************************************************)
(* The proxy nodes (internal/node, cmd/node-agent): the registry that      *)
(* administrators edit, the heartbeats of the agents and the marker that   *)
(* takes silent nodes out, the configuration each agent pulls and reloads, *)
(* and the subscription that tells a user's client which nodes to use.     *)
(*                                                                         *)
(* One action is one statement on MySQL, one HTTP round trip, or one step  *)
(* of the agent.  Time is counted in heartbeat intervals and kept as ages. *)
(***************************************************************************)
EXTENDS Naturals, FiniteSets

CONSTANTS
    Node,        \* node ids, in table nodes at most once each
    User,        \* users, all with a plan
    Marker,      \* who runs the stale marker: the api's loop, the worker's task
    Supported,   \* the protocols both engines render
    PlanGroups,  \* the node groups of the plan, from plan_node_groups
    Request,     \* the node forms administrators send
    Timeout,     \* HeartbeatTimeout, in heartbeat intervals
    Lag,         \* how long a statement takes at most, in heartbeat intervals
    Budgets      \* bound: the edits and the faults of one behaviour

Engine == {"xray", "sing-box"}

\* A form names an engine or leaves it out: any other is refused as it is read.
ASSUME NodesAssumption ==
    /\ Timeout \in Nat \ {0}
    /\ Lag \in Nat
    /\ Budgets \subseteq [edits : Nat, faults : Nat]
    /\ \A r \in Request : r.engine \in Engine \cup {""}

VARIABLES
    node,     \* table nodes
    user,     \* of table users: banned, expired (plan_expire_at is past)
    agent,    \* by node: whether its agent runs, the version it knows
    disk,     \* by node: the configuration file, and the one the proxy runs
    pull,     \* by node: the agent's request for a configuration
    beats,    \* by node: the times its heartbeats under way took for now
    mark,     \* by marker: the time of its tick, while its statement is due
    silence,  \* by node: time since a heartbeat of it was written
    left      \* what is left of the bounds

vars == <<node, user, agent, disk, pull, beats, mark, silence, left>>

\* Times that need no further telling apart; Never stands for NULL.
Never == Timeout + Lag + 1
Age == 0 .. Never
Older(age) == IF age = Never THEN Never ELSE age + 1

\* The protocols of any form, and the field a PUT leaves out.
Protocols == Supported \cup {r.protocol : r \in Request}
Extras == UNION {r.extra : r \in {q \in Request : q.extra # {"omitted"}}}

Row == [at : {"table"}, group : {r.group : r \in Request}, protocol : Protocols,
        extra : SUBSET Extras, engine : Engine, status : {1} \cup {r.status : r \in Request},
        online : BOOLEAN, beat : Age]

\* What stands for no row: one that has not been made yet, or is no more.
NoRow(at) == [at |-> at, group |-> "none", protocol |-> "none", extra |-> {},
              engine |-> "none", status |-> 0, online |-> FALSE, beat |-> Never]

NoConfig == [engine |-> "none", inbounds |-> {}, users |-> {}]

Config == [engine : Engine, inbounds : SUBSET (Protocols \cup Extras), users : SUBSET User]

TypeOK ==
    /\ node \in [Node -> Row \cup {NoRow("new"), NoRow("deleted")}]
    /\ user \in [User -> [banned : BOOLEAN, expired : BOOLEAN]]
    /\ agent \in [Node -> [up : BOOLEAN, sent : BOOLEAN, known : Config \cup {NoConfig}]]
    /\ disk \in [Node -> [file : Config \cup {NoConfig}, running : Config \cup {NoConfig},
                          failed : BOOLEAN]]
    /\ pull \in [Node -> [at : {"idle", "found", "answered", "written"},
                          row : Row \cup {NoRow("new")}, config : Config \cup {NoConfig}]]
    /\ beats \in [Node -> SUBSET (0 .. Lag)]
    /\ mark \in [Marker -> {Never} \cup 0 .. Lag]
    /\ silence \in [Node -> Age]
    /\ left \in [edits : Nat, faults : Nat]

Off == [up |-> FALSE, sent |-> FALSE, known |-> NoConfig]
NoPull == [at |-> "idle", row |-> NoRow("new"), config |-> NoConfig]

Init ==
    /\ node = [n \in Node |-> NoRow("new")]
    /\ user = [u \in User |-> [banned |-> FALSE, expired |-> FALSE]]
    /\ agent = [n \in Node |-> Off]
    /\ disk = [n \in Node |-> [file |-> NoConfig, running |-> NoConfig, failed |-> FALSE]]
    /\ pull = [n \in Node |-> NoPull]
    /\ beats = [n \in Node |-> {}]
    /\ mark = [m \in Marker |-> Never]
    /\ silence = [n \in Node |-> Never]
    /\ left \in Budgets

\* FindByTokenHash finds the row of an agent's token.
Exists(n) == node[n].at = "table"

EditsLeft == left.edits > 0 /\ left' = [left EXCEPT !.edits = @ - 1]
FaultsLeft == left.faults > 0 /\ left' = [left EXCEPT !.faults = @ - 1]

-----------------------------------------------------------------------------
(* The registry.  Only the primary protocol is validated.                  *)

validProto(p) == p \in Supported

EngineOf(r) == IF r.engine = "" THEN "xray" ELSE r.engine

\* The row that a form makes: enabled unless it says otherwise, never online.
NewNode(r) ==
    [at |-> "table", group |-> r.group, protocol |-> r.protocol,
     extra |-> IF r.extra = {"omitted"} THEN {} ELSE r.extra,
     engine |-> EngineOf(r), status |-> IF r.status = 0 THEN 1 ELSE r.status,
     online |-> FALSE, beat |-> Never]

\* A row is created with a fresh token.
CreateNode(n, r) ==
    /\ node[n].at = "new"
    /\ EditsLeft
    /\ validProto(r.protocol)
    /\ node' = [node EXCEPT ![n] = NewNode(r)]
    /\ UNCHANGED <<user, agent, disk, pull, beats, mark, silence>>

\* gorm's Updates with a struct writes the fields that are not zero: a PUT can
\* neither disable a node (status 0) nor leave its extra inbounds out.
Updated(row, r) ==
    [row EXCEPT !.group = r.group, !.protocol = r.protocol, !.engine = EngineOf(r),
                !.extra = IF r.extra = {"omitted"} THEN @ ELSE r.extra,
                !.status = IF r.status = 0 THEN @ ELSE r.status]

UpdateNode(n, r) ==
    /\ Exists(n)
    /\ EditsLeft
    /\ validProto(r.protocol)
    /\ node' = [node EXCEPT ![n] = Updated(@, r)]
    /\ UNCHANGED <<user, agent, disk, pull, beats, mark, silence>>

DeleteNode(n) ==
    /\ Exists(n)
    /\ EditsLeft
    /\ node' = [node EXCEPT ![n] = NoRow("deleted")]
    /\ UNCHANGED <<user, agent, disk, pull, beats, mark, silence>>

\* The administrators' routes.
adminCreateNode(n) == \E r \in Request : CreateNode(n, r)

adminUpdateNode(n) == \E r \in Request : UpdateNode(n, r)

\* Bans, expiries and their ends, whichever component writes them.
UserChanges(u) ==
    /\ EditsLeft
    /\ \E s \in [banned : BOOLEAN, expired : BOOLEAN] :
         /\ s # user[u]
         /\ user' = [user EXCEPT ![u] = s]
    /\ UNCHANGED <<node, agent, disk, pull, beats, mark, silence>>

-----------------------------------------------------------------------------
(* Heartbeats, and the marker that takes silent nodes offline.             *)

\* An agent starts by registering; when the registry refuses, it exits.
AgentStart(n) ==
    /\ ~agent[n].up
    /\ Exists(n)
    /\ agent' = [agent EXCEPT ![n] = [Off EXCEPT !.up = TRUE]]
    /\ UNCHANGED <<node, user, disk, pull, beats, mark, silence, left>>

\* AgentHeartbeat finds the row and takes the time; a refused one changes nothing.
HeartbeatFind(n) ==
    /\ agent[n].up /\ ~agent[n].sent
    /\ agent' = [agent EXCEPT ![n].sent = TRUE]
    /\ beats' = IF Exists(n) THEN [beats EXCEPT ![n] = @ \cup {0}] ELSE beats
    /\ UNCHANGED <<node, user, disk, pull, mark, silence, left>>

HeartbeatLost(n) ==
    /\ agent[n].up /\ ~agent[n].sent
    /\ FaultsLeft
    /\ agent' = [agent EXCEPT ![n].sent = TRUE]
    /\ UNCHANGED <<node, user, disk, pull, beats, mark, silence>>

UpsertHeartbeat(row, now) == [row EXCEPT !.online = TRUE, !.beat = now]

HeartbeatWrite(n) ==
    \E now \in beats[n] :
      /\ beats' = [beats EXCEPT ![n] = @ \ {now}]
      /\ IF Exists(n)
         THEN /\ node' = [node EXCEPT ![n] = UpsertHeartbeat(@, now)]
              /\ silence' = [silence EXCEPT ![n] = 0]
         ELSE UNCHANGED <<node, silence>>
      /\ UNCHANGED <<user, agent, disk, pull, mark, left>>

\* A marker's tick fixes its cutoff: the tick's time less the timeout.
MarkTick(m) ==
    /\ mark[m] = Never
    /\ mark' = [mark EXCEPT ![m] = 0]
    /\ UNCHANGED <<node, user, agent, disk, pull, beats, silence, left>>

\* With the tick itself for a cutoff.
StaleAtTick(row, tick) == row.online /\ row.beat > tick

Stale(row, tick) == row.online /\ row.beat > tick + Timeout

\* MarkStale is one statement, which judges every row as it finds it.
MarkStale(m) ==
    /\ mark[m] # Never
    /\ node' = [n \in Node |->
         IF Exists(n) /\ Stale(node[n], mark[m])
         THEN [node[n] EXCEPT !.online = FALSE] ELSE node[n]]
    /\ mark' = [mark EXCEPT ![m] = Never]
    /\ UNCHANGED <<user, agent, disk, pull, beats, silence, left>>

MarkFails(m) ==
    /\ mark[m] # Never
    /\ FaultsLeft
    /\ mark' = [mark EXCEPT ![m] = Never]
    /\ UNCHANGED <<node, user, agent, disk, pull, beats, silence>>

\* One interval passes: every agent has tried its heartbeat, and no statement
\* takes longer than Lag.
Tick ==
    /\ \A n \in Node : agent[n].up => agent[n].sent
    /\ \A n \in Node : Lag \notin beats[n]
    /\ \A m \in Marker : mark[m] # Lag
    /\ node' = [n \in Node |->
         IF Exists(n) THEN [node[n] EXCEPT !.beat = Older(@)] ELSE node[n]]
    /\ beats' = [n \in Node |-> {age + 1 : age \in beats[n]}]
    /\ mark' = [m \in Marker |-> Older(mark[m])]
    /\ silence' = [n \in Node |-> Older(silence[n])]
    /\ agent' = [n \in Node |-> [agent[n] EXCEPT !.sent = FALSE]]
    /\ UNCHANGED <<user, disk, pull, left>>

-----------------------------------------------------------------------------
(* The configuration of a node: AgentConfig and the agent's config loop.   *)

\* With the banned left in.
ListActiveBanned == {u \in User : ~user[u].expired}

ListActive == {u \in User : ~user[u].banned /\ ~user[u].expired}

AllInbounds(row) == {row.protocol} \cup row.extra

\* Each engine's notation for an inbound; one that it does not know aborts
\* the render.
xrayInbound(p) == p \in Supported

singBoxInbound(p) == p \in Supported

Renders(row) ==
    \A p \in AllInbounds(row) :
      IF row.engine = "sing-box" THEN singBoxInbound(p) ELSE xrayInbound(p)

RenderXray(row, subs) ==
    [engine |-> "xray", inbounds |-> AllInbounds(row), users |-> subs]

RenderSingBox(row, subs) ==
    [engine |-> "sing-box", inbounds |-> AllInbounds(row), users |-> subs]

Rendered(row, subs) ==
    IF row.engine = "sing-box" THEN RenderSingBox(row, subs) ELSE RenderXray(row, subs)

\* AgentConfig reads the node's row; for a node it has not got, it is an error.
PullFind(n) ==
    /\ agent[n].up /\ pull[n].at = "idle"
    /\ Exists(n)
    /\ pull' = [pull EXCEPT ![n] = [NoPull EXCEPT !.at = "found",
                                                  !.row = [node[n] EXCEPT !.beat = Never]]]
    /\ UNCHANGED <<node, user, agent, disk, beats, mark, silence, left>>

\* It reads the active users, renders, and compares with the version the agent
\* knows; the agent does nothing on an error or an unchanged version.
PullAnswer(n) ==
    /\ pull[n].at = "found"
    /\ LET new == Rendered(pull[n].row, ListActive)
       IN IF Renders(pull[n].row) /\ new # agent[n].known
          THEN pull' = [pull EXCEPT ![n] = [NoPull EXCEPT !.at = "answered", !.config = new]]
          ELSE pull' = [pull EXCEPT ![n] = NoPull]
    /\ UNCHANGED <<node, user, agent, disk, beats, mark, silence, left>>

PullLost(n) ==
    /\ pull[n].at \in {"found", "answered"}
    /\ FaultsLeft
    /\ pull' = [pull EXCEPT ![n] = NoPull]
    /\ UNCHANGED <<node, user, agent, disk, beats, mark, silence>>

\* With the version taken for known before the file is written.
LearnBefore(n) == [agent[n] EXCEPT !.known = pull[n].config]

\* What the agent knows when writeAtomic fails: what it knew.
LearnOnError(n) == agent[n]

\* The file changes by a rename, after which the agent takes the version for known.
PullWrite(n) ==
    /\ pull[n].at = "answered"
    /\ disk' = [disk EXCEPT ![n].file = pull[n].config]
    /\ agent' = [agent EXCEPT ![n].known = pull[n].config]
    /\ pull' = [pull EXCEPT ![n] = [@ EXCEPT !.at = "written"]]
    /\ UNCHANGED <<node, user, beats, mark, silence, left>>

WriteFails(n) ==
    /\ pull[n].at = "answered"
    /\ FaultsLeft
    /\ agent' = [agent EXCEPT ![n] = LearnOnError(n)]
    /\ pull' = [pull EXCEPT ![n] = NoPull]
    /\ UNCHANGED <<node, user, disk, beats, mark, silence>>

\* The reload command makes the proxy read the file.
Reload(n) ==
    /\ pull[n].at = "written"
    /\ disk' = [disk EXCEPT ![n].running = disk[n].file, ![n].failed = FALSE]
    /\ pull' = [pull EXCEPT ![n] = NoPull]
    /\ UNCHANGED <<node, user, agent, beats, mark, silence, left>>

\* When it fails the agent logs it: the version stays known.
ReloadFails(n) ==
    /\ pull[n].at = "written"
    /\ FaultsLeft
    /\ disk' = [disk EXCEPT ![n].failed = TRUE]
    /\ pull' = [pull EXCEPT ![n] = NoPull]
    /\ UNCHANGED <<node, user, agent, beats, mark, silence>>

\* The agent stops, alone or with its machine, where the proxy then starts
\* from the file.  What it knew is gone.
AgentStops(n) ==
    /\ agent[n].up
    /\ FaultsLeft
    /\ agent' = [agent EXCEPT ![n] = Off]
    /\ pull' = [pull EXCEPT ![n] = NoPull]
    /\ disk' \in {disk, [disk EXCEPT ![n].running = disk[n].file, ![n].failed = FALSE]}
    /\ UNCHANGED <<node, user, beats, mark, silence>>

-----------------------------------------------------------------------------
(* The subscription: which nodes and protocols a user's client is told of. *)

ListByGroups == {n \in Node : Exists(n) /\ node[n].group \in PlanGroups
                                /\ node[n].status = 1 /\ node[n].online}

\* One entry for each inbound of each node.
Expand(nodes) == {e \in nodes \X (Protocols \cup Extras) : e[2] \in AllInbounds(node[e[1]])}

\* Each format leaves out the inbounds it has no notation for.
shareLink(p) == p \in Supported
clashProxy(p) == p \in Supported
singBoxOutbound(p) == p \in Supported

V2Ray(nodes) == {e \in Expand(nodes) : shareLink(e[2])}
Clash(nodes) == {e \in Expand(nodes) : clashProxy(e[2])}
SingBox(nodes) == {e \in Expand(nodes) : singBoxOutbound(e[2])}

\* The user's plan as LookupBySubToken finds it: a ban does not matter.
PlanRuns(u) == ~user[u].expired

\* In whichever format the client asks for.
Subscription(u) ==
    IF ~PlanRuns(u) THEN {}
    ELSE V2Ray(ListByGroups) \cup Clash(ListByGroups) \cup SingBox(ListByGroups)

-----------------------------------------------------------------------------
agentHeartbeat(n) == HeartbeatFind(n) \/ HeartbeatWrite(n)

agentConfig(n) == PullFind(n) \/ PullAnswer(n)

pullAndApply(n) == PullWrite(n) \/ Reload(n)

Fault(n) ==
    \/ HeartbeatLost(n)
    \/ PullLost(n)
    \/ WriteFails(n)
    \/ ReloadFails(n)
    \/ AgentStops(n)

Next ==
    \/ \E n \in Node : \/ adminCreateNode(n) \/ adminUpdateNode(n) \/ DeleteNode(n)
                       \/ AgentStart(n) \/ agentHeartbeat(n) \/ agentConfig(n)
                       \/ pullAndApply(n) \/ Fault(n)
    \/ \E u \in User : UserChanges(u)
    \/ \E m \in Marker : MarkTick(m) \/ MarkStale(m) \/ MarkFails(m)
    \/ Tick

\* The loops of an agent that runs go on, the server finishes what it began,
\* one marker ticks, and time passes.  Nobody need start an agent.
Fairness ==
    /\ \A n \in Node :
         /\ WF_vars(HeartbeatFind(n)) /\ WF_vars(HeartbeatWrite(n))
         /\ WF_vars(PullFind(n)) /\ WF_vars(PullAnswer(n))
         /\ WF_vars(PullWrite(n)) /\ WF_vars(Reload(n))
    /\ \A m \in Marker : WF_vars(MarkTick(m)) /\ WF_vars(MarkStale(m))
    /\ WF_vars(Tick)

Spec == Init /\ [][Next]_vars /\ Fairness

-----------------------------------------------------------------------------
(* Properties.                                                             *)

\* The marker takes a node offline only when no heartbeat of it was written
\* for the whole timeout but what the slowest statement may take, whatever
\* the order in which heartbeats and markers that overlap are written.
OfflineOnlyWhenSilent ==
    [][\A n \in Node :
         /\ Exists(n) /\ Exists(n)' /\ node[n].online /\ ~node'[n].online
         => silence[n] > Timeout - Lag]_vars

\* What a subscription tells a user in good standing of is, when edits and
\* faults have ended, served: the node's agent runs and its proxy has that
\* inbound with that user in it.  A reload that failed, which the agent never
\* tries again, and a node with an inbound nobody can render are excepted.
Excepted(n) == disk[n].failed \/ ~Renders(node[n])

Serves(n, p, u) ==
    /\ agent[n].up
    /\ disk[n].running # NoConfig
    /\ p \in disk[n].running.inbounds
    /\ u \in disk[n].running.users

ListedIsServed ==
    <>[](\A u \in User : \A e \in Subscription(u) :
           user[u].banned \/ Excepted(e[1]) \/ Serves(e[1], e[2], u))

\* A banned user, and one whose plan has expired, is in the end served by no
\* node that has a running agent, with the same exceptions.
BannedLeave ==
    <>[](\A n \in Node :
           Exists(n) /\ agent[n].up /\ ~Excepted(n) /\ disk[n].running # NoConfig
           => \A u \in disk[n].running.users : ~user[u].banned /\ ~user[u].expired)
=============================================================================
