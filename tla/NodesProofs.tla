------------------------------ MODULE NodesProofs ------------------------------
(***************************************************************************)
(* Proofs about Nodes for any nodes, users, markers, forms, timeout and    *)
(* lag: the types, that the marker takes no node offline that was heard    *)
(* of, and that an agent takes for known only what it has applied.         *)
(***************************************************************************)
EXTENDS Nodes, Integers, TLAPS

-----------------------------------------------------------------------------
(* Types.                                                                  *)

Rows == Row \cup {NoRow("new"), NoRow("deleted")}
Configs == Config \cup {NoConfig}
Pull == [at : {"idle", "found", "answered", "written"},
         row : Row \cup {NoRow("new")}, config : Configs]

LEMMA Ages == /\ Timeout \in Nat \ {0} /\ Lag \in Nat
              /\ Never \in Age /\ 0 \in 0 .. Lag /\ 0 .. Lag \subseteq Age
              /\ Never \notin 0 .. Lag
              /\ \A age \in Age : Older(age) \in Age
              /\ \A age \in 0 .. Lag : age # Lag => age + 1 \in 0 .. Lag /\ Older(age) = age + 1
<1>1. Timeout \in Nat \ {0} /\ Lag \in Nat
  BY NodesAssumption DEF NodesAssumption
<1>2. Never \in Nat /\ Never > Lag + 1
  BY <1>1 DEF Never
<1>3. QED
  BY <1>1, <1>2 DEF Age, Older

\* What stands in a table is a row, and what stands for none is not.
LEMMA RowsTell ==
  ASSUME NEW row \in Rows
  PROVE  row.at = "table" <=> row \in Row
BY DEF Rows, Row, NoRow

\* The row of a form is one, and so is a row that a form has changed.
LEMMA NewNodeTyped ==
  ASSUME NEW r \in Request, validProto(r.protocol)
  PROVE  /\ NewNode(r) \in Row
         /\ ~NewNode(r).online
         /\ \A row \in Row : /\ Updated(row, r) \in Row
                             /\ Updated(row, r).online = row.online
                             /\ Updated(row, r).beat = row.beat
<1>1. r.group \in {q.group : q \in Request} /\ r.protocol \in Protocols
  BY DEF Protocols
<1>2. r.status \in {q.status : q \in Request}
  OBVIOUS
<1>3. r.extra # {"omitted"} => r.extra \in SUBSET Extras
  BY DEF Extras
<1>4. EngineOf(r) \in Engine
  BY NodesAssumption DEF NodesAssumption, EngineOf, Engine
<1>5. Never \in Age
  BY Ages
<1>6. NewNode(r) \in Row /\ ~NewNode(r).online
  BY <1>1, <1>2, <1>3, <1>4, <1>5 DEF NewNode, Row
<1>7. ASSUME NEW row \in Row
      PROVE  /\ Updated(row, r) \in Row
             /\ Updated(row, r).online = row.online
             /\ Updated(row, r).beat = row.beat
  <2>1. row.extra \in SUBSET Extras
    BY DEF Row
  <2> DEFINE extra == IF r.extra = {"omitted"} THEN row.extra ELSE r.extra
             status == IF r.status = 0 THEN row.status ELSE r.status
  <2>2. extra \in SUBSET Extras
    BY <1>3, <2>1
  <2>3. status \in {1} \cup {q.status : q \in Request}
    BY <1>2 DEF Row
  <2>4. Updated(row, r) = [row EXCEPT !.group = r.group, !.protocol = r.protocol,
                                      !.engine = EngineOf(r), !.extra = extra,
                                      !.status = status]
    BY DEF Updated, Row
  <2> HIDE DEF extra, status
  <2>5. QED
    BY <1>1, <1>4, <2>2, <2>3, <2>4 DEF Row
<1>8. QED
  BY <1>6, <1>7

\* What a node renders is a configuration.
LEMMA RenderedTyped ==
  ASSUME NEW row, Renders(row), NEW subs \in SUBSET User
  PROVE  Rendered(row, subs) \in Config
<1>1. AllInbounds(row) \in SUBSET (Protocols \cup Extras)
  BY DEF Renders, xrayInbound, singBoxInbound, Protocols
<1>2. QED
  BY <1>1 DEF Rendered, RenderXray, RenderSingBox, Config, Engine

LEMMA NoConfigTells == NoConfig \notin Config
BY DEF NoConfig, Config, Engine

-----------------------------------------------------------------------------
(* A step on one node.                                                     *)

\* The heartbeat a row holds is no older than the last one that was written
\* by more than a statement may take.
HeardInTime ==
    \A n \in Node : Exists(n) /\ node[n].online => node[n].beat <= silence[n] + Lag

\* The configuration whose version an agent takes for known is in the file,
\* and the proxy runs it unless the reload is due or has failed.
KnownIsApplied ==
    \A n \in Node : agent[n].known # NoConfig
      => /\ disk[n].file = agent[n].known
         /\ \/ disk[n].running = agent[n].known
            \/ disk[n].failed
            \/ pull[n].at = "written"

NodesInv == TypeOK /\ HeardInTime /\ KnownIsApplied

\* A heartbeat, a pull or an edit writes the row of its node alone.
LEMMA RowWritten ==
  ASSUME TypeOK, NEW n \in Node, NEW row \in Rows, node' = [node EXCEPT ![n] = row]
  PROVE  /\ node' \in [Node -> Rows]
         /\ node'[n] = row
         /\ \A o \in Node : o # n => node'[o] = node[o]
BY DEF TypeOK, Rows

\* Edits and faults use up the bounds.
LEMMA BoundsStep ==
  ASSUME TypeOK, EditsLeft \/ FaultsLeft
  PROVE  left' \in [edits : Nat, faults : Nat]
BY DEF TypeOK, EditsLeft, FaultsLeft

\* What an edit of the registry writes.
LEMMA RegistryStep ==
  ASSUME TypeOK, NEW n \in Node, adminCreateNode(n) \/ adminUpdateNode(n) \/ DeleteNode(n)
  PROVE  \E row \in Rows :
           /\ node' = [node EXCEPT ![n] = row]
           /\ row.at = "table" /\ row.online
                => /\ Exists(n) /\ node[n].online
                   /\ row.beat = node[n].beat
           /\ row.at = "table" /\ Exists(n) => row.online = node[n].online
           /\ EditsLeft
           /\ UNCHANGED <<user, agent, disk, pull, beats, mark, silence>>
<1>1. node[n] \in Rows
  BY DEF TypeOK, Rows
<1>2. CASE adminCreateNode(n)
  <2>1. PICK r \in Request : CreateNode(n, r)
    BY <1>2 DEF adminCreateNode
  <2>2. NewNode(r) \in Rows /\ ~NewNode(r).online
    BY <2>1, NewNodeTyped DEF CreateNode, Rows
  <2>3. ~Exists(n)
    BY <2>1 DEF CreateNode, Exists
  <2>4. QED
    BY <2>1, <2>2, <2>3 DEF CreateNode
<1>3. CASE adminUpdateNode(n)
  <2>1. PICK r \in Request : UpdateNode(n, r)
    BY <1>3 DEF adminUpdateNode
  <2>2. node[n] \in Row
    BY <1>1, <2>1, RowsTell DEF UpdateNode, Exists
  <2>3. /\ Updated(node[n], r) \in Rows
        /\ Updated(node[n], r).online = node[n].online
        /\ Updated(node[n], r).beat = node[n].beat
    BY <2>1, <2>2, NewNodeTyped DEF UpdateNode, Rows
  <2>4. node' = [node EXCEPT ![n] = Updated(node[n], r)]
    BY <2>1 DEF UpdateNode
  <2>5. QED
    BY <2>1, <2>3, <2>4 DEF UpdateNode
<1>4. CASE DeleteNode(n)
  <2>1. NoRow("deleted") \in Rows /\ NoRow("deleted").at # "table"
    BY DEF Rows, NoRow
  <2>2. QED
    BY <1>4, <2>1 DEF DeleteNode
<1>5. QED
  BY <1>2, <1>3, <1>4

\* What a heartbeat writes.
LEMMA HeartbeatStep ==
  ASSUME TypeOK, NEW n \in Node, HeartbeatWrite(n)
  PROVE  /\ beats' \in [Node -> SUBSET (0 .. Lag)]
         /\ UNCHANGED <<user, agent, disk, pull, mark, left>>
         /\ \/ UNCHANGED <<node, silence>>
            \/ \E row \in Rows :
                 /\ node' = [node EXCEPT ![n] = row]
                 /\ silence' = [silence EXCEPT ![n] = 0]
                 /\ row.online /\ row.beat \in 0 .. Lag
<1>1. PICK now \in beats[n] :
        /\ beats' = [beats EXCEPT ![n] = @ \ {now}]
        /\ IF Exists(n)
           THEN /\ node' = [node EXCEPT ![n] = UpsertHeartbeat(@, now)]
                /\ silence' = [silence EXCEPT ![n] = 0]
           ELSE UNCHANGED <<node, silence>>
        /\ UNCHANGED <<user, agent, disk, pull, mark, left>>
  BY DEF HeartbeatWrite
<1>2. beats[n] \in SUBSET (0 .. Lag) /\ now \in 0 .. Lag /\ now \in Age
  BY Ages DEF TypeOK
<1>3. beats' \in [Node -> SUBSET (0 .. Lag)]
  BY <1>1, <1>2 DEF TypeOK
<1>4. CASE Exists(n)
  <2> DEFINE row == UpsertHeartbeat(node[n], now)
  <2>1. node[n] \in Row
    BY <1>4, RowsTell DEF TypeOK, Rows, Exists
  <2>2. row \in Row /\ row.online /\ row.beat = now
    BY <1>2, <2>1 DEF UpsertHeartbeat, Row
  <2>3. node' = [node EXCEPT ![n] = row] /\ silence' = [silence EXCEPT ![n] = 0]
    BY <1>1, <1>4
  <2> HIDE DEF row
  <2>4. QED
    BY <1>1, <1>2, <1>3, <2>2, <2>3 DEF Rows
<1>5. QED
  BY <1>1, <1>3, <1>4

\* What a marker writes.
LEMMA MarkStep ==
  ASSUME TypeOK, NEW m \in Marker, MarkStale(m)
  PROVE  /\ node' \in [Node -> Rows]
         /\ \A n \in Node : \/ node'[n] = node[n]
                            \/ ~node'[n].online /\ Stale(node[n], mark[m])
<1>1. ASSUME NEW n \in Node, Exists(n)
      PROVE  [node[n] EXCEPT !.online = FALSE] \in Rows /\ ~[node[n] EXCEPT !.online = FALSE].online
  <2>1. node[n] \in Row
    BY <1>1, RowsTell DEF TypeOK, Rows, Exists
  <2>2. QED
    BY <2>1 DEF Rows, Row
<1>2. \A n \in Node : node[n] \in Rows
  BY DEF TypeOK, Rows
<1>3. node' = [n \in Node |->
                IF Exists(n) /\ Stale(node[n], mark[m])
                THEN [node[n] EXCEPT !.online = FALSE] ELSE node[n]]
  BY DEF MarkStale
<1>4. QED
  BY <1>1, <1>2, <1>3

\* What an interval writes.
LEMMA TickStep ==
  ASSUME TypeOK, Tick
  PROVE  /\ node' \in [Node -> Rows] /\ silence' \in [Node -> Age]
         /\ \A n \in Node :
              /\ silence'[n] = Older(silence[n])
              /\ Exists(n)' <=> Exists(n)
              /\ node'[n].online = node[n].online
              /\ Exists(n) => node'[n].beat = Older(node[n].beat)
<1>1. ASSUME NEW n \in Node, Exists(n)
      PROVE  /\ [node[n] EXCEPT !.beat = Older(@)] \in Row
             /\ [node[n] EXCEPT !.beat = Older(@)].beat = Older(node[n].beat)
             /\ [node[n] EXCEPT !.beat = Older(@)].online = node[n].online
  <2>1. node[n] \in Row
    BY <1>1, RowsTell DEF TypeOK, Rows, Exists
  <2>2. Older(node[n].beat) \in Age
    BY <2>1, Ages DEF Row
  <2>3. QED
    BY <2>1, <2>2 DEF Row
<1>2. \A n \in Node : node[n] \in Rows
  BY DEF TypeOK, Rows
<1>3. /\ node' = [n \in Node |->
           IF Exists(n) THEN [node[n] EXCEPT !.beat = Older(@)] ELSE node[n]]
      /\ silence' = [n \in Node |-> Older(silence[n])]
  BY DEF Tick
<1>4. node' \in [Node -> Rows]
  BY <1>1, <1>2, <1>3 DEF Rows
<1>5. silence' \in [Node -> Age]
  BY <1>3, Ages DEF TypeOK
<1>6. ASSUME NEW n \in Node
      PROVE  /\ silence'[n] = Older(silence[n])
             /\ Exists(n)' <=> Exists(n)
             /\ node'[n].online = node[n].online
             /\ Exists(n) => node'[n].beat = Older(node[n].beat)
  <2>1. silence'[n] = Older(silence[n])
    BY <1>3
  <2>2. CASE Exists(n)
    <3>1. node'[n] = [node[n] EXCEPT !.beat = Older(@)]
      BY <1>3, <2>2
    <3>2. node'[n] \in Row
      BY <1>1, <2>2, <3>1
    <3>3. Exists(n)'
      BY <3>2 DEF Exists, Row
    <3>4. QED
      BY <1>1, <2>1, <2>2, <3>1, <3>3
  <2>3. CASE ~Exists(n)
    <3>1. node'[n] = node[n]
      BY <1>3, <2>3
    <3>2. QED
      BY <2>1, <2>3, <3>1 DEF Exists
  <2>4. QED
    BY <2>2, <2>3
<1>7. QED
  BY <1>4, <1>5, <1>6

-----------------------------------------------------------------------------
(* A step of the specification.                                            *)

\* What an agent knows, has on disk and asks for.
AgentsTyped ==
    /\ agent \in [Node -> [up : BOOLEAN, sent : BOOLEAN, known : Configs]]
    /\ disk \in [Node -> [file : Configs, running : Configs, failed : BOOLEAN]]
    /\ pull \in [Node -> Pull]

LEMMA AgentsType == TypeOK => AgentsTyped
BY DEF TypeOK, AgentsTyped, Configs, Pull

\* A step of one agent, but for its heartbeat's row.
AgentMoves(n) ==
    \/ AgentStart(n) \/ HeartbeatFind(n) \/ HeartbeatLost(n)
    \/ PullFind(n) \/ PullAnswer(n) \/ PullLost(n)
    \/ PullWrite(n) \/ WriteFails(n) \/ Reload(n) \/ ReloadFails(n) \/ AgentStops(n)

LEMMA NextSteps ==
  ASSUME Next
  PROVE  \/ \E n \in Node : adminCreateNode(n) \/ adminUpdateNode(n) \/ DeleteNode(n)
         \/ \E n \in Node : AgentMoves(n) \/ HeartbeatWrite(n)
         \/ \E u \in User : UserChanges(u)
         \/ \E m \in Marker : MarkTick(m) \/ MarkStale(m) \/ MarkFails(m)
         \/ Tick
BY DEF Next, AgentMoves, agentHeartbeat, agentConfig, pullAndApply, Fault

\* A step of an agent keeps the types of what is the agent's.
LEMMA AgentStep ==
  ASSUME TypeOK, NEW n \in Node, AgentMoves(n)
  PROVE  /\ AgentsTyped'
         /\ beats' \in [Node -> SUBSET (0 .. Lag)]
         /\ left' \in [edits : Nat, faults : Nat]
         /\ UNCHANGED <<node, user, mark, silence>>
<1>1. AgentsTyped /\ beats \in [Node -> SUBSET (0 .. Lag)] /\ left \in [edits : Nat, faults : Nat]
  BY AgentsType DEF TypeOK
<1>2. NoConfig \in Configs /\ Off \in [up : BOOLEAN, sent : BOOLEAN, known : Configs]
  BY DEF Configs, Off
<1>3. NoPull \in Pull
  BY <1>2 DEF Pull, NoPull
<1>4. CASE AgentStart(n)
  <2> DEFINE started == [Off EXCEPT !.up = TRUE]
  <2>1. started \in [up : BOOLEAN, sent : BOOLEAN, known : Configs]
    BY <1>2
  <2>2. /\ agent' = [agent EXCEPT ![n] = started]
        /\ UNCHANGED <<node, user, disk, pull, beats, mark, silence, left>>
    BY <1>4 DEF AgentStart
  <2> HIDE DEF started
  <2>3. QED
    BY <1>1, <2>1, <2>2 DEF AgentsTyped
<1>5. CASE HeartbeatFind(n)
  <2>1. 0 \in 0 .. Lag
    BY Ages
  <2>2. beats' \in [Node -> SUBSET (0 .. Lag)]
    BY <1>1, <1>5, <2>1 DEF HeartbeatFind
  <2>3. QED
    BY <1>1, <1>5, <2>2 DEF HeartbeatFind, AgentsTyped
<1>6. CASE HeartbeatLost(n)
  <2>1. left' \in [edits : Nat, faults : Nat]
    BY <1>6, BoundsStep DEF HeartbeatLost
  <2>2. QED
    BY <1>1, <1>6, <2>1 DEF HeartbeatLost, AgentsTyped
<1>7. CASE PullFind(n)
  <2> DEFINE row == [node[n] EXCEPT !.beat = Never]
  <2>1. row \in Row
    <3>1. node[n] \in Row
      BY <1>7, RowsTell DEF TypeOK, Rows, PullFind, Exists
    <3>2. QED
      BY <3>1, Ages DEF Row
  <2> HIDE DEF row
  <2>2. [NoPull EXCEPT !.at = "found", !.row = row] \in Pull
    BY <1>2, <2>1 DEF Pull, NoPull
  <2>3. pull' \in [Node -> Pull]
    BY <1>1, <1>7, <2>2 DEF PullFind, AgentsTyped, row
  <2>4. QED
    BY <1>1, <1>7, <2>3 DEF PullFind, AgentsTyped
<1>8. CASE PullAnswer(n)
  <2> DEFINE new == Rendered(pull[n].row, ListActive)
  <2>1. CASE pull' = [pull EXCEPT ![n] = NoPull]
    BY <1>1, <1>3, <1>8, <2>1 DEF PullAnswer, AgentsTyped
  <2>2. CASE /\ Renders(pull[n].row)
             /\ pull' = [pull EXCEPT ![n] = [NoPull EXCEPT !.at = "answered", !.config = new]]
    <3>1. ListActive \in SUBSET User
      BY DEF ListActive
    <3>2. new \in Configs
      BY <2>2, <3>1, RenderedTyped DEF Configs
    <3> HIDE DEF new
    <3>3. [NoPull EXCEPT !.at = "answered", !.config = new] \in Pull
      BY <3>2 DEF Pull, NoPull
    <3>4. pull' \in [Node -> Pull]
      BY <1>1, <2>2, <3>3 DEF AgentsTyped
    <3>5. QED
      BY <1>1, <1>8, <3>4 DEF PullAnswer, AgentsTyped
  <2>3. QED
    BY <1>8, <2>1, <2>2 DEF PullAnswer
<1>9. CASE PullLost(n)
  <2>1. left' \in [edits : Nat, faults : Nat]
    BY <1>9, BoundsStep DEF PullLost
  <2>2. QED
    BY <1>1, <1>3, <1>9, <2>1 DEF PullLost, AgentsTyped
<1>10. CASE PullWrite(n)
  <2>1. pull[n].config \in Configs
    BY <1>1 DEF AgentsTyped, Pull
  <2>2. pull' \in [Node -> Pull]
    BY <1>1, <1>10 DEF PullWrite, AgentsTyped, Pull
  <2>3. QED
    BY <1>1, <1>10, <2>1, <2>2 DEF PullWrite, AgentsTyped
<1>11. CASE WriteFails(n)
  <2>1. left' \in [edits : Nat, faults : Nat]
    BY <1>11, BoundsStep DEF WriteFails
  <2>2. QED
    BY <1>1, <1>3, <1>11, <2>1 DEF WriteFails, LearnOnError, AgentsTyped
<1>12. CASE Reload(n)
  BY <1>1, <1>3, <1>12 DEF Reload, AgentsTyped
<1>13. CASE ReloadFails(n)
  <2>1. left' \in [edits : Nat, faults : Nat]
    BY <1>13, BoundsStep DEF ReloadFails
  <2>2. QED
    BY <1>1, <1>3, <1>13, <2>1 DEF ReloadFails, AgentsTyped
<1>14. CASE AgentStops(n)
  <2>1. left' \in [edits : Nat, faults : Nat]
    BY <1>14, BoundsStep DEF AgentStops
  <2>2. QED
    BY <1>1, <1>2, <1>3, <1>14, <2>1 DEF AgentStops, AgentsTyped
<1>15. QED
  BY <1>4, <1>5, <1>6, <1>7, <1>8, <1>9, <1>10, <1>11, <1>12, <1>13, <1>14 DEF AgentMoves
LEMMA TypeStep ==
  ASSUME TypeOK, [Next]_vars
  PROVE  TypeOK'
<1>1. CASE UNCHANGED vars
  BY <1>1 DEF TypeOK, vars
<1>2. ASSUME NEW n \in Node, adminCreateNode(n) \/ adminUpdateNode(n) \/ DeleteNode(n)
      PROVE  TypeOK'
  <2>1. node' \in [Node -> Rows]
    BY <1>2, RegistryStep, RowWritten
  <2>2. left' \in [edits : Nat, faults : Nat]
    BY <1>2, RegistryStep, BoundsStep
  <2>3. UNCHANGED <<user, agent, disk, pull, beats, mark, silence>>
    BY <1>2, RegistryStep
  <2>4. QED
    BY <2>1, <2>2, <2>3 DEF TypeOK, Rows
<1>3. ASSUME NEW n \in Node, AgentMoves(n)
      PROVE  TypeOK'
  <2>1. /\ AgentsTyped'
        /\ beats' \in [Node -> SUBSET (0 .. Lag)]
        /\ left' \in [edits : Nat, faults : Nat]
        /\ UNCHANGED <<node, user, mark, silence>>
    BY <1>3, AgentStep
  <2>2. QED
    BY <2>1 DEF TypeOK, AgentsTyped, Configs, Pull
<1>4. ASSUME NEW n \in Node, HeartbeatWrite(n)
      PROVE  TypeOK'
  <2>1. beats' \in [Node -> SUBSET (0 .. Lag)] /\ UNCHANGED <<user, agent, disk, pull, mark, left>>
    BY <1>4, HeartbeatStep
  <2>2. CASE UNCHANGED <<node, silence>>
    BY <2>1, <2>2 DEF TypeOK
  <2>3. CASE \E row \in Rows : /\ node' = [node EXCEPT ![n] = row]
                               /\ silence' = [silence EXCEPT ![n] = 0]
    <3>1. node' \in [Node -> Rows]
      BY <2>3, RowWritten
    <3>2. silence' \in [Node -> Age]
      BY <2>3, Ages DEF TypeOK
    <3>3. QED
      BY <2>1, <3>1, <3>2 DEF TypeOK, Rows
  <2>4. QED
    BY <1>4, <2>2, <2>3, HeartbeatStep
<1>5. ASSUME NEW u \in User, UserChanges(u)
      PROVE  TypeOK'
  <2>1. left' \in [edits : Nat, faults : Nat]
    BY <1>5, BoundsStep DEF UserChanges
  <2>2. user' \in [User -> [banned : BOOLEAN, expired : BOOLEAN]]
    BY <1>5 DEF UserChanges, TypeOK
  <2>3. UNCHANGED <<node, agent, disk, pull, beats, mark, silence>>
    BY <1>5 DEF UserChanges
  <2>4. QED
    BY <2>1, <2>2, <2>3 DEF TypeOK
<1>6. ASSUME NEW m \in Marker, MarkTick(m) \/ MarkStale(m) \/ MarkFails(m)
      PROVE  TypeOK'
  <2>1. mark' \in [Marker -> {Never} \cup 0 .. Lag]
    BY <1>6, Ages DEF MarkTick, MarkStale, MarkFails, TypeOK
  <2>2. node' \in [Node -> Rows]
    BY <1>6, MarkStep DEF MarkTick, MarkFails, TypeOK, Rows
  <2>3. left' \in [edits : Nat, faults : Nat]
    BY <1>6, BoundsStep DEF MarkTick, MarkStale, MarkFails, TypeOK
  <2>4. QED
    BY <1>6, <2>1, <2>2, <2>3 DEF MarkTick, MarkStale, MarkFails, TypeOK, Rows
<1>7. CASE Tick
  <2>1. node' \in [Node -> Rows] /\ silence' \in [Node -> Age]
    BY <1>7, TickStep
  <2>2. beats' \in [Node -> SUBSET (0 .. Lag)]
    <3>1. ASSUME NEW n \in Node
          PROVE  {age + 1 : age \in beats[n]} \in SUBSET (0 .. Lag)
      <4>1. beats[n] \in SUBSET (0 .. Lag) /\ Lag \notin beats[n]
        BY <1>7 DEF Tick, TypeOK
      <4>2. QED
        BY <4>1, Ages
    <3>2. QED
      BY <1>7, <3>1 DEF Tick
  <2>3. mark' \in [Marker -> {Never} \cup 0 .. Lag]
    <3>1. ASSUME NEW m \in Marker
          PROVE  Older(mark[m]) \in {Never} \cup 0 .. Lag
      <4>1. mark[m] \in {Never} \cup 0 .. Lag /\ mark[m] # Lag
        BY <1>7 DEF Tick, TypeOK
      <4>2. Older(Never) = Never
        BY DEF Older
      <4>3. QED
        BY <4>1, <4>2, Ages
    <3>2. QED
      BY <1>7, <3>1 DEF Tick
  <2>4. agent' \in [Node -> [up : BOOLEAN, sent : BOOLEAN, known : Configs]]
    <3>1. ASSUME NEW n \in Node
          PROVE  [agent[n] EXCEPT !.sent = FALSE]
                   \in [up : BOOLEAN, sent : BOOLEAN, known : Configs]
      BY AgentsType DEF AgentsTyped
    <3>2. QED
      BY <1>7, <3>1 DEF Tick
  <2>5. UNCHANGED <<user, disk, pull, left>>
    BY <1>7 DEF Tick
  <2>6. QED
    BY <2>1, <2>2, <2>3, <2>4, <2>5 DEF TypeOK, Rows, Configs
<1>8. QED
  BY <1>1, <1>2, <1>3, <1>4, <1>5, <1>6, <1>7, NextSteps
\* What a heartbeat wrote last is at most Lag older than it was written.
LEMMA HeardStep ==
  ASSUME TypeOK, HeardInTime, [Next]_vars
  PROVE  HeardInTime'
<1> SUFFICES ASSUME NEW o \in Node, Exists(o)', node'[o].online
             PROVE  node'[o].beat <= silence'[o] + Lag
  BY DEF HeardInTime
<1>0. silence[o] \in Age
  BY DEF TypeOK
<1>1. ASSUME UNCHANGED <<node[o], silence[o]>>
      PROVE  node'[o].beat <= silence'[o] + Lag
  BY <1>1 DEF HeardInTime, Exists
<1>2. ASSUME NEW n \in Node, adminCreateNode(n) \/ adminUpdateNode(n) \/ DeleteNode(n)
      PROVE  node'[o].beat <= silence'[o] + Lag
  <2>1. PICK row \in Rows :
          /\ node' = [node EXCEPT ![n] = row]
          /\ row.at = "table" /\ row.online
               => /\ Exists(n) /\ node[n].online
                  /\ row.beat = node[n].beat
          /\ silence' = silence
    BY <1>2, RegistryStep
  <2>2. node'[n] = row /\ (o # n => node'[o] = node[o])
    BY <2>1, RowWritten
  <2>3. CASE o = n
    BY <2>1, <2>2, <2>3 DEF HeardInTime, Exists
  <2>4. QED
    BY <1>1, <2>1, <2>2, <2>3
<1>3. ASSUME NEW n \in Node, AgentMoves(n)
      PROVE  node'[o].beat <= silence'[o] + Lag
  BY <1>1, <1>3, AgentStep
<1>4. ASSUME NEW n \in Node, HeartbeatWrite(n)
      PROVE  node'[o].beat <= silence'[o] + Lag
  <2>1. CASE UNCHANGED <<node, silence>>
    BY <1>1, <2>1
  <2>2. ASSUME NEW row \in Rows, node' = [node EXCEPT ![n] = row],
               silence' = [silence EXCEPT ![n] = 0], row.beat \in 0 .. Lag
        PROVE  node'[o].beat <= silence'[o] + Lag
    <3>1. node'[n] = row /\ (o # n => node'[o] = node[o])
      BY <2>2, RowWritten
    <3>2. silence'[n] = 0 /\ (o # n => silence'[o] = silence[o])
      BY <2>2 DEF TypeOK
    <3>3. CASE o = n
      BY <2>2, <3>1, <3>2, <3>3, Ages
    <3>4. QED
      BY <1>1, <3>1, <3>2, <3>3
  <2>3. QED
    BY <1>4, <2>1, <2>2, HeartbeatStep
<1>5. ASSUME NEW m \in Marker, MarkStale(m)
      PROVE  node'[o].beat <= silence'[o] + Lag
  <2>1. node'[o] = node[o]
    BY <1>5, MarkStep
  <2>2. QED
    BY <1>1, <1>5, <2>1 DEF MarkStale
<1>6. CASE Tick
  <2>1. /\ silence'[o] = Older(silence[o])
        /\ Exists(o) /\ node[o].online
        /\ node'[o].beat = Older(node[o].beat)
    BY <1>6, TickStep
  <2>2. node[o].beat \in Age
    BY <2>1, RowsTell DEF TypeOK, Rows, Row, Exists
  <2>3. node[o].beat <= silence[o] + Lag
    BY <2>1 DEF HeardInTime
  <2>4. Never \in Nat /\ Lag \in Nat
    BY Ages DEF Never
  <2>5. QED
    BY <1>0, <2>1, <2>2, <2>3, <2>4 DEF Older, Age
<1>7. CASE UNCHANGED <<node, silence>>
  BY <1>1, <1>7
<1>8. QED
  BY <1>2, <1>3, <1>4, <1>5, <1>6, <1>7, NextSteps DEF vars, UserChanges, MarkTick, MarkFails

\* The version an agent knows is what it has applied.
LEMMA KnownStep ==
  ASSUME TypeOK, KnownIsApplied, [Next]_vars
  PROVE  KnownIsApplied'
<1> DEFINE Applied(n) == agent[n].known # NoConfig
              => /\ disk[n].file = agent[n].known
                 /\ \/ disk[n].running = agent[n].known
                    \/ disk[n].failed
                    \/ pull[n].at = "written"
<1>0. AgentsTyped /\ \A n \in Node : Applied(n)
  BY AgentsType DEF KnownIsApplied
<1>1. ASSUME NEW n \in Node, agent'[n].known = agent[n].known, disk'[n] = disk[n],
             pull[n].at = "written" => pull'[n].at = "written"
      PROVE  Applied(n)'
  BY <1>0, <1>1
<1>2. ASSUME NEW n \in Node, AgentMoves(n)
      PROVE  \A o \in Node : Applied(o)'
  <2>1. ASSUME NEW o \in Node, o # n
        PROVE  agent'[o] = agent[o] /\ disk'[o] = disk[o] /\ pull'[o] = pull[o]
    BY <1>0, <1>2, <2>1 DEF AgentsTyped, AgentMoves, AgentStart, HeartbeatFind, HeartbeatLost,
          PullFind, PullAnswer, PullLost, PullWrite, WriteFails, Reload, ReloadFails, AgentStops
  <2>2. NoPull.at = "idle" /\ Off.known = NoConfig
    BY DEF NoPull, Off
  <2>3. CASE AgentStart(n) \/ AgentStops(n)
    <3>1. agent'[n].known = NoConfig
      BY <1>0, <2>2, <2>3 DEF AgentStart, AgentStops, AgentsTyped, Off
    <3>2. QED
      BY <1>1, <2>1, <3>1
  <2>4. CASE HeartbeatFind(n) \/ HeartbeatLost(n)
    <3>1. agent'[n].known = agent[n].known
      BY <1>0, <2>4 DEF HeartbeatFind, HeartbeatLost, AgentsTyped
    <3>2. QED
      BY <1>1, <2>1, <2>4, <3>1 DEF HeartbeatFind, HeartbeatLost
  <2>5. CASE PullFind(n) \/ PullAnswer(n) \/ PullLost(n)
    <3>1. pull[n].at # "written" /\ agent' = agent /\ disk' = disk
      BY <2>5 DEF PullFind, PullAnswer, PullLost
    <3>2. QED
      BY <1>1, <2>1, <3>1
  <2>6. CASE PullWrite(n)
    <3>1. /\ agent'[n].known = pull[n].config
          /\ disk'[n].file = pull[n].config
          /\ pull'[n].at = "written"
      BY <1>0, <2>6 DEF PullWrite, AgentsTyped, Pull
    <3>2. QED
      BY <1>1, <2>1, <3>1
  <2>7. CASE WriteFails(n)
    <3>1. agent'[n] = agent[n] /\ disk' = disk /\ pull[n].at # "written"
      BY <1>0, <2>7 DEF WriteFails, LearnOnError, AgentsTyped
    <3>2. QED
      BY <1>1, <2>1, <3>1
  <2>8. CASE Reload(n)
    <3>1. agent' = agent /\ disk'[n].running = disk[n].file /\ disk'[n].file = disk[n].file
      BY <1>0, <2>8 DEF Reload, AgentsTyped
    <3>2. QED
      BY <1>0, <1>1, <2>1, <3>1
  <2>9. CASE ReloadFails(n)
    <3>1. agent' = agent /\ disk'[n].failed /\ disk'[n].file = disk[n].file
      BY <1>0, <2>9 DEF ReloadFails, AgentsTyped
    <3>2. QED
      BY <1>0, <1>1, <2>1, <3>1
  <2>10. QED
    BY <1>2, <2>3, <2>4, <2>5, <2>6, <2>7, <2>8, <2>9 DEF AgentMoves
<1>3. CASE Tick
  <2>1. \A n \in Node : agent'[n].known = agent[n].known
    BY <1>0, <1>3 DEF Tick, AgentsTyped
  <2>2. QED
    BY <1>1, <1>3, <2>1 DEF Tick, KnownIsApplied
<1>4. CASE UNCHANGED <<agent, disk, pull>>
  BY <1>1, <1>4 DEF KnownIsApplied
<1>5. ASSUME NEW n \in Node, adminCreateNode(n) \/ adminUpdateNode(n) \/ DeleteNode(n)
      PROVE  UNCHANGED <<agent, disk, pull>>
  BY <1>5, RegistryStep
<1>6. ASSUME NEW n \in Node, HeartbeatWrite(n)
      PROVE  UNCHANGED <<agent, disk, pull>>
  BY <1>6, HeartbeatStep
<1>7. ASSUME NEW n \in Node, AgentMoves(n)
      PROVE  KnownIsApplied'
  BY <1>2, <1>7 DEF KnownIsApplied
<1>8. QED
  BY <1>3, <1>4, <1>5, <1>6, <1>7, NextSteps DEF vars, UserChanges, MarkTick, MarkStale, MarkFails

-----------------------------------------------------------------------------
(* Theorems.                                                               *)

LEMMA Initially == Init => NodesInv
<1> SUFFICES ASSUME Init
             PROVE  NodesInv
  OBVIOUS
<1>1. TypeOK
  <2>1. left \in [edits : Nat, faults : Nat]
    BY NodesAssumption DEF NodesAssumption, Init
  <2>2. node \in [Node -> Rows]
    BY DEF Init, Rows
  <2>3. AgentsTyped
    BY DEF Init, AgentsTyped, Configs, Pull, Off, NoPull
  <2>4. silence \in [Node -> Age]
    BY Ages DEF Init
  <2>5. QED
    BY <2>1, <2>2, <2>3, <2>4 DEF Init, TypeOK, Rows, AgentsTyped, Configs, Pull
<1>2. \A n \in Node : ~Exists(n) /\ agent[n].known = NoConfig
  BY DEF Init, Exists, NoRow, Off
<1>3. QED
  BY <1>1, <1>2 DEF NodesInv, HeardInTime, KnownIsApplied

\* Every behaviour keeps the types of the tables and of the agents, of what
\* is under way and of the bounds.
THEOREM TypeCorrect == Spec => []TypeOK
<1>1. Init => TypeOK
  BY Initially DEF NodesInv
<1>2. TypeOK /\ [Next]_vars => TypeOK'
  BY TypeStep
<1>3. QED
  BY <1>1, <1>2, PTL DEF Spec

LEMMA Inductive == Spec => []NodesInv
<1>1. NodesInv /\ [Next]_vars => NodesInv'
  BY TypeStep, HeardStep, KnownStep DEF NodesInv
<1>2. QED
  BY <1>1, Initially, PTL DEF Spec

\* An agent takes a version for known only with the file written, and with the
\* proxy reloaded but for a reload that is due or has failed: an answer that
\* the server leaves out as unchanged leaves nothing to be done.
THEOREM KnownWasApplied == Spec => []KnownIsApplied
<1>1. NodesInv => KnownIsApplied
  BY DEF NodesInv
<1>2. QED
  BY <1>1, Inductive, PTL

\* The marker takes offline only what has been silent for the timeout but the
\* time that a statement may take.
THEOREM NobodyHeardGoesOffline == Spec => OfflineOnlyWhenSilent
<1> DEFINE Silent == \A n \in Node :
              /\ Exists(n) /\ Exists(n)' /\ node[n].online /\ ~node'[n].online
              => silence[n] > Timeout - Lag
<1>1. ASSUME NodesInv, [Next]_vars
      PROVE  Silent
  <2> SUFFICES ASSUME NEW n \in Node, Exists(n), Exists(n)', node[n].online, ~node'[n].online
               PROVE  silence[n] > Timeout - Lag
    OBVIOUS
  <2>1. PICK m \in Marker : MarkStale(m)
    <3>1. ASSUME NEW o \in Node, adminCreateNode(o) \/ adminUpdateNode(o) \/ DeleteNode(o)
          PROVE  node'[n].online
      <4>1. PICK row \in Rows :
              /\ node' = [node EXCEPT ![o] = row]
              /\ row.at = "table" /\ Exists(o) => row.online = node[o].online
        BY <1>1, <3>1, RegistryStep DEF NodesInv
      <4>2. node'[o] = row /\ (n # o => node'[n] = node[n])
        BY <1>1, <4>1, RowWritten DEF NodesInv
      <4>3. CASE n = o
        BY <4>1, <4>2, <4>3 DEF Exists
      <4>4. QED
        BY <4>2, <4>3
    <3>2. ASSUME NEW o \in Node, HeartbeatWrite(o)
          PROVE  node'[n].online
      <4>1. CASE UNCHANGED node
        BY <4>1
      <4>2. ASSUME NEW row \in Rows, node' = [node EXCEPT ![o] = row], row.online
            PROVE  node'[n].online
        BY <1>1, <4>2, RowWritten DEF NodesInv
      <4>3. QED
        BY <1>1, <3>2, <4>1, <4>2, HeartbeatStep DEF NodesInv
    <3>3. ASSUME NEW o \in Node, AgentMoves(o)
          PROVE  UNCHANGED node
      BY <1>1, <3>3, AgentStep DEF NodesInv
    <3>4. Tick => node'[n].online
      BY <1>1, TickStep DEF NodesInv
    <3>5. QED
      BY <1>1, <3>1, <3>2, <3>3, <3>4, NextSteps DEF vars, UserChanges, MarkTick, MarkFails
  <2>2. Stale(node[n], mark[m])
    BY <1>1, <2>1, MarkStep DEF NodesInv
  <2>3. mark[m] \in 0 .. Lag
    BY <1>1, <2>1 DEF MarkStale, NodesInv, TypeOK
  <2>4. node[n].beat <= silence[n] + Lag /\ node[n].beat \in Age /\ silence[n] \in Age
    BY <1>1, RowsTell DEF NodesInv, HeardInTime, TypeOK, Rows, Row, Exists
  <2>5. Timeout \in Nat /\ Lag \in Nat /\ Age \subseteq Nat
    BY Ages DEF Age, Never
  <2>6. node[n].beat \in Nat /\ silence[n] \in Nat /\ mark[m] \in Nat
    <3>1. node[n].beat \in Nat /\ silence[n] \in Nat
      BY <2>4, <2>5
    <3>2. mark[m] \in Nat
      BY <2>3, <2>5
    <3>3. QED
      BY <3>1, <3>2
  <2>7. node[n].beat > mark[m] + Timeout
    BY <2>2 DEF Stale
  <2>8. QED
    BY <2>4, <2>5, <2>6, <2>7
<1>2. NodesInv /\ [Next]_vars => [Silent]_vars
  BY <1>1
<1>3. QED
  BY <1>2, Inductive, PTL DEF Spec, OfflineOnlyWhenSilent

=============================================================================
