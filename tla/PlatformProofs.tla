---------------------------- MODULE PlatformProofs ----------------------------
(***************************************************************************)
(* The cluster, and what is built on it.                                   *)
(*                                                                         *)
(* Of the RKE2 backend, for any number of servers and agents, versions,    *)
(* calls, failures of nodes and deaths of the process: what the state file *)
(* says of the nodes is so, and the first server outlives the others.  The *)
(* induction is over the phases that a verb has still to do: what they     *)
(* leave out of the promise they will have made good when the verb ends.   *)
(*                                                                         *)
(* Of the platform, for any selections of stages and any plans: the SDK    *)
(* stops no run whose other stages stand.  Every script is shown to fit,   *)
(* which says of each of its layers where what it needs comes from: from a *)
(* step before it, or from what a run starts with.  A script is sequences  *)
(* laid one after the other; the stages and the parts of a plan fit one by *)
(* one, and laid together they supply each other.                          *)
(***************************************************************************)
EXTENDS ClusterMembership, PlatformRuns, WellFoundedInduction, TLAPS

-----------------------------------------------------------------------------
(* The nodes of a cluster *)


\* A call in progress, and the phase it is in.
Working ==
  /\ op.verb = "none" => op = NoOp
  /\ op.phases = <<>> => op.todo = {} /\ op.ran = {} /\ ~op.failed
  /\ op.phases # <<>> => /\ op.todo \cup op.ran \subseteq Now.on
                         /\ ~Now.parallel => ~op.failed

\* The file that each verb works on.
FileFits ==
  /\ file.there = "no" => file = NoFile
  /\ op.verb \in {"update", "delete"} => file.there = "whole"
  /\ op.verb \in {"create", "update"} => op.version # 0
  /\ op.verb = "create" => file = NoFile \/ file.version = op.version
  /\ op.verb = "update" => op.version \in tried

\* Which phases a verb has: an update spares the first server and upgrades
\* recorded nodes that it does not remove; a delete tears it down last.
PhasesFit ==
  \A i \in DOMAIN op.phases :
     /\ op.verb = "create" => op.phases[i].do = "join"
     /\ op.verb = "update" =>
          /\ op.phases[i].do \in {"remove", "join", "upgrade"}
          /\ op.phases[i].do = "remove" => First \notin op.phases[i].on
          /\ op.phases[i].do = "upgrade" =>
               /\ op.phases[i].on \subseteq file.nodes
               /\ \A j \in DOMAIN op.phases :
                    op.phases[j].do = "remove" => op.phases[i].on \cap op.phases[j].on = {}
     /\ op.verb = "delete" =>
          /\ op.phases[i].do = "tear"
          /\ First \in op.phases[i].on => /\ i = Len(op.phases)
                                         /\ op.phases[i].on = {First}
                                         /\ ~op.phases[i].parallel

\* What the nodes are that this phase has done.
RanFits ==
  op.phases # <<>> => \A n \in op.ran :
     /\ Now.do = "join" =>
          Up(n) /\ (n \notin excused => node[n].runs = op.version /\ node[First] # Bare)
     /\ Now.do \in {"remove", "tear"} => node[n] = Bare \/ n \in excused

\* What is still to be removed, torn down or upgraded.
Pending(n) ==
  \/ op.phases # <<>> /\ Now.do # "join" /\ n \in op.todo
  \/ \E i \in DOMAIN op.phases : i > 1 /\ op.phases[i].do # "join" /\ n \in op.phases[i].on

\* A recorded node is what the verb will have made of it, or pending.
Promise ==
  ~op.failed => \A n \in file.nodes : n \notin excused =>
     /\ op.verb = "delete" /\ node[n] # Bare => Pending(n)
     /\ op.verb = "update" /\ op.version # file.version /\ Up(n)
          => node[n].runs = op.version \/ Pending(n)

Verbs == Working /\ FileFits /\ PhasesFit /\ RanFits /\ Promise

IInv == TypeOK /\ Verbs /\ JoinedIsRecorded /\ VersionIsTrue /\ FirstServerLast

-------------------------------------------------------------------------------
LEMMA InitOK == Init => IInv
<1> SUFFICES ASSUME Init PROVE IInv
  OBVIOUS
<1>1. op.phases = <<>> /\ op.verb = "none" /\ op.todo = {} /\ op.ran = {} /\ op.failed = FALSE
      /\ op = NoOp /\ NoOp \in Op
  BY NodesAssumption DEF Init, NoOp, Op, Tokens
<1>2. TypeOK
  <2>1. 0 \in 0..MaxVersion /\ 0 \in Tokens
    BY NodesAssumption DEF Tokens
  <2>2. file \in Files
    BY <2>1 DEF Init, NoFile, Files
  <2>3. /\ node \in [Nodes -> [installed : 0..MaxVersion, runs : 0..MaxVersion]]
        /\ \A n \in Nodes : node[n].installed = 0 => node[n].runs = 0
    BY <2>1 DEF Init, Bare
  <2>4. secret \in Tokens /\ calls \in 0..MaxCalls
    BY <2>1 DEF Init, Tokens
  <2> QED
    BY <1>1, <2>2, <2>3, <2>4 DEF Init, TypeOK
<1>3. Verbs
  BY <1>1 DEF Init, Verbs, Working, FileFits, PhasesFit, RanFits, Promise, NoFile
<1>4. JoinedIsRecorded /\ VersionIsTrue /\ FirstServerLast
  BY DEF Init, NoFile, JoinedIsRecorded, VersionIsTrue, FirstServerLast, Up, Bare
<1> QED
  BY <1>2, <1>3, <1>4 DEF IInv

\* The phase that a call in progress is in.
LEMMA InPhase ==
  ASSUME TypeOK, Verbs, op.phases # <<>>
  PROVE  /\ Now \in Phase /\ Now = op.phases[1] /\ 1 \in DOMAIN op.phases
         /\ Len(op.phases) \in Nat \ {0} /\ DOMAIN op.phases = 1..Len(op.phases)
         /\ op.verb # "none"
<1>1. op.phases \in Seq(Phase)
  BY DEF TypeOK, Op
<1>2. op.verb # "none"
  BY DEF Verbs, Working, NoOp
<1> QED
  BY <1>1, <1>2 DEF Now

\* A call that ends in the middle promises nothing.
LEMMA GivenUp ==
  ASSUME TypeOK, Verbs, op' = NoOp, file' = file \/ file'.there # "no" \/ file' = NoFile
  PROVE  op' \in Op /\ op'.ran = {} /\ Verbs'
<1>1. /\ op'.phases = <<>> /\ op'.verb = "none" /\ op'.todo = {} /\ op'.ran = {}
      /\ op'.failed = FALSE /\ op' \in Op
  BY NodesAssumption DEF NoOp, Op, Tokens
<1>2. file'.there = "no" => file' = NoFile
  BY DEF Verbs, FileFits
<1>3. Working' /\ PhasesFit' /\ RanFits' /\ Promise'
  BY <1>1 DEF Working, PhasesFit, RanFits, Promise
<1>4. FileFits'
  BY <1>1, <1>2 DEF FileFits
<1> QED
  BY <1>1, <1>3, <1>4 DEF Verbs

\* A node's part of the phase is done.
LEMMA RanOne ==
  ASSUME TypeOK, Verbs, op.phases # <<>>, NEW n \in op.todo, Ran(n), UNCHANGED <<file, tried>>
  PROVE  /\ op' \in Op /\ op'.verb = op.verb /\ op'.version = op.version
         /\ op'.phases = op.phases /\ op'.failed = op.failed /\ op'.token = op.token
         /\ op'.todo = op.todo \ {n} /\ op'.ran = op.ran \cup {n}
         /\ Now' = Now
         /\ Working' /\ FileFits' /\ PhasesFit'
         /\ \A m : m # n \/ Now.do = "join" => (Pending(m) => Pending(m)')
<1>1. /\ op' \in Op /\ op'.verb = op.verb /\ op'.version = op.version
      /\ op'.phases = op.phases /\ op'.failed = op.failed /\ op'.token = op.token
      /\ op'.todo = op.todo \ {n} /\ op'.ran = op.ran \cup {n}
  BY DEF Ran, TypeOK, Op
<1>2. Now' = Now
  BY <1>1 DEF Now
<1>3. op.verb # "none"
  BY InPhase
<1>4. Working'
  BY <1>1, <1>2, <1>3 DEF Verbs, Working
<1>5. FileFits' /\ PhasesFit'
  BY <1>1 DEF Verbs, FileFits, PhasesFit
<1>6. \A m : m # n \/ Now.do = "join" => (Pending(m) => Pending(m)')
  BY <1>1, <1>2 DEF Pending
<1> QED
  BY <1>1, <1>2, <1>4, <1>5, <1>6

\* It has failed: the end of a sequential phase, and of a parallel one later.
LEMMA FailedOne ==
  ASSUME TypeOK, Verbs, op.phases # <<>>, NEW n \in op.todo, Failed(n),
         UNCHANGED <<file, tried>>
  PROVE  \/ op' = NoOp /\ ~Now.parallel
         \/ /\ op' \in Op /\ op'.verb = op.verb /\ op'.version = op.version
            /\ op'.phases = op.phases /\ op'.failed /\ op'.ran = op.ran
            /\ Now' = Now
            /\ Working' /\ FileFits' /\ PhasesFit' /\ Promise'
<1>1. CASE ~Now.parallel
  BY <1>1 DEF Failed
<1>2. CASE Now.parallel
  <2>1. /\ op' \in Op /\ op'.verb = op.verb /\ op'.version = op.version
        /\ op'.phases = op.phases /\ op'.failed = TRUE /\ op'.ran = op.ran
        /\ op'.todo \subseteq op.todo
    BY <1>2 DEF Failed, TypeOK, Op
  <2>2. Now' = Now
    BY <2>1 DEF Now
  <2>3. op.verb # "none"
    BY InPhase
  <2>4. op'.failed
    BY <2>1, Zenon
  <2>5. Working'
    BY <1>2, <2>1, <2>2, <2>3 DEF Verbs, Working
  <2>6. FileFits' /\ PhasesFit'
    BY <2>1 DEF Verbs, FileFits, PhasesFit
  <2>7. Promise'
    BY <2>4 DEF Promise
  <2> QED
    BY <2>1, <2>2, <2>4, <2>5, <2>6, <2>7
<1> QED
  BY <1>1, <1>2

-------------------------------------------------------------------------------
(* The calls.                                                              *)

\* A call that starts: what is left to show is that its phases fit.
LEMMA CallStarts ==
  ASSUME IInv, NEW verb \in {"create", "update", "delete"}, NEW version \in 0..MaxVersion,
         NEW token \in Tokens, NEW phases \in Seq(Phase), phases # <<>>,
         Start(verb, version, token, phases), tried' \subseteq 1..MaxVersion,
         tried \subseteq tried' \/ file = NoFile
  PROVE  /\ TypeOK' /\ Working' /\ RanFits'
         /\ JoinedIsRecorded' /\ VersionIsTrue' /\ FirstServerLast'
         /\ op'.verb = verb /\ op'.version = version /\ op'.phases = phases
         /\ op'.todo = phases[1].on
<1>1. /\ op'.verb = verb /\ op'.version = version /\ op'.phases = phases
      /\ op'.todo = phases[1].on /\ op'.ran = {} /\ op'.failed = FALSE
      /\ op.ran = {} /\ op'.token = token
  BY DEF Start, NoOp
<1>2. phases[1] \in Phase
  OBVIOUS
<1>3. op' \in Op
  BY <1>1, <1>2 DEF Start, NoOp, Op, Phase
<1>4. TypeOK'
  <2>1. calls' \in 0..MaxCalls
    BY NodesAssumption DEF Start, IInv, TypeOK
  <2> QED
    BY <1>3, <2>1 DEF Start, IInv, TypeOK
<1>5. Now' = phases[1]
  BY <1>1 DEF Now
<1>6. ~op'.failed
  BY <1>1, Zenon
<1>7. Working' /\ RanFits'
  BY <1>1, <1>5, <1>6 DEF Working, RanFits
<1>8. JoinedIsRecorded' /\ VersionIsTrue' /\ FirstServerLast'
  BY <1>1 DEF Start, IInv, JoinedIsRecorded, VersionIsTrue, FirstServerLast, Up, NoFile
<1> QED
  BY <1>1, <1>4, <1>7, <1>8

LEMMA CreateOK ==
  ASSUME IInv, NEW want \in SUBSET Nodes, NEW version \in 1..MaxVersion, Create(want, version)
  PROVE  IInv'
<1> DEFINE phases == <<Seq1("join", {First}),
                       Seq1("join", (want \cap Servers) \ {First}),
                       Par("join", want \cap Agents)>>
<1>1. phases \in Seq(Phase) /\ phases # <<>>
  <2>1. /\ Seq1("join", {First}) \in Phase
        /\ Seq1("join", (want \cap Servers) \ {First}) \in Phase
        /\ Par("join", want \cap Agents) \in Phase
    BY NodesAssumption DEF Phase, Seq1, Par, Nodes
  <2> QED
    BY <2>1
<1>2. \A i \in DOMAIN phases : phases[i].do = "join"
  BY DEF Seq1, Par
<1>3. /\ Start("create", version, calls + 1, phases) /\ file = NoFile /\ file' = file
      /\ tried' \subseteq 1..MaxVersion
  BY DEF Create, Start, IInv, Verbs, FileFits
<1> HIDE DEF phases
<1>4. calls + 1 \in Tokens /\ version \in 0..MaxVersion
  BY <1>3, NodesAssumption DEF Start, IInv, TypeOK, Tokens
<1>5. /\ TypeOK' /\ Working' /\ RanFits'
      /\ JoinedIsRecorded' /\ VersionIsTrue' /\ FirstServerLast'
      /\ op'.verb = "create" /\ op'.version = version /\ op'.phases = phases
  BY <1>1, <1>3, <1>4, CallStarts
<1>6. FileFits' /\ PhasesFit'
  BY <1>2, <1>3, <1>4, <1>5, NodesAssumption DEF FileFits, PhasesFit, NoFile
<1>7. Promise'
  BY <1>3, <1>5 DEF Promise, NoFile
<1> QED
  BY <1>5, <1>6, <1>7 DEF IInv, Verbs

LEMMA UpdateOK ==
  ASSUME IInv, NEW want \in SUBSET Nodes, NEW version \in 1..MaxVersion, Update(want, version)
  PROVE  IInv'
<1> DEFINE added == want \ file.nodes
           removed == file.nodes \ want
           kept == IF version # file.version THEN want \cap file.nodes ELSE {}
           phases == <<Seq1("remove", removed \cap Servers),
                       Par("remove", removed \cap Agents),
                       Seq1("join", added \cap Servers),
                       Par("join", added \cap Agents),
                       Par("upgrade", kept \cap Agents),
                       Seq1("upgrade", (kept \cap Servers) \ {First}),
                       Seq1("upgrade", kept \cap {First})>>
<1>1. /\ Start("update", version, file.token, phases) /\ file.there = "whole"
      /\ First \in want /\ UNCHANGED <<file, node, excused>>
      /\ tried' = tried \cup {version} /\ tried' \subseteq 1..MaxVersion
  BY DEF Update, Start, IInv, TypeOK
<1>2. /\ file.nodes \subseteq Nodes /\ file.version \in 0..MaxVersion
      /\ file.token \in Tokens /\ version \in 0..MaxVersion
  BY NodesAssumption DEF IInv, TypeOK, Files
<1>3. /\ DOMAIN phases = 1..7
      /\ phases[1] = [do |-> "remove", on |-> removed \cap Servers, parallel |-> FALSE]
      /\ phases[2] = [do |-> "remove", on |-> removed \cap Agents, parallel |-> TRUE]
      /\ phases[3] = [do |-> "join", on |-> added \cap Servers, parallel |-> FALSE]
      /\ phases[4] = [do |-> "join", on |-> added \cap Agents, parallel |-> TRUE]
      /\ phases[5] = [do |-> "upgrade", on |-> kept \cap Agents, parallel |-> TRUE]
      /\ phases[6] = [do |-> "upgrade", on |-> (kept \cap Servers) \ {First}, parallel |-> FALSE]
      /\ phases[7] = [do |-> "upgrade", on |-> kept \cap {First}, parallel |-> FALSE]
  BY DEF Seq1, Par
<1>4. phases \in Seq(Phase) /\ phases # <<>>
  <2>1. added \subseteq Nodes /\ removed \subseteq Nodes /\ kept \subseteq Nodes
    BY <1>2
  <2> HIDE DEF added, removed, kept
  <2>2. /\ Seq1("remove", removed \cap Servers) \in Phase
        /\ Par("remove", removed \cap Agents) \in Phase
        /\ Seq1("join", added \cap Servers) \in Phase
        /\ Par("join", added \cap Agents) \in Phase
        /\ Par("upgrade", kept \cap Agents) \in Phase
        /\ Seq1("upgrade", (kept \cap Servers) \ {First}) \in Phase
        /\ Seq1("upgrade", kept \cap {First}) \in Phase
    BY <2>1 DEF Seq1, Par, Phase
  <2> QED
    BY <2>2
<1>5. /\ First \notin removed /\ kept \subseteq file.nodes /\ kept \cap removed = {}
      /\ version = file.version \/ file.nodes \subseteq removed \cup kept
  BY <1>1
<1> HIDE DEF phases, added, removed, kept
<1>6. /\ TypeOK' /\ Working' /\ RanFits'
      /\ JoinedIsRecorded' /\ VersionIsTrue' /\ FirstServerLast'
      /\ op'.verb = "update" /\ op'.version = version /\ op'.phases = phases
      /\ op'.todo = phases[1].on
  BY <1>1, <1>2, <1>4, CallStarts
<1>7. FileFits'
  BY <1>1, <1>2, <1>6 DEF FileFits
<1>8. PhasesFit'
  <2>1. \A i \in DOMAIN phases :
           /\ phases[i].do \in {"remove", "join", "upgrade"}
           /\ phases[i].do = "remove" => phases[i].on \subseteq removed
           /\ phases[i].do = "upgrade" => phases[i].on \subseteq kept
    BY <1>3
  <2> QED
    BY <1>1, <1>5, <1>6, <2>1 DEF PhasesFit
<1>9. Promise'
  <2> SUFFICES ASSUME NEW n \in file.nodes, version # file.version
               PROVE  Pending(n)'
    BY <1>1, <1>6 DEF Promise
  <2>2. CASE n \in removed
    <3>1. n \in Servers \/ n \in Agents
      BY <1>2 DEF Nodes
    <3>2. Now' = phases[1]
      BY <1>6 DEF Now
    <3> QED
      BY <1>3, <1>4, <1>6, <2>2, <3>1, <3>2 DEF Pending
  <2>3. CASE n \in kept
    <3>1. n \in Agents \/ n \in Servers \ {First} \/ n = First
      BY <1>2 DEF Nodes
    <3> QED
      BY <1>3, <1>6, <2>3, <3>1 DEF Pending
  <2> QED
    BY <1>5, <2>2, <2>3
<1> QED
  BY <1>6, <1>7, <1>8, <1>9 DEF IInv, Verbs

LEMMA DeleteOK == ASSUME IInv, Delete PROVE IInv'
<1> DEFINE phases == <<Par("tear", file.nodes \cap Agents),
                       Seq1("tear", (file.nodes \cap Servers) \ {First}),
                       Seq1("tear", file.nodes \cap {First})>>
<1>1. /\ Start("delete", 0, 0, phases) /\ file.there = "whole"
      /\ UNCHANGED <<file, node, excused, tried>> /\ tried' \subseteq 1..MaxVersion
  BY DEF Delete, Start, IInv, TypeOK
<1>2. file.nodes \subseteq Nodes /\ 0 \in Tokens /\ 0 \in 0..MaxVersion
  BY NodesAssumption DEF IInv, TypeOK, Files, Tokens
<1>3. /\ DOMAIN phases = 1..3 /\ Len(phases) = 3
      /\ phases[1] = [do |-> "tear", on |-> file.nodes \cap Agents, parallel |-> TRUE]
      /\ phases[2] = [do |-> "tear", on |-> (file.nodes \cap Servers) \ {First}, parallel |-> FALSE]
      /\ phases[3] = [do |-> "tear", on |-> file.nodes \cap {First}, parallel |-> FALSE]
  BY DEF Seq1, Par
<1>4. phases \in Seq(Phase) /\ phases # <<>>
  <2>1. /\ Par("tear", file.nodes \cap Agents) \in Phase
        /\ Seq1("tear", (file.nodes \cap Servers) \ {First}) \in Phase
        /\ Seq1("tear", file.nodes \cap {First}) \in Phase
    BY <1>2 DEF Seq1, Par, Phase
  <2> QED
    BY <2>1
<1> HIDE DEF phases
<1>5. /\ TypeOK' /\ Working' /\ RanFits'
      /\ JoinedIsRecorded' /\ VersionIsTrue' /\ FirstServerLast'
      /\ op'.verb = "delete" /\ op'.version = 0 /\ op'.phases = phases
      /\ op'.todo = phases[1].on
  BY <1>1, <1>2, <1>4, CallStarts
<1>6. FileFits'
  BY <1>1, <1>5 DEF FileFits
<1>7. PhasesFit'
  <2>1. First \notin Agents
    BY NodesAssumption
  <2>2. \A i \in DOMAIN phases :
           /\ phases[i].do = "tear"
           /\ First \in phases[i].on =>
                i = 3 /\ phases[i].on = {First} /\ phases[i].parallel = FALSE
    BY <1>3, <2>1
  <2>3. \A i \in DOMAIN phases : First \in phases[i].on => ~phases[i].parallel
    BY <2>2, Zenon
  <2> QED
    BY <1>3, <1>5, <2>2, <2>3 DEF PhasesFit
<1>8. Promise'
  <2> SUFFICES ASSUME NEW n \in file.nodes
               PROVE  Pending(n)'
    BY <1>1, <1>5 DEF Promise
  <2>1. n \in Agents \/ n \in Servers \ {First} \/ n = First
    BY <1>2 DEF Nodes
  <2>2. Now' = phases[1]
    BY <1>5 DEF Now
  <2> QED
    BY <1>3, <1>4, <1>5, <2>1, <2>2 DEF Pending
<1> QED
  BY <1>5, <1>6, <1>7, <1>8 DEF IInv, Verbs

-------------------------------------------------------------------------------
(* A node's part.                                                          *)

\* Only a create and an update join.
LEMMA JoinFits ==
  ASSUME TypeOK, Verbs, op.phases # <<>>, Now.do = "join"
  PROVE  op.verb \in {"create", "update"} /\ op.version \in 1..MaxVersion
<1>1. op.verb \in {"create", "update"}
  BY InPhase DEF TypeOK, Op, Verbs, PhasesFit
<1> QED
  BY <1>1, NodesAssumption DEF TypeOK, Op, Verbs, FileFits

\* Only an update upgrades or removes, and a delete only tears down.
LEMMA UpgradeFits ==
  ASSUME TypeOK, Verbs, op.phases # <<>>, Now.do \in {"upgrade", "remove"}
  PROVE  /\ op.verb = "update" /\ op.version \in tried
         /\ op.version \in 1..MaxVersion
         /\ Now.do = "remove" => First \notin Now.on
         /\ Now.do = "upgrade" => Now.on \subseteq file.nodes
<1>1. op.verb = "update"
  BY InPhase DEF TypeOK, Op, Verbs, PhasesFit
<1> QED
  BY <1>1, InPhase, NodesAssumption DEF TypeOK, Op, Verbs, FileFits, PhasesFit

NodesTyped ==
  /\ node \in [Nodes -> [installed : 0..MaxVersion, runs : 0..MaxVersion]]
  /\ \A n \in Nodes : node[n].installed = 0 => node[n].runs = 0

\* What a step of one node may make of it.
LEMMA OneNode ==
  ASSUME NodesTyped, NEW n \in Nodes, op.version \in 1..MaxVersion, NodesAssumption,
         node' \in {node, Installed(n), Down(n), Restarted(n)}
  PROVE  /\ NodesTyped'
         /\ \A m \in Nodes \ {n} : node'[m] = node[m]
         /\ node' \in {Installed(n), Down(n), Restarted(n)} => node'[n] # Bare
         /\ node' = Restarted(n) => Up(n)' /\ node'[n].runs = op.version
         /\ node' = Installed(n) => node'[n].runs = node[n].runs
         /\ node' = Down(n) => ~Up(n)'
<1>1. op.version \in 0..MaxVersion /\ 0 \in 0..MaxVersion /\ op.version # 0
  BY DEF NodesAssumption
<1>2. CASE node' = node /\ node' \notin {Installed(n), Down(n), Restarted(n)}
  <2>1. NodesTyped' /\ \A m \in Nodes \ {n} : node'[m] = node[m]
    BY <1>2 DEF NodesTyped
  <2> QED
    BY <1>2, <2>1
<1>3. CASE node' = Installed(n)
  <2>1. /\ \A m \in Nodes \ {n} : node'[m] = node[m]
        /\ node'[n].installed = op.version /\ node'[n].runs = node[n].runs
        /\ node' \in [Nodes -> [installed : 0..MaxVersion, runs : 0..MaxVersion]]
    BY <1>1, <1>3 DEF Installed, NodesTyped
  <2>2. node'[n] # Bare
    BY <1>1, <2>1 DEF Bare
  <2>3. NodesTyped'
    BY <1>1, <2>1 DEF NodesTyped
  <2>4. node' # Restarted(n) \/ node[n].runs = op.version
    BY <1>1, <1>3, <2>1 DEF Restarted, NodesTyped
  <2>5. node' # Down(n) \/ node[n].runs = 0
    BY <1>1, <1>3, <2>1 DEF Down, NodesTyped
  <2> QED
    BY <1>1, <2>1, <2>2, <2>3, <2>4, <2>5 DEF Up
<1>4. CASE node' = Down(n)
  <2>1. /\ \A m \in Nodes \ {n} : node'[m] = node[m]
        /\ node'[n] = [installed |-> op.version, runs |-> 0]
        /\ node' \in [Nodes -> [installed : 0..MaxVersion, runs : 0..MaxVersion]]
    BY <1>1, <1>4 DEF Down, NodesTyped
  <2>2. NodesTyped'
    BY <1>1, <2>1 DEF NodesTyped
  <2>3. node' # Restarted(n)
    BY <1>1, <2>1 DEF Restarted, NodesTyped
  <2>4. node' # Installed(n) \/ node[n].runs = 0
    BY <1>1, <1>4, <2>1 DEF Installed, NodesTyped
  <2> QED
    BY <1>1, <2>1, <2>2, <2>3, <2>4 DEF Up, Bare
<1>5. CASE node' = Restarted(n)
  <2>1. /\ \A m \in Nodes \ {n} : node'[m] = node[m]
        /\ node'[n] = [installed |-> op.version, runs |-> op.version]
        /\ node' \in [Nodes -> [installed : 0..MaxVersion, runs : 0..MaxVersion]]
    BY <1>1, <1>5 DEF Restarted, NodesTyped
  <2>2. NodesTyped'
    BY <1>1, <2>1 DEF NodesTyped
  <2>3. node' # Down(n)
    BY <1>1, <2>1 DEF Down, NodesTyped
  <2>4. node' # Installed(n) \/ node[n].runs = op.version
    BY <1>1, <1>5, <2>1 DEF Installed, NodesTyped
  <2> QED
    BY <1>1, <2>1, <2>2, <2>3, <2>4 DEF Up, Bare
<1> QED
  BY <1>2, <1>3, <1>4, <1>5

\* A service that was started: the node ran before, or the first server has
\* let it in.
LEMMA StartedNode ==
  ASSUME TypeOK, NEW n \in Nodes, op.version \in 1..MaxVersion, Started(n)
  PROVE  /\ NodesTyped' /\ secret' \in Tokens
         /\ \A m \in Nodes \ {n} : node'[m] = node[m]
         /\ Up(n)' /\ node'[n] # Bare
         /\ Up(n) => node'[n].runs = node[n].runs
         /\ ~Up(n) => node'[n].runs = op.version /\ node'[First] # Bare
<1>1. NodesTyped /\ op.token \in Tokens /\ secret \in Tokens
  BY DEF TypeOK, NodesTyped, Op
<1>2. CASE Up(n) /\ node' = Installed(n) /\ UNCHANGED secret
  <2>1. /\ NodesTyped' /\ node'[n] # Bare /\ node'[n].runs = node[n].runs
        /\ \A m \in Nodes \ {n} : node'[m] = node[m]
    BY <1>1, <1>2, OneNode, NodesAssumption
  <2> QED
    BY <1>1, <1>2, <2>1 DEF Up
<1>3. CASE /\ ~Up(n) /\ Admits(n) /\ node' = Restarted(n)
           /\ secret' = IF n = First THEN op.token ELSE secret
  <2>1. /\ NodesTyped' /\ node'[n] # Bare /\ Up(n)' /\ node'[n].runs = op.version
        /\ \A m \in Nodes \ {n} : node'[m] = node[m]
    BY <1>1, <1>3, OneNode, NodesAssumption
  <2>2. n = First \/ Up(First)
    BY <1>3 DEF Admits
  <2>3. First \in Nodes
    BY NodesAssumption DEF Nodes
  <2>4. node'[First] # Bare
    BY <1>1, <2>1, <2>2, <2>3 DEF Up, Bare
  <2> QED
    BY <1>1, <1>3, <2>1, <2>4
<1> QED
  BY <1>2, <1>3 DEF Started

LEMMA BootstrapOK == ASSUME IInv, NEW n \in Nodes, Bootstrap(n) PROVE IInv'
<1>1. /\ TypeOK /\ Verbs /\ op.phases # <<>> /\ n \in op.todo /\ Now.do = "join"
      /\ Started(n) /\ Ran(n) /\ First \in Nodes
      /\ excused' = IF Up(n) THEN excused \cup {n} ELSE excused \ {n}
      /\ UNCHANGED <<file, tried, calls>>
  BY NodesAssumption DEF Bootstrap, Busy, Keep, IInv, Nodes
<1>2. op.verb \in {"create", "update"} /\ op.version \in 1..MaxVersion
  BY <1>1, JoinFits
<1>3. /\ op' \in Op /\ op'.verb = op.verb /\ op'.version = op.version
      /\ op'.failed = op.failed /\ op'.ran = op.ran \cup {n} /\ Now' = Now
      /\ op'.phases = op.phases
      /\ Working' /\ FileFits' /\ PhasesFit'
      /\ \A m : Pending(m) => Pending(m)'
  BY <1>1, RanOne
<1>4. /\ NodesTyped' /\ secret' \in Tokens
      /\ \A m \in Nodes \ {n} : node'[m] = node[m]
      /\ Up(n)' /\ node'[n] # Bare
      /\ ~Up(n) => node'[n].runs = op.version /\ node'[First] # Bare
  BY <1>1, <1>2, StartedNode
<1>5. node[First] # Bare => node'[First] # Bare
  BY <1>1, <1>4
<1>6. TypeOK'
  BY <1>1, <1>3, <1>4 DEF TypeOK, NodesTyped
<1>7. file.nodes \subseteq Nodes /\ op.ran \subseteq Nodes
  BY <1>1 DEF TypeOK, Files, Op
<1>8. CASE Up(n)
  <2>1. n \in excused' /\ \A m : m # n => (m \in excused' <=> m \in excused)
    BY <1>1, <1>8
  <2>2. JoinedIsRecorded'
    BY <1>1, <1>3, <1>4, <1>7, <2>1 DEF IInv, JoinedIsRecorded, Up
  <2>3. VersionIsTrue' /\ FirstServerLast'
    BY <1>1, <1>4, <1>5, <1>7, <2>1 DEF IInv, VersionIsTrue, FirstServerLast, Up
  <2>4. RanFits'
    BY <1>1, <1>3, <1>4, <1>5, <1>7, <2>1 DEF Verbs, RanFits, Up
  <2>5. Promise'
    BY <1>1, <1>2, <1>3, <1>4, <1>7, <2>1 DEF Verbs, Promise, Up
  <2> QED
    BY <1>3, <1>6, <2>2, <2>3, <2>4, <2>5 DEF IInv, Verbs
<1>9. CASE ~Up(n)
  <2>1. n \notin excused' /\ \A m : m # n => (m \in excused' <=> m \in excused)
    BY <1>1, <1>9
  <2>2. JoinedIsRecorded'
    BY <1>1, <1>3, <1>4, <1>7, <2>1 DEF IInv, JoinedIsRecorded, Up
  <2>3. n \in file.nodes => op.version \in {file.version} \cup tried
    BY <1>1, <1>2 DEF Verbs, FileFits, NoFile
  <2>4. VersionIsTrue'
    BY <1>1, <1>4, <1>7, <1>9, <2>1, <2>3 DEF IInv, VersionIsTrue, Up
  <2>5. FirstServerLast'
    BY <1>4, <1>9 DEF FirstServerLast
  <2>6. RanFits'
    BY <1>1, <1>3, <1>4, <1>5, <1>7, <1>9, <2>1 DEF Verbs, RanFits, Up
  <2>7. Promise'
    BY <1>1, <1>2, <1>3, <1>4, <1>7, <1>9, <2>1 DEF Verbs, Promise, Up
  <2> QED
    BY <1>3, <1>6, <2>2, <2>4, <2>5, <2>6, <2>7 DEF IInv, Verbs
<1> QED
  BY <1>8, <1>9

LEMMA BootstrapFailsOK == ASSUME IInv, NEW n \in Nodes, BootstrapFails(n) PROVE IInv'
<1>1. /\ TypeOK /\ Verbs /\ op.phases # <<>> /\ n \in op.todo /\ Now.do = "join"
      /\ Now.parallel \/ op.ran = {}
      /\ Failed(n) /\ First \in Nodes /\ excused' = excused \cup {n}
      /\ UNCHANGED <<file, tried, calls>>
  BY NodesAssumption DEF BootstrapFails, Busy, Keep, IInv, Nodes
<1>2. op.verb \in {"create", "update"} /\ op.version \in 1..MaxVersion
  BY <1>1, JoinFits
<1>3. /\ NodesTyped' /\ secret' \in Tokens
      /\ \A m \in Nodes \ {n} : node'[m] = node[m]
      /\ node'[First] = Bare => node[First] = Bare
      /\ Up(n) => Up(n)'
  <2>1. NodesTyped /\ secret \in Tokens
    BY <1>1 DEF TypeOK, NodesTyped
  <2>2. CASE node' \in {node, Installed(n)} /\ UNCHANGED secret
    BY <1>1, <1>2, <2>1, <2>2, OneNode, NodesAssumption DEF Up
  <2>3. CASE Started(n)
    BY <1>1, <1>2, <2>1, <2>3, StartedNode
  <2> QED
    BY <2>2, <2>3 DEF BootstrapFails
<1>4. n \in excused' /\ \A m : m # n => (m \in excused' <=> m \in excused)
  BY <1>1
<1>5. file.nodes \subseteq Nodes /\ op.ran \subseteq Nodes
  BY <1>1 DEF TypeOK, Files, Op
<1>6. op' \in Op /\ op'.ran = op.ran /\ Verbs'
  <2>1. CASE op' = NoOp /\ ~Now.parallel
    BY <1>1, <2>1, GivenUp
  <2>2. CASE /\ op' \in Op /\ op'.verb = op.verb /\ op'.version = op.version
             /\ op'.phases = op.phases /\ op'.ran = op.ran /\ Now' = Now
             /\ Working' /\ FileFits' /\ PhasesFit' /\ Promise'
    <3>1. RanFits'
      BY <1>1, <1>3, <1>4, <1>5, <2>2 DEF Verbs, RanFits, Up
    <3> QED
      BY <2>2, <3>1 DEF Verbs
  <2> QED
    BY <1>1, <2>1, <2>2, FailedOne
<1>7. TypeOK'
  BY <1>1, <1>3, <1>6 DEF TypeOK, NodesTyped
<1>8. JoinedIsRecorded' /\ VersionIsTrue' /\ FirstServerLast'
  BY <1>1, <1>3, <1>4, <1>5, <1>6 DEF IInv, JoinedIsRecorded, VersionIsTrue, FirstServerLast, Up
<1> QED
  BY <1>6, <1>7, <1>8 DEF IInv

\* Where the first server is torn down nothing else is left to protect.
LEMMA TeardownOK == ASSUME IInv, NEW n \in Nodes, Teardown(n) PROVE IInv'
<1>1. /\ TypeOK /\ Verbs /\ op.phases # <<>> /\ n \in op.todo
      /\ Now.do \in {"remove", "tear"}
      /\ node' = [node EXCEPT ![n] = Bare]
      /\ Ran(n) /\ First \in Nodes
      /\ UNCHANGED <<file, tried, calls, excused>>
  BY NodesAssumption DEF Teardown, Busy, Keep, IInv, Nodes
<1>2. /\ op' \in Op /\ op'.verb = op.verb /\ op'.version = op.version
      /\ op'.failed = op.failed /\ op'.ran = op.ran \cup {n} /\ Now' = Now
      /\ op'.phases = op.phases
      /\ Working' /\ FileFits' /\ PhasesFit'
      /\ \A m : m # n => (Pending(m) => Pending(m)')
  BY <1>1, RanOne
<1>3. /\ NodesTyped' /\ secret' \in Tokens
      /\ ~Up(n)' /\ node'[n] = Bare
      /\ \A m \in Nodes \ {n} : node'[m] = node[m]
  <2>1. 0 \in 0..MaxVersion /\ 0 \in Tokens
    BY NodesAssumption DEF Tokens
  <2>2. /\ node' \in [Nodes -> [installed : 0..MaxVersion, runs : 0..MaxVersion]]
        /\ node'[n] = [installed |-> 0, runs |-> 0]
        /\ \A m \in Nodes \ {n} : node'[m] = node[m]
    BY <1>1, <2>1 DEF TypeOK, Bare
  <2>3. secret' \in Tokens
    BY <1>1, <2>1 DEF Teardown, TypeOK
  <2> QED
    BY <1>1, <2>2, <2>3 DEF TypeOK, NodesTyped, Up, Bare
<1>4. TypeOK'
  BY <1>1, <1>2, <1>3 DEF TypeOK, NodesTyped
<1>5. file.nodes \subseteq Nodes /\ op.ran \subseteq Nodes
  BY <1>1 DEF TypeOK, Files, Op
<1>6. JoinedIsRecorded' /\ VersionIsTrue'
  BY <1>1, <1>2, <1>3, <1>5 DEF IInv, JoinedIsRecorded, VersionIsTrue, Up
<1>7. FirstServerLast'
  <2>1. CASE n # First
    BY <1>1, <1>3, <1>5, <2>1 DEF IInv, FirstServerLast, Up
  <2>2. CASE n = First
    <3>1. First \in Now.on
      BY <1>1, <2>2 DEF Verbs, Working
    <3>2. op.verb = "delete"
      <4>1. Now.do = "tear"
        BY <1>1, <3>1, UpgradeFits
      <4> QED
        BY <1>1, <4>1, InPhase DEF TypeOK, Op, Verbs, PhasesFit
    <3>3. 1 = Len(op.phases) /\ Now.on = {First} /\ ~Now.parallel
      BY <1>1, <3>1, <3>2, InPhase DEF Verbs, PhasesFit
    <3>4. ~op.failed /\ op.todo \subseteq {First}
      BY <1>1, <3>3 DEF Verbs, Working
    <3>5. \A m \in file.nodes : m # First => ~Pending(m)
      BY <1>1, <3>3, <3>4, InPhase DEF Pending
    <3>6. \A m \in file.nodes : m # First => node[m] = Bare \/ m \in excused
      BY <1>1, <3>2, <3>4, <3>5 DEF Verbs, Promise
    <3> QED
      BY <1>1, <1>3, <1>5, <2>2, <3>6 DEF FirstServerLast, Up
  <2> QED
    BY <2>1, <2>2
<1>8. RanFits'
  BY <1>1, <1>2, <1>3, <1>5 DEF Verbs, RanFits, Up
<1>9. Promise'
  BY <1>1, <1>2, <1>3, <1>5 DEF Verbs, Promise, Up
<1> QED
  BY <1>2, <1>4, <1>6, <1>7, <1>8, <1>9 DEF IInv, Verbs

LEMMA TeardownUnreachableOK ==
  ASSUME IInv, NEW n \in Nodes, TeardownUnreachable(n) PROVE IInv'
<1>1. /\ TypeOK /\ Verbs /\ op.phases # <<>> /\ n \in op.todo
      /\ Now.do \in {"remove", "tear"}
      /\ Ran(n) /\ excused' = excused \cup {n}
      /\ UNCHANGED <<file, tried, calls, node, secret>>
  BY DEF TeardownUnreachable, Busy, Keep, IInv
<1>2. /\ op' \in Op /\ op'.verb = op.verb /\ op'.version = op.version
      /\ op'.failed = op.failed /\ op'.ran = op.ran \cup {n} /\ Now' = Now
      /\ op'.phases = op.phases
      /\ Working' /\ FileFits' /\ PhasesFit'
      /\ \A m : m # n => (Pending(m) => Pending(m)')
  BY <1>1, RanOne
<1>3. TypeOK'
  BY <1>1, <1>2 DEF TypeOK
<1>4. JoinedIsRecorded' /\ VersionIsTrue' /\ FirstServerLast'
  BY <1>1, <1>2 DEF IInv, JoinedIsRecorded, VersionIsTrue, FirstServerLast, Up
<1>5. RanFits'
  BY <1>1, <1>2 DEF Verbs, RanFits, Up
<1>6. Promise'
  BY <1>1, <1>2 DEF Verbs, Promise, Up
<1> QED
  BY <1>2, <1>3, <1>4, <1>5, <1>6 DEF IInv, Verbs

LEMMA TeardownRefusedOK ==
  ASSUME IInv, NEW n \in Nodes, TeardownRefused(n) PROVE IInv'
<1>1. /\ TypeOK /\ Verbs /\ op.phases # <<>> /\ n \in op.todo
      /\ Now.parallel \/ op.ran = {}
      /\ Failed(n) /\ UNCHANGED <<file, tried, calls, node, secret, excused>>
  BY DEF TeardownRefused, Busy, Keep, IInv
<1>2. op' \in Op /\ op'.ran = op.ran /\ Verbs'
  <2>1. CASE op' = NoOp /\ ~Now.parallel
    BY <1>1, <2>1, GivenUp
  <2>2. CASE /\ op' \in Op /\ op'.verb = op.verb /\ op'.version = op.version
             /\ op'.phases = op.phases /\ op'.ran = op.ran /\ Now' = Now
             /\ Working' /\ FileFits' /\ PhasesFit' /\ Promise'
    BY <1>1, <2>2 DEF Verbs, RanFits, Up
  <2> QED
    BY <1>1, <2>1, <2>2, FailedOne
<1>3. TypeOK'
  BY <1>1, <1>2 DEF TypeOK
<1>4. JoinedIsRecorded' /\ VersionIsTrue' /\ FirstServerLast'
  BY <1>1, <1>2 DEF IInv, JoinedIsRecorded, VersionIsTrue, FirstServerLast, Up
<1> QED
  BY <1>2, <1>3, <1>4 DEF IInv

LEMMA UpgradeOK == ASSUME IInv, NEW n \in Nodes, Upgrade(n) PROVE IInv'
<1>1. /\ TypeOK /\ Verbs /\ op.phases # <<>> /\ n \in op.todo /\ Now.do = "upgrade"
      /\ node' = Restarted(n)
      /\ excused' = IF node[n] = Bare THEN excused \cup {n} ELSE excused
      /\ Ran(n) /\ First \in Nodes /\ UNCHANGED <<file, tried, calls, secret>>
  BY NodesAssumption DEF Upgrade, Busy, Keep, IInv, Nodes
<1>2. /\ op.verb = "update" /\ op.version \in 1..MaxVersion /\ op.version \in tried
      /\ Now.on \subseteq file.nodes
  BY <1>1, UpgradeFits
<1>3. /\ op' \in Op /\ op'.verb = op.verb /\ op'.version = op.version
      /\ op'.failed = op.failed /\ op'.ran = op.ran \cup {n} /\ Now' = Now
      /\ op'.phases = op.phases
      /\ Working' /\ FileFits' /\ PhasesFit'
      /\ \A m : m # n => (Pending(m) => Pending(m)')
  BY <1>1, RanOne
<1>4. /\ NodesTyped'
      /\ node'[n].runs = op.version /\ node'[n] # Bare
      /\ \A m \in Nodes \ {n} : node'[m] = node[m]
  <2>1. NodesTyped
    BY <1>1 DEF TypeOK, NodesTyped
  <2> QED
    BY <1>1, <1>2, <2>1, OneNode, NodesAssumption
<1>5. TypeOK'
  BY <1>1, <1>3, <1>4 DEF TypeOK, NodesTyped
<1>6. file.nodes \subseteq Nodes /\ op.ran \subseteq Nodes /\ n \in file.nodes
  BY <1>1, <1>2 DEF TypeOK, Files, Op, Verbs, Working
<1>7. /\ \A m : m \in excused => m \in excused'
      /\ \A m : m # n /\ m \in excused' => m \in excused
      /\ node[n] = Bare => n \in excused'
  BY <1>1
<1>8. JoinedIsRecorded' /\ VersionIsTrue'
  BY <1>1, <1>2, <1>3, <1>4, <1>6, <1>7 DEF IInv, JoinedIsRecorded, VersionIsTrue, Up
<1>9. FirstServerLast'
  BY <1>1, <1>4, <1>6, <1>7 DEF IInv, FirstServerLast
<1>10. RanFits'
  BY <1>1, <1>3 DEF RanFits
<1>11. Promise'
  BY <1>1, <1>2, <1>3, <1>4, <1>6, <1>7 DEF Verbs, Promise, Up
<1> QED
  BY <1>3, <1>5, <1>8, <1>9, <1>10, <1>11 DEF IInv, Verbs

LEMMA UpgradeFailsOK == ASSUME IInv, NEW n \in Nodes, UpgradeFails(n) PROVE IInv'
<1>1. /\ TypeOK /\ Verbs /\ op.phases # <<>> /\ n \in op.todo /\ Now.do = "upgrade"
      /\ Now.parallel \/ op.ran = {}
      /\ node' \in {node, Installed(n), Down(n), Restarted(n)}
      /\ excused' = IF node[n] = Bare THEN excused \cup {n} ELSE excused
      /\ Failed(n) /\ First \in Nodes /\ UNCHANGED <<file, tried, calls, secret>>
  BY NodesAssumption DEF UpgradeFails, Busy, Keep, IInv, Nodes
<1>2. /\ op.version \in tried /\ op.version \in 1..MaxVersion /\ Now.on \subseteq file.nodes
  BY <1>1, UpgradeFits
<1>3. op' \in Op /\ op'.ran = op.ran /\ Verbs'
  <2>1. CASE op' = NoOp /\ ~Now.parallel
    BY <1>1, <2>1, GivenUp
  <2>2. CASE /\ op' \in Op /\ op'.verb = op.verb /\ op'.version = op.version
             /\ op'.phases = op.phases /\ op'.ran = op.ran /\ Now' = Now
             /\ Working' /\ FileFits' /\ PhasesFit' /\ Promise'
    BY <1>1, <2>2 DEF Verbs, RanFits
  <2> QED
    BY <1>1, <2>1, <2>2, FailedOne
<1>4. /\ NodesTyped'
      /\ node'[n] = node[n] \/ node'[n] # Bare
      /\ Up(n)' => node'[n].runs = node[n].runs \/ node'[n].runs = op.version
      /\ \A m \in Nodes \ {n} : node'[m] = node[m]
  <2>1. NodesTyped
    BY <1>1 DEF TypeOK, NodesTyped
  <2>2. /\ NodesTyped'
        /\ \A m \in Nodes \ {n} : node'[m] = node[m]
        /\ node' \in {Installed(n), Down(n), Restarted(n)} => node'[n] # Bare
        /\ node' = Restarted(n) => node'[n].runs = op.version
        /\ node' = Installed(n) => node'[n].runs = node[n].runs
        /\ node' = Down(n) => ~Up(n)'
    BY <1>1, <1>2, <2>1, OneNode, NodesAssumption
  <2> QED
    BY <1>1, <2>2
<1>5. TypeOK'
  BY <1>1, <1>3, <1>4 DEF TypeOK, NodesTyped
<1>6. file.nodes \subseteq Nodes /\ n \in file.nodes
  BY <1>1, <1>2 DEF TypeOK, Files, Verbs, Working
<1>7. /\ \A m : m \in excused => m \in excused'
      /\ \A m : m # n /\ m \in excused' => m \in excused
      /\ node[n] = Bare => n \in excused'
  BY <1>1
<1>8. JoinedIsRecorded'
  BY <1>1, <1>3, <1>4, <1>6, <1>7 DEF IInv, JoinedIsRecorded, Up
<1>9. VersionIsTrue'
  BY <1>1, <1>2, <1>4, <1>6, <1>7 DEF IInv, VersionIsTrue, Up
<1>10. FirstServerLast'
  BY <1>1, <1>4, <1>6, <1>7 DEF IInv, FirstServerLast
<1> QED
  BY <1>3, <1>5, <1>8, <1>9, <1>10 DEF IInv

-------------------------------------------------------------------------------
(* The process's own steps.                                                *)

\* The results that are collected: of a join, a removal, and the rest.
LEMMA CollectOK == ASSUME IInv, NEW n \in Nodes, Collect(n) PROVE IInv'
<1>1. /\ TypeOK /\ Verbs /\ op.phases # <<>> /\ n \in op.ran
      /\ op' = [op EXCEPT !.ran = @ \ {n}]
      /\ UNCHANGED <<node, secret, excused, tried, calls>>
  BY DEF Collect, IInv
<1>2. /\ op' \in Op /\ op'.verb = op.verb /\ op'.version = op.version
      /\ op'.failed = op.failed /\ op'.ran = op.ran \ {n} /\ op'.todo = op.todo
      /\ op'.phases = op.phases /\ op'.token = op.token
  BY <1>1 DEF TypeOK, Op
<1>3. Now' = Now /\ \A m : Pending(m)' <=> Pending(m)
  <2>1. Now' = Now
    BY <1>2 DEF Now
  <2> QED
    BY <1>2, <2>1 DEF Pending
<1>4. op.verb # "none" /\ Now \in Phase
  BY <1>1, InPhase
<1>5. Working'
  BY <1>1, <1>2, <1>3, <1>4 DEF Verbs, Working
<1>6. file.nodes \subseteq Nodes /\ op.ran \subseteq Now.on /\ First \in Nodes
  BY <1>1, NodesAssumption DEF TypeOK, Files, Verbs, Working, Nodes
<1>7. CASE Now.do = "join" /\ Upsert(n)
  <2>1. op.verb \in {"create", "update"} /\ op.version \in 1..MaxVersion
    BY <1>1, <1>7, JoinFits
  <2>2. Up(n) /\ (n \notin excused => node[n].runs = op.version /\ node[First] # Bare)
    BY <1>1, <1>7 DEF Verbs, RanFits
  <2>3. /\ file'.there = "whole" /\ file'.nodes = file.nodes \cup {n}
        /\ file'.version = IF op.verb = "create" THEN op.version ELSE file.version
        /\ file' \in Files
    BY <1>1, <1>7, <2>1 DEF Upsert, TypeOK, Files, Op
  <2>4. /\ op.version \in {file'.version} \cup tried
        /\ file.nodes # {} => file'.version = file.version
    <3>1. op.verb = "create" => file.nodes = {} \/ file.version = op.version
      BY <1>1 DEF Verbs, FileFits, NoFile
    <3>2. op.verb = "update" => op.version \in tried
      BY <1>1 DEF Verbs, FileFits
    <3> QED
      BY <2>1, <2>3, <3>1, <3>2
  <2>5. TypeOK'
    BY <1>1, <1>2, <1>7, <2>3 DEF TypeOK
  <2>6. JoinedIsRecorded' /\ VersionIsTrue' /\ FirstServerLast'
    BY <1>1, <1>2, <1>6, <1>7, <2>2, <2>3, <2>4
    DEF IInv, JoinedIsRecorded, VersionIsTrue, FirstServerLast, Up
  <2>7. FileFits' /\ PhasesFit'
    <3>1. FileFits'
      BY <1>1, <1>2, <2>1, <2>3 DEF Verbs, FileFits
    <3>2. PhasesFit'
      BY <1>1, <1>2, <2>1, <2>3 DEF Verbs, PhasesFit
    <3> QED
      BY <3>1, <3>2
  <2>8. RanFits'
    BY <1>1, <1>2, <1>3, <1>7 DEF Verbs, RanFits, Up
  <2>9. Promise'
    BY <1>1, <1>2, <1>3, <1>7, <2>1, <2>2, <2>3 DEF Verbs, Promise, Up
  <2> QED
    BY <1>5, <2>5, <2>6, <2>7, <2>8, <2>9 DEF IInv, Verbs
<1>8. CASE Now.do = "remove" /\ file' = [file EXCEPT !.nodes = @ \ {n}]
  <2>1. op.verb = "update" /\ file.there = "whole"
    BY <1>1, <1>8, UpgradeFits DEF Verbs, FileFits
  <2>2. /\ file'.there = file.there /\ file'.nodes = file.nodes \ {n}
        /\ file'.version = file.version /\ file' \in Files
    BY <1>1, <1>8 DEF TypeOK, Files
  <2>3. ~Up(n) \/ n \in excused
    BY <1>1, <1>8 DEF Verbs, RanFits, Up, Bare
  <2>4. TypeOK'
    BY <1>1, <1>2, <1>8, <2>2 DEF TypeOK
  <2>5. JoinedIsRecorded' /\ VersionIsTrue' /\ FirstServerLast'
    BY <1>1, <1>2, <1>8, <2>2, <2>3
    DEF IInv, JoinedIsRecorded, VersionIsTrue, FirstServerLast, Up
  <2>6. FileFits'
    BY <1>1, <1>2, <2>1, <2>2 DEF Verbs, FileFits
  <2>7. PhasesFit'
    <3>1. \A i \in DOMAIN op.phases : op.phases[i].do = "upgrade" => n \notin op.phases[i].on
      BY <1>1, <1>6, <1>8, <2>1, InPhase DEF Verbs, PhasesFit
    <3> QED
      BY <1>1, <1>2, <2>1, <2>2, <3>1 DEF Verbs, PhasesFit
  <2>8. RanFits'
    BY <1>1, <1>2, <1>3, <1>8 DEF Verbs, RanFits, Up
  <2>9. Promise'
    BY <1>1, <1>2, <1>3, <1>8, <2>2 DEF Verbs, Promise, Up
  <2> QED
    BY <1>5, <2>4, <2>5, <2>6, <2>7, <2>8, <2>9 DEF IInv, Verbs
<1>9. CASE Now.do \in {"tear", "upgrade"} /\ UNCHANGED file
  <2>1. ~Up(n) \/ n \in file.nodes \cup excused
    <3>1. CASE Now.do = "tear"
      BY <1>1, <3>1 DEF Verbs, RanFits, Up, Bare
    <3>2. CASE Now.do = "upgrade"
      BY <1>1, <1>6, <3>2, UpgradeFits
    <3> QED
      BY <1>9, <3>1, <3>2
  <2>2. TypeOK'
    BY <1>1, <1>2, <1>9 DEF TypeOK
  <2>3. JoinedIsRecorded' /\ VersionIsTrue' /\ FirstServerLast'
    BY <1>1, <1>2, <1>9, <2>1
    DEF IInv, JoinedIsRecorded, VersionIsTrue, FirstServerLast, Up
  <2>4. FileFits' /\ PhasesFit'
    BY <1>1, <1>2, <1>9 DEF Verbs, FileFits, PhasesFit
  <2>5. RanFits'
    BY <1>1, <1>2, <1>3, <1>9 DEF Verbs, RanFits, Up
  <2>6. Promise'
    BY <1>1, <1>2, <1>3, <1>9 DEF Verbs, Promise, Up
  <2> QED
    BY <1>5, <2>2, <2>3, <2>4, <2>5, <2>6 DEF IInv, Verbs
<1> QED
  BY <1>7, <1>8, <1>9 DEF Collect

LEMMA PhaseEndsOK == ASSUME IInv, PhaseEnds PROVE IInv'
<1> DEFINE rest == Tail(op.phases)
<1>1. /\ TypeOK /\ Verbs /\ op.phases # <<>> /\ op.todo = {} /\ op.ran = {}
      /\ op' = IF op.failed THEN NoOp
               ELSE [op EXCEPT !.phases = rest,
                         !.todo = IF rest = <<>> THEN {} ELSE Head(rest).on]
      /\ UNCHANGED <<file, node, secret, excused, tried, calls>>
  BY DEF PhaseEnds, IInv
<1>2. op' \in Op /\ op'.ran = {} /\ Verbs'
  <2>1. CASE op.failed
    BY <1>1, <2>1, GivenUp
  <2>2. CASE ~op.failed
    <3>1. /\ rest \in Seq(Phase) /\ Len(rest) = Len(op.phases) - 1
          /\ DOMAIN rest = 1..Len(rest)
          /\ \A i \in DOMAIN rest : rest[i] = op.phases[i + 1] /\ i + 1 \in DOMAIN op.phases
          /\ \A i \in DOMAIN op.phases : i > 1 => i - 1 \in DOMAIN rest
          /\ op.phases \in Seq(Phase)
      BY <1>1, InPhase DEF TypeOK, Op
    <3> HIDE DEF rest
    <3>2. /\ op' = [op EXCEPT !.phases = rest,
                         !.todo = IF rest = <<>> THEN {} ELSE Head(rest).on]
          /\ op \in Op
      BY <1>1, <2>2 DEF TypeOK
    <3>3. rest # <<>> => rest[1] \in Phase /\ Head(rest) = rest[1] /\ 1 \in DOMAIN rest
      BY <3>1
    <3>4. /\ op'.verb = op.verb /\ op'.version = op.version
          /\ op'.failed = op.failed /\ op'.ran = {} /\ op'.phases = rest
          /\ rest = <<>> => op'.todo = {}
          /\ rest # <<>> => op'.todo = rest[1].on
          /\ op' \in Op
      BY <1>1, <3>1, <3>2, <3>3 DEF Op, Phase
    <3>5. rest # <<>> => Now' = rest[1]
      BY <3>3, <3>4 DEF Now
    <3>6. Working'
      BY <1>1, <2>2, <3>4, <3>5, InPhase DEF Verbs, Working
    <3>7. FileFits'
      BY <1>1, <3>4 DEF Verbs, FileFits
    <3>8. PhasesFit'
      <4> SUFFICES ASSUME NEW i \in DOMAIN rest
          PROVE
            /\ op.verb = "create" => rest[i].do = "join"
            /\ op.verb = "update" =>
                 /\ rest[i].do \in {"remove", "join", "upgrade"}
                 /\ rest[i].do = "remove" => First \notin rest[i].on
                 /\ rest[i].do = "upgrade" =>
                      /\ rest[i].on \subseteq file.nodes
                      /\ \A j \in DOMAIN rest :
                           rest[j].do = "remove" => rest[i].on \cap rest[j].on = {}
            /\ op.verb = "delete" =>
                 /\ rest[i].do = "tear"
                 /\ First \in rest[i].on => /\ i = Len(rest)
                                            /\ rest[i].on = {First}
                                            /\ ~rest[i].parallel
        BY <1>1, <3>4 DEF PhasesFit
      <4>1. rest[i] = op.phases[i + 1] /\ i + 1 \in DOMAIN op.phases
        BY <3>1
      <4>2. \A j \in DOMAIN rest : rest[j] = op.phases[j + 1] /\ j + 1 \in DOMAIN op.phases
        BY <3>1
      <4>3. i + 1 = Len(op.phases) => i = Len(rest)
        BY <3>1
      <4> QED
        BY <1>1, <4>1, <4>2, <4>3 DEF Verbs, PhasesFit
    <3>9. RanFits'
      BY <3>4 DEF RanFits
    <3>10. ASSUME NEW m, Pending(m) PROVE Pending(m)'
      <4>1. PICK i \in DOMAIN op.phases :
               i > 1 /\ op.phases[i].do # "join" /\ m \in op.phases[i].on
        BY <1>1, <3>10 DEF Pending
      <4>2. i - 1 \in DOMAIN rest /\ rest[i - 1] = op.phases[i] /\ rest # <<>>
        BY <3>1, <4>1
      <4>3. CASE i - 1 = 1
        BY <3>4, <3>5, <4>1, <4>2, <4>3 DEF Pending
      <4>4. CASE i - 1 > 1
        BY <3>4, <4>1, <4>2, <4>4 DEF Pending
      <4> QED
        BY <3>1, <4>2, <4>3, <4>4
    <3>11. Promise'
      BY <1>1, <2>2, <3>4, <3>10 DEF Verbs, Promise, Up
    <3> QED
      BY <3>4, <3>6, <3>7, <3>8, <3>9, <3>11 DEF Verbs
  <2> QED
    BY <2>1, <2>2
<1>3. TypeOK'
  BY <1>1, <1>2 DEF TypeOK
<1>4. JoinedIsRecorded' /\ VersionIsTrue' /\ FirstServerLast'
  BY <1>1, <1>2 DEF IInv, JoinedIsRecorded, VersionIsTrue, FirstServerLast, Up
<1> QED
  BY <1>2, <1>3, <1>4 DEF IInv

LEMMA FinishOK == ASSUME IInv, Finish PROVE IInv'
<1>1. /\ TypeOK /\ Verbs /\ op.phases = <<>> /\ op # NoOp /\ op' = NoOp
      /\ tried' = IF op.verb = "update" /\ op.version # file.version THEN {} ELSE tried
      /\ tried' \subseteq 1..MaxVersion
      /\ UNCHANGED <<node, secret, excused, calls>>
  BY DEF Finish, IInv, TypeOK
<1>2. op.verb \in {"create", "update", "delete"} /\ op.ran = {} /\ ~op.failed
  BY <1>1 DEF TypeOK, Op, Verbs, Working
<1>3. \A m : ~Pending(m)
  BY <1>1 DEF Pending
<1>4. CASE op.verb = "delete" /\ file' = NoFile
  <2>1. \A m \in file.nodes : ~Up(m) \/ m \in excused
    BY <1>1, <1>2, <1>3, <1>4 DEF Verbs, Promise, Up, Bare
  <2>2. op' \in Op /\ op'.ran = {} /\ Verbs'
    BY <1>1, <1>4, GivenUp
  <2>3. NoFile \in Files
    <3>1. 0 \in 0..MaxVersion /\ 0 \in Tokens
      BY NodesAssumption DEF Tokens
    <3> QED
      BY <3>1 DEF NoFile, Files
  <2>4. TypeOK'
    BY <1>1, <1>4, <2>2, <2>3 DEF TypeOK
  <2>5. JoinedIsRecorded'
    BY <1>1, <1>2, <2>1 DEF IInv, JoinedIsRecorded, Up
  <2>6. VersionIsTrue' /\ FirstServerLast'
    BY <1>4 DEF NoFile, VersionIsTrue, FirstServerLast
  <2> QED
    BY <2>2, <2>4, <2>5, <2>6 DEF IInv
<1>5. CASE op.verb = "update" /\ file' = [file EXCEPT !.version = op.version]
  <2>1. /\ file' \in Files /\ file'.version = op.version /\ file'.nodes = file.nodes
        /\ file'.there = "whole"
    BY <1>1, <1>5 DEF TypeOK, Files, Op, Verbs, FileFits
  <2>2. op' \in Op /\ op'.ran = {} /\ Verbs'
    BY <1>1, <2>1, GivenUp
  <2>3. \A m \in file.nodes : Up(m) /\ m \notin excused => node[m].runs \in {op.version} \cup tried'
    <3>1. CASE op.version # file.version
      BY <1>1, <1>2, <1>3, <1>5, <3>1 DEF Verbs, Promise
    <3>2. CASE op.version = file.version
      BY <1>1, <1>5, <3>2 DEF IInv, VersionIsTrue
    <3> QED
      BY <3>1, <3>2
  <2>4. TypeOK'
    BY <1>1, <2>1, <2>2 DEF TypeOK
  <2>5. JoinedIsRecorded' /\ VersionIsTrue' /\ FirstServerLast'
    BY <1>1, <1>2, <2>1, <2>2, <2>3
    DEF IInv, JoinedIsRecorded, VersionIsTrue, FirstServerLast, Up
  <2> QED
    BY <2>2, <2>4, <2>5 DEF IInv
<1>6. CASE op.verb = "create" /\ file' = file
  <2>1. op' \in Op /\ op'.ran = {} /\ Verbs'
    BY <1>1, <1>6, GivenUp
  <2>2. TypeOK'
    BY <1>1, <1>6, <2>1 DEF TypeOK
  <2>3. tried' = tried
    BY <1>1, <1>6
  <2>4. JoinedIsRecorded' /\ VersionIsTrue' /\ FirstServerLast'
    BY <1>1, <1>2, <1>6, <2>1, <2>3
    DEF IInv, JoinedIsRecorded, VersionIsTrue, FirstServerLast, Up
  <2> QED
    BY <2>1, <2>2, <2>4 DEF IInv
<1> QED
  BY <1>2, <1>4, <1>5, <1>6 DEF Finish

LEMMA CrashOK == ASSUME IInv, Crash PROVE IInv'
<1>1. TypeOK /\ Verbs /\ op' = NoOp /\ UNCHANGED <<node, secret, tried, calls>>
  BY DEF Crash, IInv
<1>2. CASE file' = file /\ excused' = excused \cup Unsaved
  <2>1. op' \in Op /\ op'.ran = {} /\ Verbs'
    BY <1>1, <1>2, GivenUp
  <2>2. TypeOK'
    BY <1>1, <1>2, <2>1 DEF TypeOK, Op, Unsaved
  <2>3. \A n \in op.ran : Up(n) => n \in file.nodes \cup excused \cup Unsaved
    <3> SUFFICES ASSUME NEW n \in op.ran, Up(n) PROVE n \in file.nodes \cup excused \cup Unsaved
      OBVIOUS
    <3>1. op.phases # <<>> /\ n \in Now.on /\ Now \in Phase
      BY <1>1, InPhase DEF Verbs, Working
    <3>2. CASE Now.do = "join"
      BY <3>1, <3>2 DEF Unsaved
    <3>3. CASE Now.do \in {"remove", "tear"}
      BY <1>1, <3>1, <3>3 DEF Verbs, RanFits, Up, Bare
    <3>4. CASE Now.do = "upgrade"
      BY <1>1, <3>1, <3>4, UpgradeFits
    <3> QED
      BY <3>1, <3>2, <3>3, <3>4 DEF Phase
  <2>4. JoinedIsRecorded' /\ VersionIsTrue' /\ FirstServerLast'
    BY <1>1, <1>2, <2>1, <2>3
    DEF IInv, JoinedIsRecorded, VersionIsTrue, FirstServerLast, Up
  <2> QED
    BY <2>1, <2>2, <2>4 DEF IInv
<1>3. CASE file' = Torn /\ excused' = Nodes
  <2>1. file'.there = "torn" /\ file'.nodes = {} /\ file' \in Files
    <3>1. 0 \in 0..MaxVersion /\ 0 \in Tokens
      BY NodesAssumption DEF Tokens
    <3> QED
      BY <1>3, <3>1 DEF Torn, NoFile, Files
  <2>2. op' \in Op /\ Verbs'
    BY <1>1, <2>1, GivenUp
  <2>3. TypeOK'
    BY <1>1, <1>3, <2>1, <2>2 DEF TypeOK
  <2>4. JoinedIsRecorded' /\ VersionIsTrue' /\ FirstServerLast'
    BY <1>3, <2>1 DEF JoinedIsRecorded, VersionIsTrue, FirstServerLast
  <2> QED
    BY <2>2, <2>3, <2>4 DEF IInv
<1> QED
  BY <1>2, <1>3 DEF Crash

LEMMA StepOK == IInv /\ [Next]_vars => IInv'
<1> SUFFICES ASSUME IInv, [Next]_vars PROVE IInv'
  OBVIOUS
<1>1. ASSUME NEW want \in SUBSET Nodes, NEW v \in 1..MaxVersion,
             Create(want, v) \/ Update(want, v)
      PROVE  IInv'
  BY <1>1, CreateOK, UpdateOK
<1>2. CASE Delete
  BY <1>2, DeleteOK
<1>3. ASSUME NEW n \in Nodes,
             \/ Bootstrap(n) \/ BootstrapFails(n) \/ Teardown(n)
             \/ TeardownUnreachable(n) \/ TeardownRefused(n)
             \/ Upgrade(n) \/ UpgradeFails(n) \/ Collect(n)
      PROVE  IInv'
  BY <1>3, BootstrapOK, BootstrapFailsOK, TeardownOK, TeardownUnreachableOK,
     TeardownRefusedOK, UpgradeOK, UpgradeFailsOK, CollectOK
<1>4. CASE PhaseEnds \/ Finish \/ Crash
  BY <1>4, PhaseEndsOK, FinishOK, CrashOK
<1>5. CASE UNCHANGED vars
  <2>1. UNCHANGED <<Now, Working, FileFits, PhasesFit, RanFits>> /\ Promise'
    BY <1>5 DEF vars, Now, Working, FileFits, PhasesFit, RanFits, Promise, Pending, Up,
                IInv, Verbs
  <2> QED
    BY <1>5, <2>1 DEF vars, IInv, Verbs, TypeOK, JoinedIsRecorded, VersionIsTrue,
                      FirstServerLast, Up
<1> QED
  BY <1>1, <1>2, <1>3, <1>4, <1>5 DEF Next

-------------------------------------------------------------------------------
(* The theorems.                                                           *)

\* The inductive invariant holds in every state of RKE2Backend and its nodes.
THEOREM Inductive == Spec => []IInv
<1> QED
  BY InitOK, StepOK, PTL DEF Spec

\* The file, the nodes and the call in progress have their types.
THEOREM ClusterTypes == Spec => []TypeOK
<1>1. IInv => TypeOK
  BY DEF IInv
<1> QED
  BY <1>1, Inductive, PTL

\* A node that joined is in the state file, and a recorded node runs the
\* version recorded there, or one that an unfinished update asked for,
\* whichever nodes failed and wherever the process died, save for the excuses
\* that ClusterMembership names.
THEOREM StateFileIsTrue == Spec => []FileIsTrue
<1>1. IInv => FileIsTrue
  BY DEF IInv, FileIsTrue
<1> QED
  BY <1>1, Inductive, PTL

\* The first server, through which the others reach the cluster, is the last
\* of the recorded nodes to be uninstalled, across failed and repeated updates
\* and deletes.
THEOREM FirstServerGoesLast == Spec => []FirstServerLast
<1>1. IInv => FirstServerLast
  BY DEF IInv
<1> QED
  BY <1>1, Inductive, PTL

-----------------------------------------------------------------------------
(* Sequences of sequences *)

Earlier(c, d, a, b) == c < a \/ (c = a /\ d < b)

\* Entry i of F is entry b of the a-th sequence, and what comes before the
\* one is what comes before the other.
Stems(F, i, seqs, n, a, b) ==
  /\ F[i] = seqs[a][b]
  /\ \A c \in 1..n : \A d \in DOMAIN seqs[c] :
       Earlier(c, d, a, b) => \E j \in 1..(i - 1) : F[j] = seqs[c][d]
  /\ \A j \in 1..(i - 1) : \E c \in 1..n : \E d \in DOMAIN seqs[c] :
       Earlier(c, d, a, b) /\ F[j] = seqs[c][d]

\* F is the first n sequences, one after the other.
Laid(F, seqs, n) ==
  /\ \A a \in 1..n : \A b \in DOMAIN seqs[a] : \E i \in DOMAIN F : F[i] = seqs[a][b]
  /\ \A i \in DOMAIN F : \E a \in 1..n : \E b \in DOMAIN seqs[a] : Stems(F, i, seqs, n, a, b)

LEMMA LaidNone ==
  ASSUME NEW seqs
  PROVE  Laid(<< >>, seqs, 0)
BY DEF Laid

LEMMA LaidNext ==
  ASSUME NEW X, NEW m \in Nat, NEW seqs \in [1..m -> Seq(X)],
         NEW n \in Nat, n + 1 \in 1..m, NEW F \in Seq(X), Laid(F, seqs, n)
  PROVE  F \o seqs[n + 1] \in Seq(X) /\ Laid(F \o seqs[n + 1], seqs, n + 1)
<1> DEFINE s == seqs[n + 1]
           G == F \o s
<1>1. s \in Seq(X) /\ G \in Seq(X) /\ Len(F) \in Nat /\ Len(s) \in Nat
      /\ Len(G) = Len(F) + Len(s)
      /\ DOMAIN F = 1..Len(F) /\ DOMAIN s = 1..Len(s) /\ DOMAIN G = 1..Len(G)
  OBVIOUS
<1>2. \A i \in 1..Len(F) : G[i] = F[i]
  BY <1>1
<1>3. \A d \in 1..Len(s) : Len(F) + d \in 1..Len(G) /\ G[Len(F) + d] = s[d]
  BY <1>1
<1>4. \A c \in 1..(n + 1) : c \in 1..n \/ c = n + 1
  OBVIOUS
<1> HIDE DEF G
<1>5. ASSUME NEW a \in 1..(n + 1), NEW b \in DOMAIN seqs[a]
      PROVE  \E i \in DOMAIN G : G[i] = seqs[a][b]
  <2>1. CASE a \in 1..n
    BY <1>1, <1>2, <2>1 DEF Laid
  <2>2. CASE a = n + 1
    BY <1>1, <1>3, <2>2
  <2> QED
    BY <1>4, <2>1, <2>2
<1>6. ASSUME NEW i \in 1..Len(F)
      PROVE  \E a \in 1..(n + 1) : \E b \in DOMAIN seqs[a] : Stems(G, i, seqs, n + 1, a, b)
  <2>1. PICK a \in 1..n : \E b \in DOMAIN seqs[a] : Stems(F, i, seqs, n, a, b)
    BY <1>1 DEF Laid
  <2>2. PICK b \in DOMAIN seqs[a] : Stems(F, i, seqs, n, a, b)
    BY <2>1
  <2>3. \A j \in 1..(i - 1) : j \in 1..Len(F) /\ G[j] = F[j]
    BY <1>1, <1>2
  <2>4. G[i] = seqs[a][b]
    BY <1>2, <2>2 DEF Stems
  <2>5. ASSUME NEW c \in 1..(n + 1), NEW d \in DOMAIN seqs[c], Earlier(c, d, a, b)
        PROVE  \E j \in 1..(i - 1) : G[j] = seqs[c][d]
    <3>1. c \in 1..n
      BY <2>5 DEF Earlier
    <3>2. \E j \in 1..(i - 1) : F[j] = seqs[c][d]
      BY <2>2, <2>5, <3>1 DEF Stems
    <3> QED
      BY <2>3, <3>2
  <2>6. ASSUME NEW j \in 1..(i - 1)
        PROVE  \E c \in 1..(n + 1) : \E d \in DOMAIN seqs[c] :
                 Earlier(c, d, a, b) /\ G[j] = seqs[c][d]
    <3>1. PICK c \in 1..n : \E d \in DOMAIN seqs[c] : Earlier(c, d, a, b) /\ F[j] = seqs[c][d]
      BY <2>2 DEF Stems
    <3>2. c \in 1..(n + 1)
      OBVIOUS
    <3> QED
      BY <2>3, <3>1, <3>2
  <2>7. a \in 1..(n + 1)
    OBVIOUS
  <2>8. Stems(G, i, seqs, n + 1, a, b)
    BY <2>4, <2>5, <2>6 DEF Stems
  <2> QED
    BY <2>2, <2>7, <2>8
<1>7. ASSUME NEW e \in 1..Len(s)
      PROVE  Stems(G, Len(F) + e, seqs, n + 1, n + 1, e)
  <2> DEFINE i == Len(F) + e
  <2>1. i \in Nat /\ G[i] = s[e]
    BY <1>1, <1>3
  <2>2. \A j \in 1..(i - 1) : j \in 1..Len(F) \/ \E d \in 1..Len(s) : d < e /\ j = Len(F) + d
    <3>1. ASSUME NEW j \in 1..(i - 1), j \notin 1..Len(F)
          PROVE  j - Len(F) \in 1..Len(s) /\ j - Len(F) < e /\ j = Len(F) + (j - Len(F))
      BY <1>1, <3>1
    <3> QED
      BY <3>1
  <2>3. ASSUME NEW c \in 1..(n + 1), NEW d \in DOMAIN seqs[c], Earlier(c, d, n + 1, e)
        PROVE  \E j \in 1..(i - 1) : G[j] = seqs[c][d]
    <3>1. CASE c \in 1..n
      <4>1. PICK j \in DOMAIN F : F[j] = seqs[c][d]
        BY <3>1 DEF Laid
      <4>2. j \in 1..(i - 1) /\ G[j] = F[j]
        BY <1>1, <1>2
      <4> QED
        BY <4>1, <4>2
    <3>2. CASE c = n + 1
      <4>1. d \in 1..Len(s) /\ d < e
        BY <1>1, <2>3, <3>2 DEF Earlier
      <4>2. Len(F) + d \in 1..(i - 1)
        <5>1. d \in Nat /\ e \in Nat /\ Len(F) \in Nat /\ 1 <= d /\ d < e
          BY <1>1, <4>1
        <5> QED
          BY <5>1
      <4> QED
        BY <1>3, <3>2, <4>1, <4>2
    <3> QED
      BY <1>4, <3>1, <3>2
  <2>4. ASSUME NEW j \in 1..(i - 1)
        PROVE  \E c \in 1..(n + 1) : \E d \in DOMAIN seqs[c] :
                 Earlier(c, d, n + 1, e) /\ G[j] = seqs[c][d]
    <3>1. CASE j \in 1..Len(F)
      <4>1. PICK c \in 1..n : \E d \in DOMAIN seqs[c] : F[j] = seqs[c][d]
        BY <1>1, <3>1 DEF Laid, Stems
      <4>2. c \in 1..(n + 1) /\ c < n + 1 /\ G[j] = F[j]
        BY <1>2, <3>1
      <4>3. PICK d \in DOMAIN seqs[c] : F[j] = seqs[c][d]
        BY <4>1
      <4>4. Earlier(c, d, n + 1, e)
        BY <4>2 DEF Earlier
      <4>5. G[j] = seqs[c][d]
        BY <4>2, <4>3
      <4> QED
        BY <4>2, <4>4, <4>5
    <3>2. ASSUME NEW d \in 1..Len(s), d < e, j = Len(F) + d
          PROVE  \E c \in 1..(n + 1) : \E x \in DOMAIN seqs[c] :
                   Earlier(c, x, n + 1, e) /\ G[j] = seqs[c][x]
      <4>1. n + 1 \in 1..(n + 1) /\ d \in DOMAIN seqs[n + 1] /\ G[j] = seqs[n + 1][d]
        BY <1>1, <1>3, <3>2
      <4>2. Earlier(n + 1, d, n + 1, e)
        BY <3>2 DEF Earlier
      <4> QED
        BY <4>1, <4>2
    <3> QED
      BY <2>2, <3>1, <3>2
  <2> HIDE DEF i
  <2> QED
    BY <2>1, <2>3, <2>4 DEF Stems, i
<1>8. ASSUME NEW i \in DOMAIN G
      PROVE  \E a \in 1..(n + 1) : \E b \in DOMAIN seqs[a] : Stems(G, i, seqs, n + 1, a, b)
  <2>1. CASE i \in 1..Len(F)
    BY <1>6, <2>1
  <2>2. CASE i \notin 1..Len(F)
    <3>1. i - Len(F) \in 1..Len(s) /\ i = Len(F) + (i - Len(F)) /\ n + 1 \in 1..(n + 1)
      BY <1>1, <2>2
    <3>2. Stems(G, i, seqs, n + 1, n + 1, i - Len(F))
      BY <1>7, <3>1
    <3> QED
      BY <1>1, <3>1, <3>2
  <2> QED
    BY <2>1, <2>2
<1> QED
  BY <1>1, <1>5, <1>8 DEF Laid, G

LEMMA Smallest ==
  ASSUME NEW Bad \in SUBSET Nat, Bad # {}
  PROVE  \E n \in Bad : \A k \in Bad : ~(k < n)
<1>1. IsWellFoundedOn(OpToRel(<, Nat), Nat)
  BY NatLessThanWellFounded
<1>2. PICK n \in Bad : \A k \in Bad : <<k, n>> \notin OpToRel(<, Nat)
  BY <1>1, WFMin
<1> QED
  BY <1>2 DEF OpToRel

\* What FlattenSeq computes: the first n sequences joined, for each n to m.
Joins(g, seqs, m) ==
  g = [i \in 1..m |-> IF i = 1 THEN seqs[i] ELSE g[i - 1] \o seqs[i]]

LEMMA JoinsExist ==
  ASSUME NEW m \in Nat, NEW seqs, NEW n \in 1..m
  PROVE  \E g : Joins(g, seqs, n)
<1> DEFINE Bad == {k \in 1..m : ~ \E g : Joins(g, seqs, k)}
<1>1. SUFFICES ASSUME Bad # {} PROVE FALSE
  OBVIOUS
<1>2. Bad \in SUBSET Nat
  OBVIOUS
<1> HIDE DEF Bad
<1>3. PICK k \in Bad : \A i \in Bad : ~(i < k)
  BY <1>1, <1>2, Smallest
<1>4. k \in 1..m /\ ~ \E g : Joins(g, seqs, k)
  BY <1>3 DEF Bad
<1>5. CASE k = 1
  <2> DEFINE g == [i \in 1..1 |-> seqs[i]]
  <2>1. Joins(g, seqs, 1)
    BY DEF Joins
  <2> QED
    BY <1>4, <1>5, <2>1
<1>6. CASE k # 1
  <2>1. k - 1 \in 1..m /\ ~(k - 1 \in Bad) /\ k \in Nat
    BY <1>3, <1>4, <1>6
  <2>2. PICK g : Joins(g, seqs, k - 1)
    BY <2>1 DEF Bad
  <2> DEFINE h == [i \in 1..k |-> IF i = k THEN g[k - 1] \o seqs[k] ELSE g[i]]
  <2>3. ASSUME NEW i \in 1..k
        PROVE  h[i] = IF i = 1 THEN seqs[i] ELSE h[i - 1] \o seqs[i]
    <3>1. CASE i = k
      <4>1. k - 1 \in 1..k /\ k - 1 # k
        BY <1>4, <1>6
      <4>2. h[k - 1] = g[k - 1]
        BY <4>1
      <4>3. h[k] = g[k - 1] \o seqs[k]
        <5>1. k \in 1..k
          BY <1>4
        <5> QED
          BY <5>1, Zenon
      <4> HIDE DEF h
      <4> QED
        BY <1>6, <3>1, <4>2, <4>3
    <3>2. CASE i # k /\ i # 1
      <4>1. i \in 1..(k - 1) /\ i - 1 \in 1..(k - 1) /\ i - 1 # k /\ i - 1 \in 1..k
        BY <1>4, <3>2
      <4>2. g[i] = g[i - 1] \o seqs[i]
        BY <2>2, <3>2, <4>1 DEF Joins
      <4>3. h[i] = g[i] /\ h[i - 1] = g[i - 1]
        BY <3>2, <4>1
      <4> HIDE DEF h
      <4> QED
        BY <3>2, <4>2, <4>3
    <3>3. CASE i # k /\ i = 1
      <4>1. 1 \in 1..(k - 1)
        BY <1>4, <3>3
      <4>2. g[1] = seqs[1]
        BY <2>2, <4>1 DEF Joins
      <4>3. h[i] = g[i]
        BY <3>3
      <4> HIDE DEF h
      <4> QED
        BY <3>3, <4>2, <4>3
    <3> QED
      BY <3>1, <3>2, <3>3
  <2>4. Joins(h, seqs, k)
    <3>1. h = [i \in 1..k |-> h[i]]
      OBVIOUS
    <3> HIDE DEF h
    <3> QED
      BY <2>3, <3>1 DEF Joins
  <2> HIDE DEF h
  <2> QED
    BY <1>4, <2>4
<1> QED
  BY <1>5, <1>6

LEMMA JoinsLaid ==
  ASSUME NEW X, NEW m \in Nat, NEW seqs \in [1..m -> Seq(X)], NEW g, Joins(g, seqs, m),
         NEW n \in 1..m
  PROVE  g[n] \in Seq(X) /\ Laid(g[n], seqs, n)
<1> DEFINE Bad == {k \in 1..m : ~(g[k] \in Seq(X) /\ Laid(g[k], seqs, k))}
<1>1. SUFFICES ASSUME Bad # {} PROVE FALSE
  OBVIOUS
<1>2. Bad \in SUBSET Nat
  OBVIOUS
<1> HIDE DEF Bad
<1>3. PICK k \in Bad : \A i \in Bad : ~(i < k)
  BY <1>1, <1>2, Smallest
<1>4. k \in 1..m /\ ~(g[k] \in Seq(X) /\ Laid(g[k], seqs, k))
  BY <1>3 DEF Bad
<1>5. CASE k = 1
  <2>1. g[1] = seqs[1]
    BY <1>4, <1>5 DEF Joins
  <2>2. << >> \o seqs[0 + 1] \in Seq(X) /\ Laid(<< >> \o seqs[0 + 1], seqs, 0 + 1)
    <3>1. << >> \in Seq(X) /\ 0 \in Nat /\ 0 + 1 \in 1..m
      BY <1>4, <1>5
    <3> QED
      BY <3>1, LaidNone, LaidNext
  <2>3. << >> \o seqs[1] = seqs[1]
    BY <1>4, <1>5
  <2> QED
    BY <1>4, <1>5, <2>1, <2>2, <2>3
<1>6. CASE k # 1
  <2>1. k - 1 \in 1..m /\ ~(k - 1 \in Bad) /\ k - 1 \in Nat /\ (k - 1) + 1 = k
    BY <1>3, <1>4, <1>6
  <2>2. g[k - 1] \in Seq(X) /\ Laid(g[k - 1], seqs, k - 1)
    BY <2>1 DEF Bad
  <2>3. g[k] = g[k - 1] \o seqs[k]
    BY <1>4, <1>6 DEF Joins
  <2>4. g[k - 1] \o seqs[(k - 1) + 1] \in Seq(X)
        /\ Laid(g[k - 1] \o seqs[(k - 1) + 1], seqs, (k - 1) + 1)
    BY <1>4, <2>1, <2>2, LaidNext
  <2> QED
    BY <1>4, <2>1, <2>3, <2>4
<1> QED
  BY <1>5, <1>6

LEMMA FlattenLaid ==
  ASSUME NEW X, NEW m \in Nat \ {0}, NEW seqs \in [1..m -> Seq(X)]
  PROVE  FlattenSeq(seqs) \in Seq(X) /\ Laid(FlattenSeq(seqs), seqs, m)
<1>1. Len(seqs) = m
  OBVIOUS
<1> DEFINE g == CHOOSE h : Joins(h, seqs, m)
<1>2. Joins(g, seqs, m)
  <2>1. m \in 1..m
    OBVIOUS
  <2>2. \E h : Joins(h, seqs, m)
    BY <2>1, JoinsExist
  <2> QED
    BY <2>2
<1>3. FlattenSeq(seqs) = g[m]
  <2>1. ~(Len(seqs) = 0)
    BY <1>1
  <2> QED
    BY <1>1, <2>1 DEF FlattenSeq, Joins
<1> HIDE DEF g
<1> QED
  BY <1>2, <1>3, JoinsLaid

(* Steps *)

IsStep(s) ==
  s = [op |-> s.op, capability |-> s.capability, name |-> s.name, spec |-> s.spec,
       explicit |-> s.explicit, reads |-> s.reads, needs |-> s.needs, given |-> s.given,
       publishes |-> s.publishes]

\* The steps differ in what they are told, read or publish only.
Alike(s, r) ==
  s.op = r.op /\ s.capability = r.capability /\ s.name = r.name /\ s.spec = r.spec

LEMMA OverIs ==
  ASSUME NEW f, NEW g
  PROVE  /\ DOMAIN Over(f, g) = DOMAIN f \cup DOMAIN g
         /\ \A k \in DOMAIN f : Over(f, g)[k] = f[k]
         /\ \A k \in DOMAIN g : k \notin DOMAIN f => Over(f, g)[k] = g[k]
BY DEF Over

LEMMA WithIs ==
  ASSUME NEW f, NEW k, NEW v
  PROVE  /\ DOMAIN With(f, k, v) = DOMAIN f \cup {k}
         /\ With(f, k, v)[k] = v
         /\ \A x \in DOMAIN f : x # k => With(f, k, v)[x] = f[x]
BY DEF With

LEMMA WorkIs ==
  /\ IsStep(Work) /\ Work.op = "work" /\ Work.given = {}
  /\ DOMAIN Work.publishes = {} /\ DOMAIN Work.explicit = {}
<1> SUFFICES ASSUME NEW s, s = Work
             PROVE  /\ IsStep(s) /\ s.op = "work" /\ s.given = {}
                    /\ DOMAIN s.publishes = {} /\ DOMAIN s.explicit = {}
  OBVIOUS
<1> QED
  BY DEF Work, AnyStep, Nothing, IsStep

LEMMA LayerIs ==
  ASSUME NEW c, NEW n, NEW sp, NEW s, s = Layer(c, n, sp)
  PROVE  /\ IsStep(s) /\ s.op = "layer" /\ s.capability = c /\ s.name = n /\ s.spec = sp
         /\ DOMAIN s.explicit = {} /\ s.needs = {} /\ s.given = {}
         /\ DOMAIN s.publishes = sp.provides
<1> DEFINE pb == [k \in sp.provides |-> n]
<1>1. DOMAIN pb = sp.provides
  OBVIOUS
<1>2. s = [AnyStep EXCEPT !.op = "layer", !.capability = c, !.name = n, !.spec = sp,
                          !.publishes = pb]
  BY DEF Layer
<1> HIDE DEF pb
<1> QED
  BY <1>1, <1>2 DEF AnyStep, Nothing, IsStep

LEMMA ToldIs ==
  ASSUME NEW r, IsStep(r), NEW e, NEW s, s = Told(r, e)
  PROVE  /\ IsStep(s) /\ Alike(s, r) /\ s.explicit = e /\ s.needs = r.needs
         /\ s.given = r.given /\ s.publishes = r.publishes
BY DEF Told, IsStep, Alike

LEMMA ReadsIs ==
  ASSUME NEW r, IsStep(r), NEW ks, NEW s, s = Reads(r, ks)
  PROVE  /\ IsStep(s) /\ Alike(s, r) /\ s.explicit = r.explicit /\ s.needs = r.needs
         /\ s.given = r.given /\ s.publishes = r.publishes
BY DEF Reads, IsStep, Alike

LEMMA NamesIs ==
  ASSUME NEW r, IsStep(r), NEW ks, NEW s, s = Names(r, ks)
  PROVE  /\ IsStep(s) /\ Alike(s, r) /\ s.explicit = r.explicit /\ s.needs = ks
         /\ s.given = r.given /\ s.publishes = r.publishes
BY DEF Names, IsStep, Alike

LEMMA KeepsIs ==
  ASSUME NEW r, IsStep(r), NEW ks, NEW s, s = Keeps(r, ks)
  PROVE  /\ IsStep(s) /\ Alike(s, r) /\ s.explicit = r.explicit /\ s.needs = r.needs
         /\ s.given = r.given /\ DOMAIN s.publishes = ks \cup DOMAIN r.publishes
<1> DEFINE f == [k \in ks |-> r.name]
<1>1. s = [r EXCEPT !.publishes = Over(f, @)]
  BY DEF Keeps
<1> HIDE DEF f
<1>2. s = [r EXCEPT !.publishes = Over(f, r.publishes)]
  BY <1>1 DEF IsStep
<1>3. s.publishes = Over(f, r.publishes)
  BY <1>2 DEF IsStep
<1>4. /\ IsStep(s) /\ Alike(s, r) /\ s.explicit = r.explicit /\ s.needs = r.needs
      /\ s.given = r.given
  BY <1>2 DEF IsStep, Alike
<1>5. DOMAIN s.publishes = DOMAIN f \cup DOMAIN r.publishes
  <2>1. DOMAIN Over(f, r.publishes) = DOMAIN f \cup DOMAIN r.publishes
    BY OverIs, Zenon
  <2> QED
    BY <1>3, <2>1
<1>6. DOMAIN f = ks
  BY DEF f
<1> QED
  BY <1>4, <1>5, <1>6

LEMMA PublishIs ==
  ASSUME NEW e, NEW s, s = Publish(e)
  PROVE  IsStep(s) /\ s.op = "publish" /\ s.given = {} /\ s.publishes = e
BY DEF Publish, AnyStep, Nothing, IsStep

LEMMA SecretIs ==
  ASSUME NEW n, NEW ks, NEW s, s = Secret(n, ks)
  PROVE  IsStep(s) /\ s.op = "secret" /\ s.given = {} /\ DOMAIN s.publishes = {}
BY DEF Secret, AnyStep, Nothing, IsStep

LEMMA GivenIs ==
  ASSUME NEW ks, NEW f, NEW i \in DOMAIN f, IsStep(f[i]), NEW s, s = Given(ks, f)[i]
  PROVE  /\ IsStep(s) /\ Alike(s, f[i]) /\ s.explicit = f[i].explicit /\ s.needs = f[i].needs
         /\ s.given = f[i].given \cup ks /\ s.publishes = f[i].publishes
<1>1. s = [f[i] EXCEPT !.given = f[i].given \cup ks]
  BY DEF Given, IsStep
<1> QED
  BY <1>1 DEF IsStep, Alike

LEMMA GivenSeq ==
  ASSUME NEW ks, NEW f, NEW n \in Nat, DOMAIN f = 1..n, NEW Y,
         \A i \in 1..n : Given(ks, f)[i] \in Y
  PROVE  Given(ks, f) \in Seq(Y) /\ DOMAIN Given(ks, f) = 1..n
<1>1. DOMAIN Given(ks, f) = 1..n
  BY DEF Given
<1>2. Given(ks, f) = [i \in 1..n |-> Given(ks, f)[i]]
  BY DEF Given
<1> DEFINE g == Given(ks, f)
<1> HIDE DEF g
<1>3. g \in [1..n -> Y]
  BY <1>2 DEF g
<1> QED
  BY <1>1, <1>3 DEF g

(* What the steps of a script ask for *)

Capabilities ==
  DOMAIN CapabilityOutput \cup {"database-operator", "accelerator", "enricher"}

\* The capabilities that others require, and the names of their deployments.
Foundations ==
  [cluster |-> {"ai-cluster"}, storage |-> {"longhorn"}, cache |-> {"valkey"},
   database |-> {"admin-pg", "org-pg", "billing-pg", "pg"},
   ingress_gateway |-> {"metallb_istio"}]

Founding == {"cluster", "storage", "cache", "database", "ingress_gateway"}

NameFits(c, n) == \A f \in Founding : c = f <=> n \in Foundations[f]

StepFits(s) ==
  /\ IsStep(s) /\ s.op \in {"layer", "publish", "work", "secret"}
  /\ s.op = "layer" => s.capability \in Capabilities /\ NameFits(s.capability, s.name)
  /\ s.op = "secret" => DOMAIN s.publishes = {}
  /\ "kubeconfig_path" \notin DOMAIN s.publishes
  /\ "db_urls" \in DOMAIN s.publishes =>
       s.op = "layer" /\ s.capability = "database" /\ "database_url" \in DOMAIN s.publishes
  /\ "ingress_gateway_endpoint" \in DOMAIN s.publishes =>
       s.op = "layer" /\ s.capability = "ingress_gateway"

\* The keys without which build() refuses the step.
Demanded(s) ==
  {CapabilityOutput[c] : c \in s.spec.requires \cap DOMAIN CapabilityOutput}
    \cup (s.spec.required \ DOMAIN s.explicit) \cup s.needs

\* It demands no more than these keys, and requires these capabilities.
Asks(s, keys, capabilities) ==
  s.op = "layer" => Demanded(s) \subseteq keys /\ s.spec.requires \subseteq capabilities

Plain(s) == s.op = "layer" => s.capability # "cluster"

Fine(f, keys, capabilities) ==
  /\ \E Y : f \in Seq(Y)
  /\ \A b \in DOMAIN f : StepFits(f[b]) /\ Plain(f[b]) /\ Asks(f[b], keys, capabilities)

LEMMA Outputs ==
  /\ CapabilityOutput["cluster"] = "kubeconfig_path"
  /\ CapabilityOutput["storage"] = "storage_class"
  /\ CapabilityOutput["database"] = "database_url"
  /\ CapabilityOutput["cache"] = "cache_url"
  /\ CapabilityOutput["ingress_gateway"] = "ingress_gateway_endpoint"
BY DEF CapabilityOutput

LEMMA AllCapabilities ==
  {"cluster", "storage", "objectstore", "cache", "database", "inference", "policy", "gateway",
   "ingress_gateway", "route", "observability", "tokenizer", "controlplane", "portal",
   "billing", "queue", "database-operator", "accelerator", "enricher"} \subseteq Capabilities
BY DEF Capabilities, CapabilityOutput

\* What a layer demands, by what its specification requires.
LEMMA AsksBy ==
  ASSUME NEW s, s.spec.requires \subseteq Founding,
         NEW keys, NEW capabilities, s.spec.requires \subseteq capabilities,
         \A c \in s.spec.requires : CapabilityOutput[c] \in keys,
         s.spec.required \ DOMAIN s.explicit \subseteq keys, s.needs \subseteq keys
  PROVE  Asks(s, keys, capabilities)
BY DEF Asks, Demanded

LEMMA FineNone ==
  ASSUME NEW keys, NEW capabilities
  PROVE  Fine(<< >>, keys, capabilities)
<1>1. << >> \in Seq({})
  OBVIOUS
<1> QED
  BY <1>1 DEF Fine

LEMMA FineOne ==
  ASSUME NEW keys, NEW capabilities, NEW s,
         StepFits(s), Plain(s), Asks(s, keys, capabilities)
  PROVE  Fine(<<s>>, keys, capabilities)
<1>1. <<s>> \in Seq({s}) /\ \A b \in DOMAIN <<s>> : <<s>>[b] = s
  OBVIOUS
<1> QED
  BY <1>1 DEF Fine

LEMMA FineJoin ==
  ASSUME NEW keys, NEW capabilities, NEW f, NEW g,
         Fine(f, keys, capabilities), Fine(g, keys, capabilities)
  PROVE  Fine(f \o g, keys, capabilities)
<1>1. PICK Y : f \in Seq(Y)
  BY DEF Fine
<1>2. PICK Z : g \in Seq(Z)
  BY DEF Fine
<1>3. f \in Seq(Y \cup Z) /\ g \in Seq(Y \cup Z)
  BY <1>1, <1>2
<1>4. f \o g \in Seq(Y \cup Z)
  BY <1>3
<1>5. ASSUME NEW b \in DOMAIN (f \o g)
      PROVE  (\E i \in DOMAIN f : (f \o g)[b] = f[i]) \/ (\E i \in DOMAIN g : (f \o g)[b] = g[i])
  <2>1. /\ b \in 1..(Len(f) + Len(g)) /\ Len(f) \in Nat /\ Len(g) \in Nat
        /\ DOMAIN f = 1..Len(f) /\ DOMAIN g = 1..Len(g)
    BY <1>3
  <2>2. CASE b <= Len(f)
    BY <1>3, <2>1, <2>2
  <2>3. CASE ~(b <= Len(f))
    <3>1. b - Len(f) \in DOMAIN g /\ (f \o g)[b] = g[b - Len(f)]
      BY <1>3, <2>1, <2>3
    <3> QED
      BY <3>1
  <2> QED
    BY <2>2, <2>3
<1> HIDE DEF Fine
<1>6. ASSUME NEW b \in DOMAIN (f \o g)
      PROVE  StepFits((f \o g)[b]) /\ Plain((f \o g)[b]) /\ Asks((f \o g)[b], keys, capabilities)
  BY <1>5, Zenon DEF Fine
<1> QED
  BY <1>4, <1>6 DEF Fine

LEMMA FineGiven ==
  ASSUME NEW keys, NEW capabilities, NEW ks, NEW f, Fine(f, keys, capabilities)
  PROVE  Fine(Given(ks, f), keys, capabilities)
<1>1. PICK Y : f \in Seq(Y)
  BY DEF Fine
<1>2. DOMAIN f = 1..Len(f) /\ Len(f) \in Nat
  BY <1>1
<1> DEFINE Z == {Given(ks, f)[i] : i \in 1..Len(f)}
<1>3. \A i \in 1..Len(f) : Given(ks, f)[i] \in Z
  OBVIOUS
<1> HIDE DEF Z
<1>4. Given(ks, f) \in Seq(Z) /\ DOMAIN Given(ks, f) = 1..Len(f)
  BY <1>2, <1>3, GivenSeq
<1>5. ASSUME NEW b \in 1..Len(f)
      PROVE  /\ StepFits(Given(ks, f)[b]) /\ Plain(Given(ks, f)[b])
             /\ Asks(Given(ks, f)[b], keys, capabilities)
  <2>1. StepFits(f[b]) /\ Plain(f[b]) /\ Asks(f[b], keys, capabilities)
    BY <1>2 DEF Fine
  <2>2. SUFFICES ASSUME NEW s, s = Given(ks, f)[b]
                 PROVE  StepFits(s) /\ Plain(s) /\ Asks(s, keys, capabilities)
    OBVIOUS
  <2>3. /\ IsStep(s) /\ Alike(s, f[b]) /\ s.explicit = f[b].explicit /\ s.needs = f[b].needs
        /\ s.publishes = f[b].publishes
    BY <1>2, <2>1, <2>2, GivenIs DEF StepFits
  <2> QED
    BY <2>1, <2>3 DEF StepFits, Plain, Asks, Demanded, Alike
<1> QED
  BY <1>4, <1>5 DEF Fine

(* The stages *)

Good(s, keys, capabilities) == StepFits(s) /\ Plain(s) /\ Asks(s, keys, capabilities)

\* What a specification needs for its layer to be one of a script's steps.
Sound(sp, c, keys, capabilities) ==
  /\ c \in Capabilities \ {"cluster"}
  /\ {"kubeconfig_path", "db_urls"} \cap sp.provides = {}
  /\ "ingress_gateway_endpoint" \in sp.provides => c = "ingress_gateway"
  /\ sp.requires \subseteq Founding \cap capabilities
  /\ \A r \in sp.requires : CapabilityOutput[r] \in keys

\* A layer with what it was told and what it publishes.
IsLayer(s, c, n, sp, told, needs, publishes) ==
  /\ IsStep(s) /\ s.op = "layer" /\ s.capability = c /\ s.name = n /\ s.spec = sp
  /\ DOMAIN s.explicit = told /\ s.needs = needs /\ s.given = {}
  /\ DOMAIN s.publishes = publishes

LEMMA GoodLayer ==
  ASSUME NEW s, NEW c, NEW n, NEW sp, NEW told, NEW needs, NEW kept,
         IsLayer(s, c, n, sp, told, needs, kept \cup sp.provides),
         NEW keys, NEW capabilities, Sound(sp, c, keys, capabilities), NameFits(c, n),
         sp.required \ told \subseteq keys, needs \subseteq keys,
         {"kubeconfig_path", "ingress_gateway_endpoint"} \cap kept = {},
         "db_urls" \in kept => c = "database" /\ "database_url" \in sp.provides
  PROVE  Good(s, keys, capabilities)
<1>1. Asks(s, keys, capabilities)
  BY DEF Sound, IsLayer, Asks, Demanded
<1>2. StepFits(s)
  <2>1. DOMAIN s.publishes = kept \cup sp.provides
    BY DEF IsLayer
  <2>2. IsStep(s) /\ s.op = "layer" /\ s.capability = c /\ s.name = n /\ c \in Capabilities
    BY DEF IsLayer, Sound
  <2>3. "kubeconfig_path" \notin DOMAIN s.publishes
    BY <2>1 DEF Sound
  <2>4. "db_urls" \in DOMAIN s.publishes =>
          s.capability = "database" /\ "database_url" \in DOMAIN s.publishes
    BY <2>1, <2>2 DEF Sound
  <2>5. "ingress_gateway_endpoint" \in DOMAIN s.publishes => s.capability = "ingress_gateway"
    BY <2>1, <2>2 DEF Sound
  <2> HIDE DEF NameFits
  <2> QED
    BY <2>2, <2>3, <2>4, <2>5 DEF StepFits
<1>3. Plain(s)
  BY DEF Sound, IsLayer, Plain
<1> QED
  BY <1>1, <1>2, <1>3 DEF Good

LEMMA GoodNaming ==
  ASSUME NEW s, NEW c, NEW n, NEW sp, NEW told, NEW needs, NEW keys, NEW capabilities,
         IsLayer(s, c, n, sp, told, needs, sp.provides),
         Sound(sp, c, keys, capabilities), NameFits(c, n), sp.required \ told \subseteq keys,
         needs \subseteq keys
  PROVE  Good(s, keys, capabilities)
<1>1. sp.provides = {} \cup sp.provides
  OBVIOUS
<1>2. IsLayer(s, c, n, sp, told, needs, {} \cup sp.provides)
  BY <1>1
<1>3. /\ "db_urls" \notin {}
      /\ {"kubeconfig_path", "ingress_gateway_endpoint"} \cap {} = {}
  OBVIOUS
<1> QED
  BY <1>2, <1>3, GoodLayer, Zenon

LEMMA GoodPlain ==
  ASSUME NEW s, NEW c, NEW n, NEW sp, NEW told, NEW keys, NEW capabilities,
         IsLayer(s, c, n, sp, told, {}, sp.provides),
         Sound(sp, c, keys, capabilities), NameFits(c, n), sp.required \ told \subseteq keys
  PROVE  Good(s, keys, capabilities)
<1>1. {} \subseteq keys
  OBVIOUS
<1> QED
  BY <1>1, GoodNaming

LEMMA IsLayerLayer ==
  ASSUME NEW c, NEW n, NEW sp
  PROVE  IsLayer(Layer(c, n, sp), c, n, sp, {}, {}, sp.provides)
BY LayerIs DEF IsLayer

LEMMA IsLayerTold ==
  ASSUME NEW s, NEW c, NEW n, NEW sp, NEW told, NEW nd, NEW pb, NEW e,
         IsLayer(s, c, n, sp, told, nd, pb)
  PROVE  IsLayer(Told(s, e), c, n, sp, DOMAIN e, nd, pb)
BY ToldIs DEF IsLayer, Alike

LEMMA IsLayerReads ==
  ASSUME NEW s, NEW c, NEW n, NEW sp, NEW told, NEW nd, NEW pb, NEW ks,
         IsLayer(s, c, n, sp, told, nd, pb)
  PROVE  IsLayer(Reads(s, ks), c, n, sp, told, nd, pb)
BY ReadsIs DEF IsLayer, Alike

LEMMA IsLayerNames ==
  ASSUME NEW s, NEW c, NEW n, NEW sp, NEW told, NEW nd, NEW pb, NEW ks,
         IsLayer(s, c, n, sp, told, nd, pb)
  PROVE  IsLayer(Names(s, ks), c, n, sp, told, ks, pb)
BY NamesIs DEF IsLayer, Alike

LEMMA IsLayerKeeps ==
  ASSUME NEW s, NEW c, NEW n, NEW sp, NEW told, NEW nd, NEW pb, NEW ks,
         IsLayer(s, c, n, sp, told, nd, pb)
  PROVE  IsLayer(Keeps(s, ks), c, n, sp, told, nd, ks \cup pb)
BY KeepsIs DEF IsLayer, Alike

LEMMA GoodWork ==
  ASSUME NEW keys, NEW capabilities
  PROVE  Good(Work, keys, capabilities)
BY WorkIs DEF Good, StepFits, Plain, Asks

LEMMA GoodSecret ==
  ASSUME NEW keys, NEW capabilities, NEW n, NEW ks
  PROVE  Good(Secret(n, ks), keys, capabilities)
<1>1. PICK s : s = Secret(n, ks)
  OBVIOUS
<1>2. IsStep(s) /\ s.op = "secret" /\ s.given = {} /\ DOMAIN s.publishes = {}
  BY <1>1, SecretIs
<1> QED
  BY <1>1, <1>2 DEF Good, StepFits, Plain, Asks

LEMMA GoodPublish ==
  ASSUME NEW keys, NEW capabilities, NEW e,
         {"kubeconfig_path", "db_urls", "ingress_gateway_endpoint"} \cap DOMAIN e = {}
  PROVE  Good(Publish(e), keys, capabilities)
<1>1. PICK s : s = Publish(e)
  OBVIOUS
<1>2. IsStep(s) /\ s.op = "publish" /\ s.given = {} /\ s.publishes = e
  BY <1>1, PublishIs
<1> QED
  BY <1>1, <1>2 DEF Good, StepFits, Plain, Asks

LEMMA FineSingle ==
  ASSUME NEW keys, NEW capabilities, NEW s, Good(s, keys, capabilities)
  PROVE  Fine(<<s>>, keys, capabilities)
<1>1. StepFits(s) /\ Plain(s) /\ Asks(s, keys, capabilities)
  BY DEF Good
<1> QED
  BY <1>1, FineOne

LEMMA FineTwo ==
  ASSUME NEW keys, NEW capabilities, NEW s, NEW t,
         Good(s, keys, capabilities), Good(t, keys, capabilities)
  PROVE  Fine(<<s, t>>, keys, capabilities)
<1>1. <<s, t>> \in Seq({s, t})
  OBVIOUS
<1>2. ASSUME NEW b \in DOMAIN <<s, t>>
      PROVE  <<s, t>>[b] = s \/ <<s, t>>[b] = t
  <2>1. b = 1 \/ b = 2
    OBVIOUS
  <2> QED
    BY <2>1
<1> QED
  BY <1>1, <1>2, Zenon DEF Fine, Good

LEMMA FineThree ==
  ASSUME NEW keys, NEW capabilities, NEW s, NEW t, NEW u,
         Good(s, keys, capabilities), Good(t, keys, capabilities), Good(u, keys, capabilities)
  PROVE  Fine(<<s, t, u>>, keys, capabilities)
<1>1. <<s, t, u>> = <<s>> \o <<t, u>>
  OBVIOUS
<1>2. Fine(<<s>>, keys, capabilities) /\ Fine(<<t, u>>, keys, capabilities)
  BY FineSingle, FineTwo
<1>3. Fine(<<s>> \o <<t, u>>, keys, capabilities)
  BY <1>2, FineJoin
<1> QED
  BY <1>1, <1>3

LEMMA FineFour ==
  ASSUME NEW keys, NEW capabilities, NEW s, NEW t, NEW u, NEW v,
         Good(s, keys, capabilities), Good(t, keys, capabilities), Good(u, keys, capabilities),
         Good(v, keys, capabilities)
  PROVE  Fine(<<s, t, u, v>>, keys, capabilities)
<1>1. <<s, t, u, v>> = <<s>> \o <<t, u, v>>
  OBVIOUS
<1>2. Fine(<<s>>, keys, capabilities) /\ Fine(<<t, u, v>>, keys, capabilities)
  BY FineSingle, FineThree
<1>3. Fine(<<s>> \o <<t, u, v>>, keys, capabilities)
  BY <1>2, FineJoin
<1> QED
  BY <1>1, <1>3

(* What each stage of examples/full_stack.py asks of those before it *)

KeysOf(stage) ==
  {"kubeconfig_path"}
    \cup (IF stage \in {"objectstore", "queue", "observability"} THEN {"storage_class"} ELSE {})
    \cup (IF stage = "inference" THEN {"s3_endpoint_url", "s3_secret_name"} ELSE {})
    \cup (IF stage \in {"policy", "controlplane"} THEN {"cache_url"} ELSE {})
    \cup (IF stage = "gateway" THEN {"api_key_secret"} ELSE {})
    \cup (IF stage \in {"billing", "controlplane"} THEN {"database_url"} ELSE {})
    \cup (IF stage = "route" THEN {"ingress_gateway_endpoint"} ELSE {})

CapabilitiesOf(stage) ==
  {"cluster"}
    \cup (IF stage \in {"objectstore", "queue", "observability"} THEN {"storage"} ELSE {})
    \cup (IF stage = "controlplane" THEN {"cache"} ELSE {})
    \cup (IF stage \in {"billing", "controlplane"} THEN {"database"} ELSE {})
    \cup (IF stage = "route" THEN {"ingress_gateway"} ELSE {})

LEMMA IngressFine ==
  Fine(stage_ingress, KeysOf("ingress"), CapabilitiesOf("ingress"))
<1> DEFINE K == KeysOf("ingress")
           C == CapabilitiesOf("ingress")
<1>1. Sound(IngressGateway, "ingress_gateway", K, C) /\ NameFits("ingress_gateway", "metallb_istio")
  BY Outputs, AllCapabilities
  DEF Sound, IngressGateway, Declares, Founding, Foundations, NameFits, KeysOf, CapabilitiesOf
<1>2. IngressGateway.required \ {} \subseteq K
  BY DEF IngressGateway, Declares, KeysOf
<1> HIDE DEF K, C
<1>3. Good(Layer("ingress_gateway", "metallb_istio", IngressGateway), K, C)
  BY <1>1, <1>2, IsLayerLayer, GoodPlain
<1> QED
  BY <1>3, FineSingle, FineGiven DEF stage_ingress, K, C

LEMMA AcceleratorFine ==
  Fine(stage_accelerator, KeysOf("accelerator"), CapabilitiesOf("accelerator"))
<1> DEFINE K == KeysOf("accelerator")
           C == CapabilitiesOf("accelerator")
<1>1. Sound(Accelerator, "accelerator", K, C) /\ NameFits("accelerator", "nvidia_device_plugin")
  BY Outputs, AllCapabilities
  DEF Sound, Accelerator, Declares, Founding, Foundations, NameFits, KeysOf, CapabilitiesOf
<1>2. Accelerator.required \ {} \subseteq K
  BY DEF Accelerator, Declares, KeysOf
<1> HIDE DEF K, C
<1>3. Good(Layer("accelerator", "nvidia_device_plugin", Accelerator), K, C)
  BY <1>1, <1>2, IsLayerLayer, GoodPlain
<1> QED
  BY <1>3, GoodWork, FineTwo, FineGiven DEF stage_accelerator, K, C

LEMMA StorageFine ==
  Fine(stage_storage, KeysOf("storage"), CapabilitiesOf("storage"))
<1> DEFINE K == KeysOf("storage")
           C == CapabilitiesOf("storage")
<1>1. Sound(Storage, "storage", K, C) /\ NameFits("storage", "longhorn")
  BY Outputs, AllCapabilities
  DEF Sound, Storage, Declares, Founding, Foundations, NameFits, KeysOf, CapabilitiesOf
<1>2. Storage.required \ {} \subseteq K
  BY DEF Storage, Declares, KeysOf
<1> HIDE DEF K, C
<1>3. Good(Layer("storage", "longhorn", Storage), K, C)
  BY <1>1, <1>2, IsLayerLayer, GoodPlain
<1> QED
  BY <1>3, GoodWork, FineTwo DEF stage_storage, K, C

LEMMA InferenceFine ==
  Fine(stage_inference, KeysOf("inference"), CapabilitiesOf("inference"))
<1> DEFINE K == KeysOf("inference")
           C == CapabilitiesOf("inference")
<1>1. Sound(Inference, "inference", K, C) /\ NameFits("inference", "vllm-qwen")
  BY Outputs, AllCapabilities
  DEF Sound, Inference, Declares, Founding, Foundations, NameFits, KeysOf, CapabilitiesOf
<1>2. Inference.required \ {} \subseteq K
  BY DEF Inference, Declares, KeysOf
<1> HIDE DEF K, C
<1>3. Good(Layer("inference", "vllm-qwen", Inference), K, C)
  BY <1>1, <1>2, IsLayerLayer, GoodPlain
<1> QED
  BY <1>3, GoodWork, FineTwo DEF stage_inference, K, C

LEMMA TokenizerFine ==
  Fine(stage_tokenizer, KeysOf("tokenizer"), CapabilitiesOf("tokenizer"))
<1> DEFINE K == KeysOf("tokenizer")
           C == CapabilitiesOf("tokenizer")
<1>1. Sound(Tokenizer, "tokenizer", K, C) /\ NameFits("tokenizer", "tiktoken")
  BY Outputs, AllCapabilities
  DEF Sound, Tokenizer, Declares, Founding, Foundations, NameFits, KeysOf, CapabilitiesOf
<1>2. Tokenizer.required \ {} \subseteq K
  BY DEF Tokenizer, Declares, KeysOf
<1> HIDE DEF K, C
<1>3. Good(Layer("tokenizer", "tiktoken", Tokenizer), K, C)
  BY <1>1, <1>2, IsLayerLayer, GoodPlain
<1> QED
  BY <1>3, FineSingle DEF stage_tokenizer, K, C

LEMMA QueueFine ==
  Fine(stage_queue, KeysOf("queue"), CapabilitiesOf("queue"))
<1> DEFINE K == KeysOf("queue")
           C == CapabilitiesOf("queue")
<1>1. Sound(Queue, "queue", K, C) /\ NameFits("queue", "nats")
  BY Outputs, AllCapabilities
  DEF Sound, Queue, Declares, Founding, Foundations, NameFits, KeysOf, CapabilitiesOf
<1>2. Queue.required \ {} \subseteq K
  BY DEF Queue, Declares, KeysOf
<1> HIDE DEF K, C
<1>3. Good(Layer("queue", "nats", Queue), K, C)
  BY <1>1, <1>2, IsLayerLayer, GoodPlain
<1> QED
  BY <1>3, FineSingle DEF stage_queue, K, C

LEMMA ObservabilityFine ==
  Fine(stage_observability, KeysOf("observability"), CapabilitiesOf("observability"))
<1> DEFINE K == KeysOf("observability")
           C == CapabilitiesOf("observability")
<1>1. /\ Sound(Observability, "observability", K, C)
      /\ NameFits("observability", "kube_prometheus_stack")
  BY Outputs, AllCapabilities
  DEF Sound, Observability, Declares, Founding, Foundations, NameFits, KeysOf, CapabilitiesOf
<1>2. Observability.required \ {} \subseteq K
  BY DEF Observability, Declares, KeysOf
<1> HIDE DEF K, C
<1>3. Good(Layer("observability", "kube_prometheus_stack", Observability), K, C)
  BY <1>1, <1>2, IsLayerLayer, GoodPlain
<1> QED
  BY <1>3, FineSingle DEF stage_observability, K, C

LEMMA WeightsFine ==
  Fine(stage_weights, KeysOf("weights"), CapabilitiesOf("weights"))
<1> DEFINE K == KeysOf("weights")
           C == CapabilitiesOf("weights")
<1> HIDE DEF K, C
<1> QED
  BY GoodWork, FineSingle DEF stage_weights, K, C

LEMMA RegistryFine ==
  Fine(stage_registry, KeysOf("registry"), CapabilitiesOf("registry"))
<1> DEFINE K == KeysOf("registry")
           C == CapabilitiesOf("registry")
<1> HIDE DEF K, C
<1> QED
  BY GoodWork, FineSingle, FineGiven DEF stage_registry, K, C

LEMMA ObjectstoreFine ==
  Fine(stage_objectstore, KeysOf("objectstore"), CapabilitiesOf("objectstore"))
<1> DEFINE K == KeysOf("objectstore")
           C == CapabilitiesOf("objectstore")
<1>1. Sound(MinIOTenant, "objectstore", K, C) /\ NameFits("objectstore", "minio-test")
  BY Outputs, AllCapabilities
  DEF Sound, MinIOTenant, Declares, Founding, Foundations, NameFits, KeysOf, CapabilitiesOf
<1>2. MinIOTenant.required \ {} \subseteq K
  BY DEF MinIOTenant, Declares, KeysOf
<1> HIDE DEF K, C
<1>3. Good(Layer("objectstore", "minio-test", MinIOTenant), K, C)
  BY <1>1, <1>2, IsLayerLayer, GoodPlain
<1>4. Good(Publish([storage_class |-> "longhorn"]), K, C)
  BY GoodPublish
<1>5. Good(Publish([s3_secret_name |-> "minio-creds"]), K, C)
  BY GoodPublish
<1> QED
  BY <1>3, <1>4, <1>5, GoodSecret, FineFour DEF stage_objectstore, K, C

LEMMA CacheFine ==
  Fine(stage_cache, KeysOf("cache"), CapabilitiesOf("cache"))
<1> DEFINE K == KeysOf("cache")
           C == CapabilitiesOf("cache")
<1>1. Sound(Cache, "cache", K, C) /\ NameFits("cache", "valkey")
  BY Outputs, AllCapabilities
  DEF Sound, Cache, Declares, Founding, Foundations, NameFits, KeysOf, CapabilitiesOf
<1>2. Cache.required \ {} \subseteq K
  BY DEF Cache, Declares, KeysOf
<1> HIDE DEF K, C
<1> DEFINE s == Keeps(Layer("cache", "valkey", Cache), {"cache_auth_url"})
<1>3. IsLayer(s, "cache", "valkey", Cache, {}, {}, {"cache_auth_url"} \cup Cache.provides)
  BY IsLayerLayer, IsLayerKeeps
<1> HIDE DEF s
<1>4. /\ {"kubeconfig_path", "ingress_gateway_endpoint"} \cap {"cache_auth_url"} = {}
      /\ "db_urls" \notin {"cache_auth_url"} /\ {} \subseteq K
  OBVIOUS
<1>5. Good(s, K, C)
  BY <1>1, <1>2, <1>3, <1>4, GoodLayer, Zenon
<1> QED
  BY <1>5, GoodSecret, FineTwo DEF stage_cache, K, C, s

LEMMA DatabaseForFine ==
  ASSUME NEW component \in Foundations.database
  PROVE  Fine(DatabaseFor(component), KeysOf("database"), CapabilitiesOf("database"))
<1> DEFINE K == KeysOf("database")
           C == CapabilitiesOf("database")
<1>1. /\ Sound(DatabaseOperator, "database-operator", K, C)
      /\ NameFits("database-operator", "cnpg-operator")
  BY Outputs, AllCapabilities
  DEF Sound, DatabaseOperator, Declares, Founding, Foundations, NameFits, KeysOf, CapabilitiesOf
<1>2. Sound(Database, "database", K, C) /\ NameFits("database", component)
  BY Outputs, AllCapabilities
  DEF Sound, Database, Declares, Founding, Foundations, NameFits, KeysOf, CapabilitiesOf
<1>3. /\ DatabaseOperator.required \ {} \subseteq K /\ Database.required \ {} \subseteq K
      /\ "database_url" \in Database.provides
  BY DEF DatabaseOperator, Database, Declares, KeysOf
<1> HIDE DEF K, C
<1>4. Good(Layer("database-operator", "cnpg-operator", DatabaseOperator), K, C)
  BY <1>1, <1>3, IsLayerLayer, GoodPlain
<1> DEFINE s == Keeps(Layer("database", component, Database), {"db_urls"})
<1>5. IsLayer(s, "database", component, Database, {}, {}, {"db_urls"} \cup Database.provides)
  BY IsLayerLayer, IsLayerKeeps
<1> HIDE DEF s
<1>6. /\ {"kubeconfig_path", "ingress_gateway_endpoint"} \cap {"db_urls"} = {}
      /\ {} \subseteq K
  OBVIOUS
<1>7. Good(s, K, C)
  BY <1>2, <1>3, <1>5, <1>6, GoodLayer, Zenon
<1> QED
  BY <1>4, <1>7, FineTwo DEF DatabaseFor, K, C, s

LEMMA DatabaseFine ==
  Fine(stage_database, KeysOf("database"), CapabilitiesOf("database"))
<1> DEFINE K == KeysOf("database")
           C == CapabilitiesOf("database")
<1>1. {"admin-pg", "org-pg", "billing-pg"} \subseteq Foundations.database
  BY DEF Foundations
<1> HIDE DEF K, C
<1>2. /\ Fine(DatabaseFor("admin-pg"), K, C) /\ Fine(DatabaseFor("org-pg"), K, C)
      /\ Fine(DatabaseFor("billing-pg"), K, C)
  BY <1>1, DatabaseForFine DEF K, C
<1> QED
  BY <1>2, FineJoin DEF stage_database, K, C

LEMMA EnricherFine ==
  Fine(stage_enricher, KeysOf("enricher"), CapabilitiesOf("enricher"))
<1> DEFINE K == KeysOf("enricher")
           C == CapabilitiesOf("enricher")
<1>1. Sound(Enricher, "enricher", K, C) /\ NameFits("enricher", "enricher")
  BY Outputs, AllCapabilities
  DEF Sound, Enricher, Declares, Founding, Foundations, NameFits, KeysOf, CapabilitiesOf
<1>2. Enricher.required \ {} \subseteq K
  BY DEF Enricher, Declares, KeysOf
<1> HIDE DEF K, C
<1> DEFINE s == Reads(Layer("enricher", "enricher", Enricher), {"event_backbone_url",
     "tokenizer_url"})
<1>3. IsLayer(s, "enricher", "enricher", Enricher, {}, {}, Enricher.provides)
  BY IsLayerLayer, IsLayerReads
<1> HIDE DEF s
<1>4. Good(s, K, C)
  BY <1>1, <1>2, <1>3, GoodPlain
<1> QED
  BY <1>4, FineSingle DEF stage_enricher, K, C, s

LEMMA BillingFine ==
  Fine(stage_billing, KeysOf("billing"), CapabilitiesOf("billing"))
<1> DEFINE K == KeysOf("billing")
           C == CapabilitiesOf("billing")
<1>1. Sound(Billing, "billing", K, C) /\ NameFits("billing", "stripe")
  BY Outputs, AllCapabilities
  DEF Sound, Billing, Declares, Founding, Foundations, NameFits, KeysOf, CapabilitiesOf
<1>2. Billing.required \ {} \subseteq K
  BY DEF Billing, Declares, KeysOf
<1> HIDE DEF K, C
<1> DEFINE s == Reads(Layer("billing", "stripe", Billing), {"event_backbone_url"})
<1>3. IsLayer(s, "billing", "stripe", Billing, {}, {}, Billing.provides)
  BY IsLayerLayer, IsLayerReads
<1> HIDE DEF s
<1>4. Good(s, K, C)
  BY <1>1, <1>2, <1>3, GoodPlain
<1> QED
  BY <1>4, GoodSecret, FineTwo, FineGiven DEF stage_billing, K, C, s

LEMMA PolicyStepGood ==
  ASSUME NEW type \in {"rpm", "tpm"}, NEW key \in {"rpm_endpoint", "tpm_endpoint"}
  PROVE  Good(Keeps(Reads(Layer("policy", type, Policy), {"cache_auth_url"}), {key}),
              KeysOf("policy"), CapabilitiesOf("policy"))
<1> DEFINE K == KeysOf("policy")
           C == CapabilitiesOf("policy")
<1>1. Sound(Policy, "policy", K, C) /\ NameFits("policy", type)
  BY Outputs, AllCapabilities
  DEF Sound, Policy, Declares, Founding, Foundations, NameFits, KeysOf, CapabilitiesOf
<1>2. Policy.required \ {} \subseteq K
  BY DEF Policy, Declares, KeysOf
<1> HIDE DEF K, C
<1> DEFINE r == Reads(Layer("policy", type, Policy), {"cache_auth_url"})
           s == Keeps(r, {key})
<1>3. IsLayer(r, "policy", type, Policy, {}, {}, Policy.provides)
  BY IsLayerLayer, IsLayerReads
<1> HIDE DEF r
<1>4. IsLayer(s, "policy", type, Policy, {}, {}, {key} \cup Policy.provides)
  BY <1>3, IsLayerKeeps
<1> HIDE DEF s
<1>5. {"kubeconfig_path", "ingress_gateway_endpoint"} \cap {key} = {} /\ "db_urls" \notin {key}
  OBVIOUS
<1>6. Good(s, K, C)
  BY <1>1, <1>2, <1>4, <1>5, GoodLayer
<1> QED
  BY <1>6 DEF K, C, r, s

LEMMA PolicyFine ==
  Fine(stage_policy, KeysOf("policy"), CapabilitiesOf("policy"))
<1> DEFINE K == KeysOf("policy")
           C == CapabilitiesOf("policy")
<1> HIDE DEF K, C
<1> QED
  BY PolicyStepGood, FineTwo DEF stage_policy, K, C

LEMMA GatewayFine ==
  Fine(stage_gateway, KeysOf("gateway"), CapabilitiesOf("gateway"))
<1> DEFINE K == KeysOf("gateway")
           C == CapabilitiesOf("gateway")
<1>1. Sound(Gateway, "gateway", K, C) /\ NameFits("gateway", "modelgateway")
  BY Outputs, AllCapabilities
  DEF Sound, Gateway, Declares, Founding, Foundations, NameFits, KeysOf, CapabilitiesOf
<1> DEFINE e == [org_cp_internal_url |-> "organization", inference_endpoint |-> "vllm-qwen"]
           r == Told(Layer("gateway", "modelgateway", Gateway), e)
           s == Reads(r, {"rpm_endpoint", "tpm_endpoint"})
<1>2. Gateway.required \ DOMAIN e \subseteq K
  BY DEF Gateway, Declares, KeysOf
<1> HIDE DEF K, C, e
<1>3. IsLayer(r, "gateway", "modelgateway", Gateway, DOMAIN e, {}, Gateway.provides)
  BY IsLayerLayer, IsLayerTold
<1> HIDE DEF r
<1>4. IsLayer(s, "gateway", "modelgateway", Gateway, DOMAIN e, {}, Gateway.provides)
  BY <1>3, IsLayerReads
<1> HIDE DEF s
<1>5. Good(s, K, C)
  BY <1>1, <1>2, <1>4, GoodPlain
<1>6. Good(Publish([api_key_secret |-> "gateway-keys"]), K, C)
  BY GoodPublish
<1> QED
  BY <1>5, <1>6, GoodSecret, FineThree DEF stage_gateway, K, C, e, r, s

LEMMA ControlPlaneOfFine ==
  ASSUME NEW type \in {"admin", "organization"}
  PROVE  Fine(ControlPlaneOf(type), KeysOf("controlplane"), CapabilitiesOf("controlplane"))
<1> DEFINE K == KeysOf("controlplane")
           C == CapabilitiesOf("controlplane")
<1>1. Sound(ControlPlane, "controlplane", K, C) /\ NameFits("controlplane", type)
  BY Outputs, AllCapabilities
  DEF Sound, ControlPlane, Declares, Founding, Foundations, NameFits, KeysOf, CapabilitiesOf
<1>2. ControlPlane.required \ {} \subseteq K
  BY DEF ControlPlane, Declares, KeysOf
<1> HIDE DEF K, C
<1> DEFINE s == Reads(Layer("controlplane", type, ControlPlane), {"billing_endpoint"})
<1>3. IsLayer(s, "controlplane", type, ControlPlane, {}, {}, ControlPlane.provides)
  BY IsLayerLayer, IsLayerReads
<1> HIDE DEF s
<1>4. Good(s, K, C)
  BY <1>1, <1>2, <1>3, GoodPlain
<1> QED
  BY <1>4, GoodSecret, FineTwo DEF ControlPlaneOf, K, C, s

LEMMA ControlplaneFine ==
  Fine(stage_controlplane, KeysOf("controlplane"), CapabilitiesOf("controlplane"))
<1> DEFINE K == KeysOf("controlplane")
           C == CapabilitiesOf("controlplane")
<1> HIDE DEF K, C
<1>1. Fine(ControlPlaneOf("admin") \o ControlPlaneOf("organization"), K, C)
  BY ControlPlaneOfFine, FineJoin DEF K, C
<1> QED
  BY <1>1, FineGiven DEF stage_controlplane, K, C

LEMMA PortalFine ==
  Fine(stage_portal, KeysOf("portal"), CapabilitiesOf("portal"))
<1> DEFINE K == KeysOf("portal")
           C == CapabilitiesOf("portal")
<1> DEFINE Of(type) == Told(Layer("portal", type, Portal), [controlplane_endpoint |-> type])
<1>1. ASSUME NEW type \in {"admin", "organization"}
      PROVE  Good(Of(type), K, C)
  <2> DEFINE e == [controlplane_endpoint |-> type]
             s == Told(Layer("portal", type, Portal), e)
  <2>1. Sound(Portal, "portal", K, C) /\ NameFits("portal", type)
    BY Outputs, AllCapabilities
    DEF Sound, Portal, Declares, Founding, Foundations, NameFits, KeysOf, CapabilitiesOf
  <2>2. Portal.required \ DOMAIN e \subseteq K
    BY DEF Portal, Declares, KeysOf
  <2> HIDE DEF K, C, e
  <2>3. IsLayer(s, "portal", type, Portal, DOMAIN e, {}, Portal.provides)
    BY IsLayerLayer, IsLayerTold
  <2> HIDE DEF s
  <2>4. Good(s, K, C)
    BY <2>1, <2>2, <2>3, GoodPlain
  <2> QED
    BY <2>4 DEF s, e
<1>2. stage_portal = <<Of("admin"), Of("organization")>>
  BY DEF stage_portal
<1> HIDE DEF Of, K, C
<1> QED
  BY <1>1, <1>2, FineTwo DEF K, C

LEMMA RouteFine ==
  Fine(stage_route, KeysOf("route"), CapabilitiesOf("route"))
<1> DEFINE K == KeysOf("route")
           C == CapabilitiesOf("route")
<1>1. ASSUME NEW name \in {"model-gateway", "admin-portal", "organization-portal"}
      PROVE  Good(Layer("route", name, Route), K, C)
  <2>1. Sound(Route, "route", K, C) /\ NameFits("route", name)
    BY Outputs, AllCapabilities
    DEF Sound, Route, Declares, Founding, Foundations, NameFits, KeysOf, CapabilitiesOf
  <2>2. Route.required \ {} \subseteq K
    BY DEF Route, Declares, KeysOf
  <2> HIDE DEF K, C
  <2> QED
    BY <2>1, <2>2, IsLayerLayer, GoodPlain
<1> HIDE DEF K, C
<1>2. Fine(<<Work, Layer("route", "model-gateway", Route), Layer("route", "admin-portal", Route),
             Layer("route", "organization-portal", Route)>>, K, C)
  BY <1>1, GoodWork, FineFour
<1> QED
  BY <1>2, FineGiven DEF stage_route, K, C

(* What a script must be for its run to need nothing else *)

Anytime(s) == s.given = {}

\* Another step, always taken, publishes the key, or makes the capability.
Supplies(s, key) == Anytime(s) /\ key \in DOMAIN s.publishes
Makes(s, c) == Anytime(s) /\ s.op = "layer" /\ s.capability = c

\* The step is taken only after the database, or the gateway, was made.
WithDatabase(s) == "db_urls" \in s.given
WithIngress(s) == "ingress_gateway_endpoint" \in s.given

\* Stands, among the keys, for a storage class that nothing will publish.
NoClass == "no storage class"

KeyCovered(s, key, keys) ==
  \/ key \in keys \ {NoClass}
  \/ NoClass \in keys /\ key = "storage_class" /\ "storage" \in s.spec.requires
  \/ key = "database_url" /\ WithDatabase(s)
  \/ key = "ingress_gateway_endpoint" /\ WithIngress(s)

CapabilityCovered(s, c, capabilities) ==
  \/ c \in capabilities
  \/ c = "database" /\ WithDatabase(s)
  \/ c = "ingress_gateway" /\ WithIngress(s)

Covered(S, i, keys, capabilities) ==
  S[i].op = "layer" =>
    /\ \A key \in Demanded(S[i]) :
         KeyCovered(S[i], key, keys) \/ \E j \in 1..(i - 1) : Supplies(S[j], key)
    /\ \A c \in S[i].spec.requires :
         /\ c \in Founding
         /\ CapabilityCovered(S[i], c, capabilities) \/ \E j \in 1..(i - 1) : Makes(S[j], c)

\* Nothing but these keys and capabilities is needed from outside, and a
\* cluster comes first.
ScriptFits(S, keys, capabilities) ==
  /\ \E X : S \in Seq(X)
  /\ \A i \in DOMAIN S :
       /\ StepFits(S[i]) /\ Covered(S, i, keys, capabilities)
       /\ ~Plain(S[i]) => i = 1 /\ "cluster" \notin capabilities

CoveredAt(seqs, n, a, b, keys, capabilities) ==
  seqs[a][b].op = "layer" =>
    /\ \A key \in Demanded(seqs[a][b]) :
         \/ KeyCovered(seqs[a][b], key, keys)
         \/ \E c \in 1..n : \E d \in DOMAIN seqs[c] :
              Earlier(c, d, a, b) /\ Supplies(seqs[c][d], key)
    /\ \A r \in seqs[a][b].spec.requires :
         /\ r \in Founding
         /\ \/ CapabilityCovered(seqs[a][b], r, capabilities)
            \/ \E c \in 1..n : \E d \in DOMAIN seqs[c] :
                 Earlier(c, d, a, b) /\ Makes(seqs[c][d], r)

AllFit(seqs, n, keys, capabilities) ==
  \A a \in 1..n : \A b \in DOMAIN seqs[a] :
    /\ StepFits(seqs[a][b]) /\ CoveredAt(seqs, n, a, b, keys, capabilities)
    /\ ~Plain(seqs[a][b]) => a = 1 /\ b = 1 /\ "cluster" \notin capabilities

LEMMA LaidFits ==
  ASSUME NEW X, NEW n \in Nat, NEW seqs \in [1..n -> Seq(X)], NEW F \in Seq(X), Laid(F, seqs, n),
         NEW keys, NEW capabilities, AllFit(seqs, n, keys, capabilities)
  PROVE  ScriptFits(F, keys, capabilities)
<1>1. SUFFICES ASSUME NEW i \in DOMAIN F
               PROVE  /\ StepFits(F[i]) /\ Covered(F, i, keys, capabilities)
                      /\ ~Plain(F[i]) => i = 1 /\ "cluster" \notin capabilities
  BY DEF ScriptFits
<1>2. PICK a \in 1..n : \E b \in DOMAIN seqs[a] : Stems(F, i, seqs, n, a, b)
  BY DEF Laid
<1>3. PICK b \in DOMAIN seqs[a] : Stems(F, i, seqs, n, a, b)
  BY <1>2
<1>4. F[i] = seqs[a][b]
  BY <1>3 DEF Stems
<1>5. \A c \in 1..n : \A d \in DOMAIN seqs[c] :
        Earlier(c, d, a, b) => \E j \in 1..(i - 1) : F[j] = seqs[c][d]
  BY <1>3 DEF Stems
<1>6. /\ StepFits(seqs[a][b]) /\ CoveredAt(seqs, n, a, b, keys, capabilities)
      /\ ~Plain(seqs[a][b]) => a = 1 /\ b = 1 /\ "cluster" \notin capabilities
  BY DEF AllFit
<1> DEFINE t == seqs[a][b]
<1>7. Covered(F, i, keys, capabilities)
  <2>1. SUFFICES ASSUME t.op = "layer"
                 PROVE  /\ \A key \in Demanded(t) :
                             \/ KeyCovered(t, key, keys)
                             \/ \E j \in 1..(i - 1) : Supplies(F[j], key)
                        /\ \A c \in t.spec.requires :
                             /\ c \in Founding
                             /\ \/ CapabilityCovered(t, c, capabilities)
                                \/ \E j \in 1..(i - 1) : Makes(F[j], c)
    BY <1>4, Zenon DEF Covered
  <2>2. ASSUME NEW key \in Demanded(t), ~KeyCovered(t, key, keys)
        PROVE  \E j \in 1..(i - 1) : Supplies(F[j], key)
    <3>1. PICK c \in 1..n : \E d \in DOMAIN seqs[c] :
                               Earlier(c, d, a, b) /\ Supplies(seqs[c][d], key)
      BY <1>6, <2>1, <2>2, Zenon DEF CoveredAt
    <3>2. PICK d \in DOMAIN seqs[c] : Earlier(c, d, a, b) /\ Supplies(seqs[c][d], key)
      BY <3>1
    <3>3. PICK j \in 1..(i - 1) : F[j] = seqs[c][d]
      BY <1>5, <3>2
    <3> QED
      BY <3>2, <3>3, Zenon
  <2>3. ASSUME NEW r \in t.spec.requires
        PROVE  r \in Founding
    BY <1>6, <2>1, Zenon DEF CoveredAt
  <2>4. ASSUME NEW r \in t.spec.requires, ~CapabilityCovered(t, r, capabilities)
        PROVE  \E j \in 1..(i - 1) : Makes(F[j], r)
    <3>1. PICK c \in 1..n : \E d \in DOMAIN seqs[c] :
                               Earlier(c, d, a, b) /\ Makes(seqs[c][d], r)
      BY <1>6, <2>1, <2>4, Zenon DEF CoveredAt
    <3>2. PICK d \in DOMAIN seqs[c] : Earlier(c, d, a, b) /\ Makes(seqs[c][d], r)
      BY <3>1
    <3>3. PICK j \in 1..(i - 1) : F[j] = seqs[c][d]
      BY <1>5, <3>2
    <3> QED
      BY <3>2, <3>3, Zenon
  <2> QED
    BY <2>2, <2>3, <2>4, Zenon
<1>8. ASSUME ~Plain(F[i])
      PROVE  i = 1 /\ "cluster" \notin capabilities
  <2>1. a = 1 /\ b = 1 /\ "cluster" \notin capabilities
    BY <1>4, <1>6, <1>8
  <2>2. ASSUME NEW j \in 1..(i - 1)
        PROVE  FALSE
    <3>1. PICK c \in 1..n : \E d \in DOMAIN seqs[c] : Earlier(c, d, a, b)
      BY <1>3 DEF Stems
    <3>2. PICK d \in DOMAIN seqs[c] : Earlier(c, d, a, b)
      BY <3>1
    <3>3. d \in 1..Len(seqs[c])
      OBVIOUS
    <3> QED
      BY <2>1, <3>2, <3>3 DEF Earlier
  <2>3. i \in 1..Len(F)
    OBVIOUS
  <2> QED
    BY <2>1, <2>2, <2>3
<1> QED
  BY <1>4, <1>6, <1>7, <1>8

(* The script of examples/full_stack.py *)

\* What the Stack is given, and what the layers that want it may lack.
GivenTo(selected) ==
  {"kubeconfig_path"} \cup (IF NamesNoClass(selected) THEN {NoClass} ELSE {})

LeftOut(selected) == {"cluster", "storage", "cache"} \ selected

Stage(selected, i) ==
  IF StageOrder[i] \in selected THEN StageSteps[StageOrder[i]]
  ELSE Assumed(StageOrder[i], selected)

LEMMA OrderIs ==
  /\ DOMAIN StageOrder = 1..20
  /\ StageOrder[1] = "cluster" /\ StageOrder[2] = "accelerator" /\ StageOrder[3] = "ingress"
  /\ StageOrder[4] = "storage" /\ StageOrder[5] = "objectstore" /\ StageOrder[6] = "weights"
  /\ StageOrder[7] = "inference" /\ StageOrder[8] = "cache" /\ StageOrder[9] = "database"
  /\ StageOrder[10] = "registry" /\ StageOrder[11] = "tokenizer" /\ StageOrder[12] = "queue"
  /\ StageOrder[13] = "enricher" /\ StageOrder[14] = "policy" /\ StageOrder[15] = "gateway"
  /\ StageOrder[16] = "billing" /\ StageOrder[17] = "controlplane" /\ StageOrder[18] = "portal"
  /\ StageOrder[19] = "route" /\ StageOrder[20] = "observability"
BY DEF StageOrder

LEMMA StageNames ==
  {"cluster", "storage", "objectstore", "cache", "database"} \subseteq Stages
<1>1. \A i \in 1..20 : StageOrder[i] \in Stages
  BY OrderIs DEF Stages, ToSet
<1> QED
  BY <1>1, OrderIs

LEMMA StepsAre ==
  /\ StageSteps["cluster"] = stage_cluster
  /\ StageSteps["accelerator"] = stage_accelerator
  /\ StageSteps["ingress"] = stage_ingress
  /\ StageSteps["storage"] = stage_storage
  /\ StageSteps["objectstore"] = stage_objectstore
  /\ StageSteps["weights"] = stage_weights
  /\ StageSteps["inference"] = stage_inference
  /\ StageSteps["cache"] = stage_cache
  /\ StageSteps["database"] = stage_database
  /\ StageSteps["registry"] = stage_registry
  /\ StageSteps["tokenizer"] = stage_tokenizer
  /\ StageSteps["queue"] = stage_queue
  /\ StageSteps["enricher"] = stage_enricher
  /\ StageSteps["policy"] = stage_policy
  /\ StageSteps["gateway"] = stage_gateway
  /\ StageSteps["billing"] = stage_billing
  /\ StageSteps["controlplane"] = stage_controlplane
  /\ StageSteps["portal"] = stage_portal
  /\ StageSteps["route"] = stage_route
  /\ StageSteps["observability"] = stage_observability
BY DEF StageSteps

LEMMA StagesFine ==
  ASSUME NEW a \in 2..20
  PROVE  Fine(StageSteps[StageOrder[a]], KeysOf(StageOrder[a]), CapabilitiesOf(StageOrder[a]))
<1> DEFINE st == StageOrder[a]
           Goal == Fine(StageSteps[st], KeysOf(st), CapabilitiesOf(st))
<1>1. \/ st = "accelerator" \/ st = "ingress" \/ st = "storage" \/ st = "objectstore"
      \/ st = "weights" \/ st = "inference" \/ st = "cache" \/ st = "database"
      \/ st = "registry" \/ st = "tokenizer" \/ st = "queue" \/ st = "enricher"
      \/ st = "policy" \/ st = "gateway" \/ st = "billing" \/ st = "controlplane"
      \/ st = "portal" \/ st = "route" \/ st = "observability"
  BY OrderIs
<1> HIDE DEF st
<1>2. st = "accelerator" => Goal
  BY StepsAre, AcceleratorFine, Zenon
<1>3. st = "ingress" => Goal
  BY StepsAre, IngressFine, Zenon
<1>4. st = "storage" => Goal
  BY StepsAre, StorageFine, Zenon
<1>5. st = "objectstore" => Goal
  BY StepsAre, ObjectstoreFine, Zenon
<1>6. st = "weights" => Goal
  BY StepsAre, WeightsFine, Zenon
<1>7. st = "inference" => Goal
  BY StepsAre, InferenceFine, Zenon
<1>8. st = "cache" => Goal
  BY StepsAre, CacheFine, Zenon
<1>9. st = "database" => Goal
  BY StepsAre, DatabaseFine, Zenon
<1>10. st = "registry" => Goal
  BY StepsAre, RegistryFine, Zenon
<1>11. st = "tokenizer" => Goal
  BY StepsAre, TokenizerFine, Zenon
<1>12. st = "queue" => Goal
  BY StepsAre, QueueFine, Zenon
<1>13. st = "enricher" => Goal
  BY StepsAre, EnricherFine, Zenon
<1>14. st = "policy" => Goal
  BY StepsAre, PolicyFine, Zenon
<1>15. st = "gateway" => Goal
  BY StepsAre, GatewayFine, Zenon
<1>16. st = "billing" => Goal
  BY StepsAre, BillingFine, Zenon
<1>17. st = "controlplane" => Goal
  BY StepsAre, ControlplaneFine, Zenon
<1>18. st = "portal" => Goal
  BY StepsAre, PortalFine, Zenon
<1>19. st = "route" => Goal
  BY StepsAre, RouteFine, Zenon
<1>20. st = "observability" => Goal
  BY StepsAre, ObservabilityFine, Zenon
<1> HIDE DEF Goal
<1> QED
  BY <1>1, <1>2, <1>3, <1>4, <1>5, <1>6, <1>7, <1>8, <1>9, <1>10, <1>11, <1>12, <1>13, <1>14,
       <1>15, <1>16, <1>17, <1>18, <1>19, <1>20 DEF st, Goal

LEMMA ClusterStage ==
  /\ stage_cluster \in Seq({stage_cluster[1]}) /\ DOMAIN stage_cluster = 1..1
  /\ StepFits(stage_cluster[1]) /\ Makes(stage_cluster[1], "cluster")
  /\ Demanded(stage_cluster[1]) = {} /\ stage_cluster[1].spec.requires = {}
<1> DEFINE s == Layer("cluster", "ai-cluster", RKE2Cluster)
<1>1. IsLayer(s, "cluster", "ai-cluster", RKE2Cluster, {}, {}, RKE2Cluster.provides)
  BY IsLayerLayer
<1>2. stage_cluster = <<s>>
  BY DEF stage_cluster
<1> HIDE DEF s
<1>3. stage_cluster[1] = s /\ stage_cluster \in Seq({s}) /\ DOMAIN stage_cluster = 1..1
  BY <1>2
<1>4. StepFits(s)
  BY <1>1, AllCapabilities
  DEF StepFits, IsLayer, NameFits, Founding, Foundations, RKE2Cluster, Declares
<1>5. Demanded(s) = {} /\ s.spec.requires = {}
  BY <1>1 DEF Demanded, IsLayer, RKE2Cluster, Declares
<1>6. Makes(s, "cluster")
  BY <1>1 DEF Makes, Anytime, IsLayer
<1> QED
  BY <1>3, <1>4, <1>5, <1>6

LEMMA StorageStage ==
  /\ 2 \in DOMAIN stage_storage
  /\ Supplies(stage_storage[2], "storage_class") /\ Makes(stage_storage[2], "storage")
<1> DEFINE s == Layer("storage", "longhorn", Storage)
<1>1. IsLayer(s, "storage", "longhorn", Storage, {}, {}, Storage.provides)
  BY IsLayerLayer
<1>2. 2 \in DOMAIN stage_storage /\ stage_storage[2] = s
  BY DEF stage_storage
<1> HIDE DEF s
<1>3. "storage_class" \in Storage.provides
  BY DEF Storage, Declares
<1> QED
  BY <1>1, <1>2, <1>3 DEF Supplies, Makes, Anytime, IsLayer

LEMMA ObjectstoreStage ==
  /\ DOMAIN stage_objectstore = 1..4
  /\ Supplies(stage_objectstore[1], "storage_class") /\ stage_objectstore[1].op # "layer"
  /\ Supplies(stage_objectstore[2], "s3_endpoint_url")
  /\ Supplies(stage_objectstore[4], "s3_secret_name")
<1> DEFINE r == Publish([storage_class |-> "longhorn"])
           s == Layer("objectstore", "minio-test", MinIOTenant)
           t == Publish([s3_secret_name |-> "minio-creds"])
<1>1. IsLayer(s, "objectstore", "minio-test", MinIOTenant, {}, {}, MinIOTenant.provides)
  BY IsLayerLayer
<1>2. r.op = "publish" /\ r.given = {} /\ r.publishes = [storage_class |-> "longhorn"]
  BY PublishIs
<1>3. t.op = "publish" /\ t.given = {} /\ t.publishes = [s3_secret_name |-> "minio-creds"]
  BY PublishIs
<1> HIDE DEF r, s, t
<1>4. /\ DOMAIN stage_objectstore = 1..4 /\ stage_objectstore[1] = r /\ stage_objectstore[2] = s
      /\ stage_objectstore[4] = t
  BY DEF stage_objectstore, r, s, t
<1>5. "s3_endpoint_url" \in MinIOTenant.provides
  BY DEF MinIOTenant, Declares
<1>6. Supplies(r, "storage_class") /\ r.op # "layer"
  BY <1>2 DEF Supplies, Anytime
<1>7. Supplies(t, "s3_secret_name")
  BY <1>3 DEF Supplies, Anytime
<1>8. Supplies(s, "s3_endpoint_url")
  BY <1>1, <1>5 DEF Supplies, Anytime, IsLayer
<1> QED
  BY <1>4, <1>6, <1>7, <1>8

LEMMA CacheStage ==
  /\ 2 \in DOMAIN stage_cache
  /\ Supplies(stage_cache[2], "cache_url") /\ Makes(stage_cache[2], "cache")
<1> DEFINE s == Keeps(Layer("cache", "valkey", Cache), {"cache_auth_url"})
<1>1. IsLayer(s, "cache", "valkey", Cache, {}, {}, {"cache_auth_url"} \cup Cache.provides)
  BY IsLayerLayer, IsLayerKeeps
<1>2. 2 \in DOMAIN stage_cache /\ stage_cache[2] = s
  BY DEF stage_cache
<1> HIDE DEF s
<1>3. "cache_url" \in Cache.provides
  BY DEF Cache, Declares
<1> QED
  BY <1>1, <1>2, <1>3 DEF Supplies, Makes, Anytime, IsLayer

LEMMA GatewayStage ==
  /\ DOMAIN stage_gateway = 1..3
  /\ stage_gateway[1].op # "layer" /\ stage_gateway[2].op # "layer"
  /\ Supplies(stage_gateway[2], "api_key_secret")
<1> DEFINE r == Secret("modelgateway", {"api", "verify"})
           s == Publish([api_key_secret |-> "gateway-keys"])
<1>1. r.op = "secret"
  BY SecretIs
<1>2. s.op = "publish" /\ s.given = {} /\ s.publishes = [api_key_secret |-> "gateway-keys"]
  BY PublishIs
<1> HIDE DEF r, s
<1>3. DOMAIN stage_gateway = 1..3 /\ stage_gateway[1] = r /\ stage_gateway[2] = s
  BY DEF stage_gateway, r, s
<1>4. Supplies(s, "api_key_secret")
  BY <1>2 DEF Supplies, Anytime
<1> QED
  BY <1>1, <1>2, <1>3, <1>4

\* A stage whose steps all wait for a value.
LEMMA GivenAll ==
  ASSUME NEW ks, NEW f, NEW b \in DOMAIN Given(ks, f), IsStep(Given(ks, f)[b])
  PROVE  ks \subseteq Given(ks, f)[b].given
<1> DEFINE s == Given(ks, f)[b]
<1>1. s = [f[b] EXCEPT !.given = f[b].given \cup ks]
  BY DEF Given
<1>2. DOMAIN s = DOMAIN f[b]
  BY <1>1
<1>3. "given" \in DOMAIN s
  BY DEF IsStep
<1> HIDE DEF s
<1>4. s["given"] = f[b].given \cup ks
  BY <1>1, <1>2, <1>3
<1> QED
  BY <1>4 DEF s

LEMMA BillingStage ==
  ASSUME NEW b \in DOMAIN stage_billing
  PROVE  WithDatabase(stage_billing[b])
BY BillingFine, GivenAll DEF WithDatabase, Fine, StepFits, stage_billing

LEMMA ControlplaneStage ==
  ASSUME NEW b \in DOMAIN stage_controlplane
  PROVE  WithDatabase(stage_controlplane[b])
BY ControlplaneFine, GivenAll DEF WithDatabase, Fine, StepFits, stage_controlplane

LEMMA RouteStage ==
  ASSUME NEW b \in DOMAIN stage_route
  PROVE  WithIngress(stage_route[b])
BY RouteFine, GivenAll DEF WithIngress, Fine, StepFits, stage_route

\* In the place of a stage main() publishes something, or nothing.
LEMMA AssumedFine ==
  ASSUME NEW st, NEW selected, NEW keys, NEW capabilities
  PROVE  /\ Fine(Assumed(st, selected), keys, capabilities)
         /\ \A b \in DOMAIN Assumed(st, selected) : Assumed(st, selected)[b].op # "layer"
<1> DEFINE r == Publish([s3_endpoint_url |-> "minio-test", s3_secret_name |-> "minio-creds"])
           s == Publish([cache_url |-> "valkey", cache_auth_url |-> "valkey"])
           t == Publish([event_backbone_url |-> "nats"])
           f == Assumed(st, selected)
<1>1. f = <<r>> \/ f = <<s>> \/ f = <<t>> \/ f = << >>
  BY DEF Assumed
<1>2. Good(r, keys, capabilities) /\ Good(s, keys, capabilities) /\ Good(t, keys, capabilities)
  BY GoodPublish
<1>3. r.op = "publish" /\ s.op = "publish" /\ t.op = "publish"
  BY PublishIs
<1> HIDE DEF f, r, s, t
<1>4. Fine(f, keys, capabilities)
  BY <1>1, <1>2, FineSingle, FineNone
<1>5. ASSUME NEW b \in DOMAIN f
      PROVE  f[b].op # "layer"
  <2>1. f[b] = r \/ f[b] = s \/ f[b] = t
    BY <1>1, <1>5
  <2> QED
    BY <1>3, <2>1
<1> QED
  BY <1>4, <1>5 DEF f

LEMMA AssumedObjectstore ==
  ASSUME NEW selected
  PROVE  /\ 1 \in DOMAIN Assumed("objectstore", selected)
         /\ Supplies(Assumed("objectstore", selected)[1], "s3_endpoint_url")
         /\ Supplies(Assumed("objectstore", selected)[1], "s3_secret_name")
<1> DEFINE r == Publish([s3_endpoint_url |-> "minio-test", s3_secret_name |-> "minio-creds"])
<1>1. Assumed("objectstore", selected) = <<r>>
  BY DEF Assumed
<1>2. r.given = {}
      /\ r.publishes = [s3_endpoint_url |-> "minio-test", s3_secret_name |-> "minio-creds"]
  BY PublishIs
<1> HIDE DEF r
<1> QED
  BY <1>1, <1>2 DEF Supplies, Anytime

LEMMA AssumedCache ==
  ASSUME NEW selected, {"policy", "controlplane"} \cap selected # {}
  PROVE  /\ 1 \in DOMAIN Assumed("cache", selected)
         /\ Supplies(Assumed("cache", selected)[1], "cache_url")
<1> DEFINE r == Publish([cache_url |-> "valkey", cache_auth_url |-> "valkey"])
<1>1. Assumed("cache", selected) = <<r>>
  BY DEF Assumed
<1>2. r.given = {} /\ r.publishes = [cache_url |-> "valkey", cache_auth_url |-> "valkey"]
  BY PublishIs
<1> HIDE DEF r
<1> QED
  BY <1>1, <1>2 DEF Supplies, Anytime

\* The steps of main() for these stages.
StagesOf(selected) == [i \in 1..20 |-> Stage(selected, i)]

LEMMA StagesOfIs ==
  ASSUME NEW selected, NEW a \in 1..20
  PROVE  /\ StageOrder[a] \in selected => StagesOf(selected)[a] = StageSteps[StageOrder[a]]
         /\ StageOrder[a] \notin selected =>
              StagesOf(selected)[a] = Assumed(StageOrder[a], selected)
BY DEF StagesOf, Stage

LEMMA MainIs ==
  ASSUME NEW selected
  PROVE  Main(selected) = FlattenSeq(StagesOf(selected))
BY OrderIs DEF Main, StagesOf, Stage

\* The stages that publish what others ask for.
\* The queue and the observability stack are one layer that requires storage.
LEMMA ClassWanted ==
  /\ \A b \in DOMAIN stage_queue : "storage" \in stage_queue[b].spec.requires
  /\ \A b \in DOMAIN stage_observability : "storage" \in stage_observability[b].spec.requires
<1>1. /\ Layer("queue", "nats", Queue).spec = Queue
      /\ Layer("observability", "kube_prometheus_stack", Observability).spec = Observability
  BY LayerIs
<1>2. "storage" \in Queue.requires /\ "storage" \in Observability.requires
  BY DEF Queue, Observability, Declares
<1> QED
  BY <1>1, <1>2 DEF stage_queue, stage_observability

LEMMA KeySupplied ==
  ASSUME NEW selected, NEW a \in 2..20, StageOrder[a] \in selected,
         NEW seqs, seqs = StagesOf(selected), NEW b \in DOMAIN seqs[a], b \in Nat \ {0},
         seqs[a][b].op = "layer", NEW key \in KeysOf(StageOrder[a])
  PROVE  \/ KeyCovered(seqs[a][b], key, GivenTo(selected))
         \/ \E c \in 1..20 : \E d \in DOMAIN seqs[c] :
              Earlier(c, d, a, b) /\ Supplies(seqs[c][d], key)
<1> DEFINE st == StageOrder[a]
           Goal == \/ KeyCovered(seqs[a][b], key, GivenTo(selected))
                   \/ \E c \in 1..20 : \E d \in DOMAIN seqs[c] :
                        Earlier(c, d, a, b) /\ Supplies(seqs[c][d], key)
<1>1. seqs[a] = StageSteps[st]
  BY StagesOfIs
<1>2. \/ key = "kubeconfig_path"
      \/ key = "storage_class" /\ st \in {"objectstore", "queue", "observability"}
      \/ key \in {"s3_endpoint_url", "s3_secret_name"} /\ st = "inference"
      \/ key = "cache_url" /\ st \in {"policy", "controlplane"}
      \/ key = "api_key_secret" /\ st = "gateway"
      \/ key = "database_url" /\ st \in {"billing", "controlplane"}
      \/ key = "ingress_gateway_endpoint" /\ st = "route"
  BY DEF KeysOf
<1>3. CASE key = "kubeconfig_path"
  BY <1>3 DEF KeyCovered, GivenTo, NoClass
<1>4. CASE key = "storage_class" /\ st \in {"objectstore", "queue", "observability"}
  <2>1. a >= 5 /\ (a = 5 => st = "objectstore") /\ (a # 5 => st # "objectstore")
    BY <1>4, OrderIs
  <2>2. CASE "storage" \in selected
    <3>1. seqs[4] = stage_storage
      BY <2>2, StagesOfIs, OrderIs, StepsAre
    <3>2. 4 \in 1..20 /\ 2 \in DOMAIN seqs[4] /\ Earlier(4, 2, a, b)
          /\ Supplies(seqs[4][2], "storage_class")
      BY <2>1, <3>1, StorageStage DEF Earlier
    <3> QED
      BY <1>4, <3>2
  <2>3. CASE "storage" \notin selected
    <3>1. CASE "objectstore" \in selected
      <4>1. seqs[5] = stage_objectstore
        BY <3>1, StagesOfIs, OrderIs, StepsAre
      <4>2. 5 \in 1..20 /\ 1 \in DOMAIN seqs[5] /\ Supplies(seqs[5][1], "storage_class")
        BY <4>1, ObjectstoreStage
      <4>3. a = 5 => b # 1
        BY <4>1, ObjectstoreStage
      <4>4. Earlier(5, 1, a, b)
        BY <2>1, <4>3 DEF Earlier
      <4> QED
        BY <1>4, <4>2, <4>4
    <3>2. CASE "objectstore" \notin selected
      <4>1. st \in {"queue", "observability"} /\ st \in selected
        BY <1>4, <3>2
      <4>2. NamesNoClass(selected)
        BY <2>3, <3>2, <4>1 DEF NamesNoClass
      <4>3. seqs[a] = stage_queue \/ seqs[a] = stage_observability
        BY <1>1, <4>1, StepsAre
      <4>4. "storage" \in seqs[a][b].spec.requires
        BY <4>3, ClassWanted
      <4> QED
        BY <1>4, <4>2, <4>4 DEF KeyCovered, GivenTo
    <3> QED
      BY <3>1, <3>2
  <2> QED
    BY <2>2, <2>3
<1>5. CASE key \in {"s3_endpoint_url", "s3_secret_name"} /\ st = "inference"
  <2>1. a = 7
    BY <1>5, OrderIs
  <2>2. CASE "objectstore" \in selected
    <3>1. seqs[5] = stage_objectstore
      BY <2>2, StagesOfIs, OrderIs, StepsAre
    <3>2. 5 \in 1..20 /\ 2 \in DOMAIN seqs[5] /\ 4 \in DOMAIN seqs[5]
          /\ Supplies(seqs[5][2], "s3_endpoint_url") /\ Supplies(seqs[5][4], "s3_secret_name")
      BY <3>1, ObjectstoreStage
    <3>3. Earlier(5, 2, a, b) /\ Earlier(5, 4, a, b)
      BY <2>1 DEF Earlier
    <3> QED
      BY <1>5, <3>2, <3>3
  <2>3. CASE "objectstore" \notin selected
    <3>1. seqs[5] = Assumed("objectstore", selected)
      BY <2>3, StagesOfIs, OrderIs
    <3>2. 5 \in 1..20 /\ 1 \in DOMAIN seqs[5] /\ Earlier(5, 1, a, b)
          /\ Supplies(seqs[5][1], "s3_endpoint_url") /\ Supplies(seqs[5][1], "s3_secret_name")
      BY <2>1, <3>1, AssumedObjectstore DEF Earlier
    <3> QED
      BY <1>5, <3>2
  <2> QED
    BY <2>2, <2>3
<1>6. CASE key = "cache_url" /\ st \in {"policy", "controlplane"}
  <2>1. a > 8
    BY <1>6, OrderIs
  <2>2. CASE "cache" \in selected
    <3>1. seqs[8] = stage_cache
      BY <2>2, StagesOfIs, OrderIs, StepsAre
    <3>2. 8 \in 1..20 /\ 2 \in DOMAIN seqs[8] /\ Earlier(8, 2, a, b)
          /\ Supplies(seqs[8][2], "cache_url")
      BY <2>1, <3>1, CacheStage DEF Earlier
    <3> QED
      BY <1>6, <3>2
  <2>3. CASE "cache" \notin selected
    <3>1. seqs[8] = Assumed("cache", selected)
      BY <2>3, StagesOfIs, OrderIs
    <3>2. {"policy", "controlplane"} \cap selected # {}
      BY <1>6
    <3>3. 8 \in 1..20 /\ 1 \in DOMAIN seqs[8] /\ Earlier(8, 1, a, b)
          /\ Supplies(seqs[8][1], "cache_url")
      BY <2>1, <3>1, <3>2, AssumedCache DEF Earlier
    <3> QED
      BY <1>6, <3>3
  <2> QED
    BY <2>2, <2>3
<1>7. CASE key = "api_key_secret" /\ st = "gateway"
  <2>1. a = 15 /\ seqs[15] = stage_gateway
    BY <1>1, <1>7, OrderIs, StepsAre
  <2>2. b # 1 /\ b # 2
    BY <2>1, GatewayStage
  <2>3. 15 \in 1..20 /\ 2 \in DOMAIN seqs[15] /\ Earlier(15, 2, a, b)
        /\ Supplies(seqs[15][2], "api_key_secret")
    BY <2>1, <2>2, GatewayStage DEF Earlier
  <2> QED
    BY <1>7, <2>3
<1>8. CASE key = "database_url" /\ st \in {"billing", "controlplane"}
  <2>1. seqs[a] = stage_billing \/ seqs[a] = stage_controlplane
    BY <1>1, <1>8, StepsAre
  <2>2. WithDatabase(seqs[a][b])
    BY <2>1, BillingStage, ControlplaneStage
  <2> QED
    BY <1>8, <2>2 DEF KeyCovered
<1>9. CASE key = "ingress_gateway_endpoint" /\ st = "route"
  <2>1. seqs[a] = stage_route
    BY <1>1, <1>9, StepsAre
  <2>2. WithIngress(seqs[a][b])
    BY <2>1, RouteStage
  <2> QED
    BY <1>9, <2>2 DEF KeyCovered
<1> HIDE DEF Goal
<1>10. Goal
  BY <1>2, <1>3, <1>4, <1>5, <1>6, <1>7, <1>8, <1>9 DEF Goal
<1> QED
  BY <1>10 DEF Goal

\* The stages that make the capabilities that others require.
LEMMA CapabilityMade ==
  ASSUME NEW selected, NEW a \in 2..20, StageOrder[a] \in selected,
         NEW seqs, seqs = StagesOf(selected), NEW b \in DOMAIN seqs[a],
         NEW r \in CapabilitiesOf(StageOrder[a])
  PROVE  /\ r \in Founding
         /\ \/ CapabilityCovered(seqs[a][b], r, LeftOut(selected))
            \/ \E c \in 1..20 : \E d \in DOMAIN seqs[c] :
                 Earlier(c, d, a, b) /\ Makes(seqs[c][d], r)
<1> DEFINE st == StageOrder[a]
           Goal == \/ CapabilityCovered(seqs[a][b], r, LeftOut(selected))
                   \/ \E c \in 1..20 : \E d \in DOMAIN seqs[c] :
                        Earlier(c, d, a, b) /\ Makes(seqs[c][d], r)
<1>1. seqs[a] = StageSteps[st]
  BY StagesOfIs
<1>2. \/ r = "cluster"
      \/ r = "storage" /\ st \in {"objectstore", "queue", "observability"}
      \/ r = "cache" /\ st = "controlplane"
      \/ r = "database" /\ st \in {"billing", "controlplane"}
      \/ r = "ingress_gateway" /\ st = "route"
  BY DEF CapabilitiesOf
<1>3. r \in Founding
  BY <1>2 DEF Founding
<1> SUFFICES Goal
  BY <1>3
<1>4. CASE r \in {"cluster", "storage", "cache"} /\ r \notin selected
  BY <1>4 DEF CapabilityCovered, LeftOut
<1>5. CASE r = "cluster" /\ r \in selected
  <2>1. seqs[1] = stage_cluster
    BY <1>5, StagesOfIs, OrderIs, StepsAre
  <2>2. 1 \in 1..20 /\ 1 \in DOMAIN seqs[1] /\ Earlier(1, 1, a, b) /\ Makes(seqs[1][1], "cluster")
    BY <2>1, ClusterStage DEF Earlier
  <2> QED
    BY <1>5, <2>2
<1>6. CASE r = "storage" /\ st \in {"objectstore", "queue", "observability"} /\ r \in selected
  <2>1. seqs[4] = stage_storage
    BY <1>6, StagesOfIs, OrderIs, StepsAre
  <2>2. a > 4
    BY <1>6, OrderIs
  <2>3. 4 \in 1..20 /\ 2 \in DOMAIN seqs[4] /\ Earlier(4, 2, a, b) /\ Makes(seqs[4][2], "storage")
    BY <2>1, <2>2, StorageStage DEF Earlier
  <2> QED
    BY <1>6, <2>3
<1>7. CASE r = "cache" /\ st = "controlplane" /\ r \in selected
  <2>1. seqs[8] = stage_cache
    BY <1>7, StagesOfIs, OrderIs, StepsAre
  <2>2. a > 8
    BY <1>7, OrderIs
  <2>3. 8 \in 1..20 /\ 2 \in DOMAIN seqs[8] /\ Earlier(8, 2, a, b) /\ Makes(seqs[8][2], "cache")
    BY <2>1, <2>2, CacheStage DEF Earlier
  <2> QED
    BY <1>7, <2>3
<1>8. CASE r = "database" /\ st \in {"billing", "controlplane"}
  <2>1. seqs[a] = stage_billing \/ seqs[a] = stage_controlplane
    BY <1>1, <1>8, StepsAre
  <2>2. WithDatabase(seqs[a][b])
    BY <2>1, BillingStage, ControlplaneStage
  <2> QED
    BY <1>8, <2>2 DEF CapabilityCovered
<1>9. CASE r = "ingress_gateway" /\ st = "route"
  <2>1. seqs[a] = stage_route
    BY <1>1, <1>9, StepsAre
  <2>2. WithIngress(seqs[a][b])
    BY <2>1, RouteStage
  <2> QED
    BY <1>9, <2>2 DEF CapabilityCovered
<1> QED
  BY <1>2, <1>4, <1>5, <1>6, <1>7, <1>8, <1>9

LEMMA IntoSeq ==
  ASSUME NEW Y, NEW f \in Seq(Y), NEW X, \A b \in DOMAIN f : f[b] \in X
  PROVE  f \in Seq(X)
OBVIOUS

LEMMA MainLaid ==
  ASSUME NEW selected, NEW seqs, seqs = StagesOf(selected)
  PROVE  \E X : /\ seqs \in [1..20 -> Seq(X)] /\ Main(selected) \in Seq(X)
               /\ Laid(Main(selected), seqs, 20)
<1> DEFINE X == UNION {{seqs[a][b] : b \in DOMAIN seqs[a]} : a \in 1..20}
<1>1. ASSUME NEW a \in 1..20
      PROVE  \E Y : seqs[a] \in Seq(Y)
  <2>1. CASE StageOrder[a] \notin selected
    <3>1. seqs[a] = Assumed(StageOrder[a], selected)
      BY <2>1, StagesOfIs
    <3>2. Fine(seqs[a], {}, {})
      BY <3>1, AssumedFine
    <3> QED
      BY <3>2 DEF Fine
  <2>2. CASE StageOrder[a] \in selected /\ a = 1
    BY <2>2, StagesOfIs, OrderIs, StepsAre, ClusterStage
  <2>3. CASE StageOrder[a] \in selected /\ a # 1
    <3>1. a \in 2..20
      BY <2>3
    <3>2. seqs[a] = StageSteps[StageOrder[a]]
      BY <2>3, StagesOfIs
    <3> QED
      BY <3>1, <3>2, StagesFine DEF Fine
  <2> QED
    BY <2>1, <2>2, <2>3
<1>2. \A a \in 1..20 : \A b \in DOMAIN seqs[a] : seqs[a][b] \in X
  OBVIOUS
<1>3. DOMAIN seqs = 1..20 /\ seqs = [i \in 1..20 |-> seqs[i]]
  BY DEF StagesOf
<1>4. Main(selected) = FlattenSeq(seqs)
  BY MainIs
<1> HIDE DEF X
<1>5. \A a \in 1..20 : seqs[a] \in Seq(X)
  BY <1>1, <1>2, IntoSeq
<1>6. seqs \in [1..20 -> Seq(X)]
  BY <1>3, <1>5
<1>7. 20 \in Nat \ {0}
  OBVIOUS
<1> QED
  BY <1>4, <1>6, <1>7, FlattenLaid

\* What examples/full_stack.py needs of the outside: the path of a kubeconfig,
\* and of the stages left out the cluster, the storage and the cache.  All
\* else that a layer needs comes before it, except for the storage class where
\* no stage publishes one.
THEOREM MainFits ==
  ASSUME NEW selected \in SUBSET Stages
  PROVE  ScriptFits(Main(selected), GivenTo(selected), LeftOut(selected))
<1> DEFINE seqs == StagesOf(selected)
<1>1. ASSUME NEW a \in 1..20
      PROVE  \A b \in DOMAIN seqs[a] :
               /\ StepFits(seqs[a][b])
               /\ CoveredAt(seqs, 20, a, b, GivenTo(selected), LeftOut(selected))
               /\ ~Plain(seqs[a][b]) => a = 1 /\ b = 1 /\ "cluster" \notin LeftOut(selected)
  <2>1. CASE StageOrder[a] \notin selected
    <3>1. seqs[a] = Assumed(StageOrder[a], selected)
      BY <2>1, StagesOfIs
    <3>2. /\ Fine(seqs[a], {}, {})
          /\ \A b \in DOMAIN seqs[a] : seqs[a][b].op # "layer"
      BY <3>1, AssumedFine
    <3> HIDE DEF seqs
    <3> QED
      BY <3>2 DEF Fine, CoveredAt
  <2>2. CASE StageOrder[a] \in selected /\ a = 1
    <3>1. seqs[1] = stage_cluster
      BY <2>2, StagesOfIs, OrderIs, StepsAre
    <3> HIDE DEF seqs
    <3>2. seqs[1] \in Seq({stage_cluster[1]}) /\ DOMAIN seqs[1] = 1..1
      BY <3>1, ClusterStage
    <3>3. CoveredAt(seqs, 20, 1, 1, GivenTo(selected), LeftOut(selected))
      BY <3>1, ClusterStage DEF CoveredAt
    <3>4. \A b \in DOMAIN seqs[1] : b = 1
      BY <3>2
    <3>5. "cluster" \notin LeftOut(selected)
      BY <2>2, OrderIs DEF LeftOut
    <3> QED
      BY <2>2, <3>1, <3>2, <3>3, <3>4, <3>5, ClusterStage
  <2>3. CASE StageOrder[a] \in selected /\ a # 1
    <3>1. a \in 2..20
      BY <2>3
    <3>2. seqs[a] = StageSteps[StageOrder[a]]
      BY <2>3, StagesOfIs
    <3>3. Fine(seqs[a], KeysOf(StageOrder[a]), CapabilitiesOf(StageOrder[a]))
      BY <3>1, <3>2, StagesFine
    <3>4. PICK Y : seqs[a] \in Seq(Y)
      BY <3>3 DEF Fine
    <3>5. DOMAIN seqs[a] = 1..Len(seqs[a]) /\ Len(seqs[a]) \in Nat
      BY <3>4
    <3> DEFINE t(b) == seqs[a][b]
    <3>6. ASSUME NEW b \in DOMAIN seqs[a]
          PROVE  CoveredAt(seqs, 20, a, b, GivenTo(selected), LeftOut(selected))
      <4>1. b \in Nat \ {0}
        BY <3>5
      <4>2. Asks(seqs[a][b], KeysOf(StageOrder[a]), CapabilitiesOf(StageOrder[a]))
        BY <3>3 DEF Fine
      <4>3. ASSUME seqs[a][b].op = "layer", NEW key \in Demanded(seqs[a][b])
            PROVE  \/ KeyCovered(seqs[a][b], key, GivenTo(selected))
                   \/ \E c \in 1..20 : \E d \in DOMAIN seqs[c] :
                        Earlier(c, d, a, b) /\ Supplies(seqs[c][d], key)
        <5>1. key \in KeysOf(StageOrder[a])
          BY <4>2, <4>3 DEF Asks
        <5> HIDE DEF seqs
        <5>2. seqs = StagesOf(selected)
          BY DEF seqs
        <5> QED
          BY <2>3, <3>1, <4>1, <4>3, <5>1, <5>2, KeySupplied
      <4>4. ASSUME seqs[a][b].op = "layer", NEW r \in seqs[a][b].spec.requires
            PROVE  /\ r \in Founding
                   /\ \/ CapabilityCovered(seqs[a][b], r, LeftOut(selected))
                      \/ \E c \in 1..20 : \E d \in DOMAIN seqs[c] :
                           Earlier(c, d, a, b) /\ Makes(seqs[c][d], r)
        <5>1. r \in CapabilitiesOf(StageOrder[a])
          BY <4>2, <4>4 DEF Asks
        <5> HIDE DEF seqs
        <5>2. seqs = StagesOf(selected)
          BY DEF seqs
        <5> QED
          BY <2>3, <3>1, <5>1, <5>2, CapabilityMade
      <4> HIDE DEF seqs
      <4> QED
        BY <4>3, <4>4, Zenon DEF CoveredAt
    <3> HIDE DEF seqs
    <3> QED
      BY <3>3, <3>4, <3>6 DEF Fine
  <2> QED
    BY <2>1, <2>2, <2>3
<1>2. PICK X : /\ seqs \in [1..20 -> Seq(X)] /\ Main(selected) \in Seq(X)
               /\ Laid(Main(selected), seqs, 20)
  BY MainLaid
<1> HIDE DEF seqs
<1>3. AllFit(seqs, 20, GivenTo(selected), LeftOut(selected))
  BY <1>1 DEF AllFit
<1>4. 20 \in Nat
  OBVIOUS
<1> QED
  BY <1>2, <1>3, <1>4, LaidFits

(* The script of build_full_stack_plan *)

\* A plan on a cluster that is there, as the tool's schema lets it be
\* proposed; no route has the name of another's deployment.
OnACluster(p) ==
  /\ p.target # "new"
  /\ p.policies \in Seq({"rpm", "tpm"})
  /\ p.planes \in Seq({"admin", "organization"}) /\ p.portals \in Seq({"admin", "organization"})
  /\ \E Y : /\ p.routes \in Seq(Y)
            /\ \A name \in Y : \A f \in Founding : name \notin Foundations[f]

Kept(p) == {"kubeconfig_path"} \cup (IF p.storageClass THEN {"storage_class"} ELSE {})
PartsOf(p) ==
  <<render_cluster(p), render_storage(p), render_minio(p), render_accelerator(p),
    render_inference(p), render_cache(p), render_database(p), render_controlplanes(p),
    render_observability(p), render_queue(p), render_tokenizer(p), render_enricher(p),
    render_policies(p), render_gateway(p), render_ingress(p), render_portals(p),
    render_billing(p), render_routes(p)>>

\* What an accepted plan has, of what its parts need.
LEMMA AcceptedHas ==
  ASSUME NEW p, Accepted(p), OnACluster(p)
  PROVE  /\ p.target = "existing" /\ "storage" \notin p.parts
         /\ {"minio", "observability", "queue"} \cap p.parts # {} => p.storageClass
         /\ p.planes # << >> => HasDatabase(p) /\ "valkey" \in p.parts
         /\ "billing" \in p.parts => HasDatabase(p)
         /\ p.routes # << >> => "ingress" \in p.parts
         /\ \A i \in DOMAIN p.portals : p.planes # << >>
<1>1. p.target = "existing" /\ "storage" \notin p.parts
  BY DEF Accepted, TargetFits, OnACluster
<1>2. {"minio", "observability"} \cap p.parts # {} => p.storageClass
  BY <1>1 DEF Accepted, FieldsFit, HasStorage
<1>3. ASSUME "queue" \in p.parts
      PROVE  p.storageClass
  <2>1. "queue" \in Composed(p)
    BY <1>3 DEF Composed
  <2>2. "storage" \in DEPENDS_ON["queue"] \ Waived(p, "queue")
    BY DEF DEPENDS_ON, Waived, Over
  <2>3. "storage" \in Composed(p)
    BY <2>1, <2>2 DEF Accepted, _missing_dependency
  <2>4. "storage" \notin DOMAIN Lists(p)
    BY DEF Lists
  <2> QED
    BY <1>1, <2>3, <2>4 DEF Composed, HasStorage
<1>4. /\ p.planes # << >> => HasDatabase(p) /\ "valkey" \in p.parts
      /\ "billing" \in p.parts => HasDatabase(p)
      /\ p.routes # << >> => "ingress" \in p.parts
  BY DEF Accepted, FieldsFit
<1>5. \A i \in DOMAIN p.portals : p.planes # << >>
  <2>1. Lists(p)["controlplane"] = p.planes
    BY DEF Lists
  <2> QED
    BY <2>1 DEF Accepted, PortalsFit, Has
<1> QED
  BY <1>1, <1>2, <1>3, <1>4, <1>5

LEMMA IsLayerTellIf ==
  ASSUME NEW s, NEW c, NEW n, NEW sp, NEW told, NEW nd, NEW pb, NEW k, NEW v,
         IsLayer(s, c, n, sp, told, nd, pb), NEW condition
  PROVE  /\ condition => IsLayer(TellIf(s, condition, k, v), c, n, sp, told \cup {k}, nd, pb)
         /\ ~condition => IsLayer(TellIf(s, condition, k, v), c, n, sp, told, nd, pb)
<1> DEFINE e == With(s.explicit, k, v)
<1>1. DOMAIN e = told \cup {k}
  BY WithIs DEF IsLayer
<1>2. condition => TellIf(s, condition, k, v) = Told(s, e)
  BY DEF TellIf
<1>3. ~condition => TellIf(s, condition, k, v) = s
  BY DEF TellIf
<1> HIDE DEF e
<1>4. IsLayer(Told(s, e), c, n, sp, DOMAIN e, nd, pb)
  BY IsLayerTold
<1>5. condition => IsLayer(TellIf(s, condition, k, v), c, n, sp, told \cup {k}, nd, pb)
  BY <1>1, <1>2, <1>4, Zenon
<1>6. ~condition => IsLayer(TellIf(s, condition, k, v), c, n, sp, told, nd, pb)
  BY <1>3, Zenon
<1> QED
  BY <1>5, <1>6, Zenon

LEMMA FineItems ==
  ASSUME NEW keys, NEW capabilities, NEW n \in Nat, NEW f, f = [i \in 1..n |-> f[i]],
         \A i \in 1..n : Good(f[i], keys, capabilities)
  PROVE  Fine(f, keys, capabilities)
<1> DEFINE Y == {f[i] : i \in 1..n}
<1>1. f \in [1..n -> Y]
  OBVIOUS
<1>2. f \in Seq(Y) /\ DOMAIN f = 1..n
  BY <1>1
<1> HIDE DEF Y
<1> QED
  BY <1>2, Zenon DEF Fine, Good

\* A part of the script whose layers find what they need in it so far.
PartFits(seqs, n, a, keys, capabilities) ==
  /\ \E Y : seqs[a] \in Seq(Y)
  /\ \A b \in DOMAIN seqs[a] :
       /\ StepFits(seqs[a][b]) /\ Plain(seqs[a][b])
       /\ CoveredAt(seqs, n, a, b, keys, capabilities)

KeyAtHand(seqs, a, key, keys) ==
  \/ key \in keys \ {NoClass}
  \/ \E c \in 1..(a - 1) : \E d \in DOMAIN seqs[c] : Supplies(seqs[c][d], key)
CapabilityAtHand(seqs, a, r, capabilities) ==
  /\ r \in Founding
  /\ r \in capabilities \/ \E c \in 1..(a - 1) : \E d \in DOMAIN seqs[c] : Makes(seqs[c][d], r)

AllAtHand(seqs, a, asked, required, keys, capabilities) ==
  /\ \A key \in asked : KeyAtHand(seqs, a, key, keys)
  /\ \A r \in required : CapabilityAtHand(seqs, a, r, capabilities)

LEMMA PartBy ==
  ASSUME NEW n \in Nat, NEW a \in 1..n, NEW seqs, NEW keys, NEW capabilities,
         NEW asked, NEW required, Fine(seqs[a], asked, required),
         AllAtHand(seqs, a, asked, required, keys, capabilities)
  PROVE  PartFits(seqs, n, a, keys, capabilities)
<1>1. \A c \in 1..(a - 1) : c \in 1..n /\ \A d, b : Earlier(c, d, a, b)
  BY DEF Earlier
<1>2. ASSUME NEW b \in DOMAIN seqs[a]
      PROVE  /\ StepFits(seqs[a][b]) /\ Plain(seqs[a][b])
             /\ CoveredAt(seqs, n, a, b, keys, capabilities)
  <2>1. StepFits(seqs[a][b]) /\ Plain(seqs[a][b]) /\ Asks(seqs[a][b], asked, required)
    BY DEF Fine
  <2>2. ASSUME seqs[a][b].op = "layer", NEW key \in Demanded(seqs[a][b])
        PROVE  \/ KeyCovered(seqs[a][b], key, keys)
               \/ \E c \in 1..n : \E d \in DOMAIN seqs[c] :
                    Earlier(c, d, a, b) /\ Supplies(seqs[c][d], key)
    <3>1. KeyAtHand(seqs, a, key, keys)
      BY <2>1, <2>2 DEF Asks, AllAtHand
    <3> QED
      BY <1>1, <3>1 DEF KeyAtHand, KeyCovered
  <2>3. ASSUME seqs[a][b].op = "layer", NEW r \in seqs[a][b].spec.requires
        PROVE  /\ r \in Founding
               /\ \/ CapabilityCovered(seqs[a][b], r, capabilities)
                  \/ \E c \in 1..n : \E d \in DOMAIN seqs[c] :
                       Earlier(c, d, a, b) /\ Makes(seqs[c][d], r)
    <3>1. CapabilityAtHand(seqs, a, r, capabilities)
      BY <2>1, <2>3 DEF Asks, AllAtHand
    <3> QED
      BY <1>1, <3>1 DEF CapabilityAtHand, CapabilityCovered
  <2> QED
    BY <2>1, <2>2, <2>3, Zenon DEF CoveredAt
<1> QED
  BY <1>2 DEF PartFits, Fine

LEMMA PartNone ==
  ASSUME NEW n \in Nat, NEW a \in 1..n, NEW seqs, NEW keys, NEW capabilities, seqs[a] = << >>
  PROVE  PartFits(seqs, n, a, keys, capabilities)
<1>1. Fine(seqs[a], {}, {})
  BY FineNone
<1>2. AllAtHand(seqs, a, {}, {}, keys, capabilities)
  BY DEF AllAtHand
<1> QED
  BY <1>1, <1>2, PartBy

LEMMA PartsAre ==
  ASSUME NEW p, NEW seqs, seqs = PartsOf(p)
  PROVE  /\ DOMAIN seqs = 1..18 /\ seqs = [i \in 1..18 |-> seqs[i]]
         /\ seqs[1] = render_cluster(p) /\ seqs[2] = render_storage(p)
         /\ seqs[3] = render_minio(p) /\ seqs[4] = render_accelerator(p)
         /\ seqs[5] = render_inference(p) /\ seqs[6] = render_cache(p)
         /\ seqs[7] = render_database(p) /\ seqs[8] = render_controlplanes(p)
         /\ seqs[9] = render_observability(p) /\ seqs[10] = render_queue(p)
         /\ seqs[11] = render_tokenizer(p) /\ seqs[12] = render_enricher(p)
         /\ seqs[13] = render_policies(p) /\ seqs[14] = render_gateway(p)
         /\ seqs[15] = render_ingress(p) /\ seqs[16] = render_portals(p)
         /\ seqs[17] = render_billing(p) /\ seqs[18] = render_routes(p)
<1> DEFINE X == {render_cluster(p), render_storage(p), render_minio(p), render_accelerator(p),
    render_inference(p), render_cache(p), render_database(p), render_controlplanes(p),
    render_observability(p), render_queue(p), render_tokenizer(p), render_enricher(p),
    render_policies(p), render_gateway(p), render_ingress(p), render_portals(p),
    render_billing(p), render_routes(p)}
<1>1. DOMAIN seqs = 1..18
  BY DEF PartsOf
<1>2. seqs \in Seq(X) /\ Len(seqs) = 18
  BY DEF PartsOf
<1> HIDE DEF X
<1>3. seqs = [i \in 1..18 |-> seqs[i]]
  BY <1>2
<1> QED
  BY <1>1, <1>3 DEF PartsOf

LEMMA OnceIs ==
  ASSUME NEW p, NEW part, NEW s
  PROVE  /\ part \in p.parts => Once(p, part, s) = <<s>>
         /\ part \notin p.parts => Once(p, part, s) = << >>
BY DEF Once, When

LEMMA LayerSupplies ==
  ASSUME NEW s, NEW c, NEW n, NEW sp, NEW told, NEW nd, NEW pb,
         IsLayer(s, c, n, sp, told, nd, pb)
  PROVE  Makes(s, c) /\ \A k \in pb : Supplies(s, k)
BY DEF IsLayer, Makes, Supplies, Anytime

LEMMA ClusterAtHand ==
  ASSUME NEW seqs, NEW a, NEW p
  PROVE  /\ KeyAtHand(seqs, a, "kubeconfig_path", Kept(p))
         /\ CapabilityAtHand(seqs, a, "cluster", BuiltOn(p))
         /\ p.storageClass => /\ KeyAtHand(seqs, a, "storage_class", Kept(p))
                              /\ CapabilityAtHand(seqs, a, "storage", BuiltOn(p))
BY DEF KeyAtHand, CapabilityAtHand, Kept, NoClass, BuiltOn, Founding

LEMMA EmptyParts ==
  ASSUME NEW p, Accepted(p), OnACluster(p), NEW seqs, seqs = PartsOf(p)
  PROVE  PartFits(seqs, 18, 1, Kept(p), BuiltOn(p)) /\ PartFits(seqs, 18, 2, Kept(p), BuiltOn(p))
<1>1. seqs[1] = << >> /\ seqs[2] = << >>
  BY PartsAre, AcceptedHas DEF render_cluster, render_storage, When
<1> QED
  BY <1>1, PartNone

LEMMA MinioPart ==
  ASSUME NEW p, Accepted(p), OnACluster(p), NEW seqs, seqs = PartsOf(p)
  PROVE  PartFits(seqs, 18, 3, Kept(p), BuiltOn(p))
<1> DEFINE K == {"kubeconfig_path", "storage_class"}
           C == {"cluster", "storage"}
           s == Layer("objectstore", "minio", MinIOTenant)
<1>1. Sound(MinIOTenant, "objectstore", K, C) /\ NameFits("objectstore", "minio")
  BY Outputs, AllCapabilities
  DEF Sound, MinIOTenant, Declares, Founding, Foundations, NameFits
<1>2. MinIOTenant.required \ {} \subseteq K
  BY DEF MinIOTenant, Declares
<1>3. IsLayer(s, "objectstore", "minio", MinIOTenant, {}, {}, MinIOTenant.provides)
  BY IsLayerLayer
<1>4. seqs[3] = Once(p, "minio", s)
  BY PartsAre DEF render_minio
<1>5. "minio" \in p.parts => AllAtHand(seqs, 3, K, C, Kept(p), BuiltOn(p))
  BY ClusterAtHand, AcceptedHas DEF AllAtHand
<1> HIDE DEF K, C, s
<1>6. Good(s, K, C)
  BY <1>1, <1>2, <1>3, GoodPlain
<1>7. CASE "minio" \in p.parts
  <2>1. Fine(seqs[3], K, C)
    BY <1>4, <1>6, <1>7, OnceIs, FineSingle
  <2>2. 18 \in Nat /\ 3 \in 1..18
    OBVIOUS
  <2>3. AllAtHand(seqs, 3, K, C, Kept(p), BuiltOn(p))
    BY <1>5, <1>7
  <2> QED
    BY <2>1, <2>2, <2>3, PartBy, Zenon
<1>8. CASE "minio" \notin p.parts
  BY <1>4, <1>8, OnceIs, PartNone
<1> QED
  BY <1>7, <1>8

LEMMA MinioSupplies ==
  ASSUME NEW p, "minio" \in p.parts, NEW seqs, seqs = PartsOf(p)
  PROVE  /\ 1 \in DOMAIN seqs[3] /\ Supplies(seqs[3][1], "s3_endpoint_url")
         /\ Makes(seqs[3][1], "objectstore")
<1> DEFINE s == Layer("objectstore", "minio", MinIOTenant)
<1>1. IsLayer(s, "objectstore", "minio", MinIOTenant, {}, {}, MinIOTenant.provides)
  BY IsLayerLayer
<1>2. seqs[3] = Once(p, "minio", s)
  BY PartsAre DEF render_minio
<1>3. "s3_endpoint_url" \in MinIOTenant.provides
  BY DEF MinIOTenant, Declares
<1> HIDE DEF s
<1>4. Makes(s, "objectstore") /\ Supplies(s, "s3_endpoint_url")
  BY <1>1, <1>3, LayerSupplies
<1>5. seqs[3] = <<s>>
  BY <1>2, OnceIs
<1> QED
  BY <1>4, <1>5

LEMMA AcceleratorsPart ==
  ASSUME NEW p, Accepted(p), OnACluster(p), NEW seqs, seqs = PartsOf(p)
  PROVE  PartFits(seqs, 18, 4, Kept(p), BuiltOn(p))
<1> DEFINE K == {"kubeconfig_path"}
           C == {"cluster"}
           s == Layer("accelerator", "nvidia_device_plugin", Accelerator)
<1>1. Sound(Accelerator, "accelerator", K, C) /\ NameFits("accelerator", "nvidia_device_plugin")
  BY Outputs, AllCapabilities
  DEF Sound, Accelerator, Declares, Founding, Foundations, NameFits
<1>2. Accelerator.required \ {} \subseteq K
  BY DEF Accelerator, Declares
<1>3. IsLayer(s, "accelerator", "nvidia_device_plugin", Accelerator, {}, {}, Accelerator.provides)
  BY IsLayerLayer
<1>4. seqs[4] = Once(p, "accelerator", s)
  BY PartsAre DEF render_accelerator
<1>5. "accelerator" \in p.parts => AllAtHand(seqs, 4, K, C, Kept(p), BuiltOn(p))
  BY ClusterAtHand DEF AllAtHand
<1> HIDE DEF K, C, s
<1>6. Good(s, K, C)
  BY <1>1, <1>2, <1>3, GoodPlain
<1>7. CASE "accelerator" \in p.parts
  <2>1. Fine(seqs[4], K, C)
    BY <1>4, <1>6, <1>7, OnceIs, FineSingle
  <2>2. 18 \in Nat /\ 4 \in 1..18
    OBVIOUS
  <2>3. AllAtHand(seqs, 4, K, C, Kept(p), BuiltOn(p))
    BY <1>5, <1>7
  <2> QED
    BY <2>1, <2>2, <2>3, PartBy, Zenon
<1>8. CASE "accelerator" \notin p.parts
  BY <1>4, <1>8, OnceIs, PartNone
<1> QED
  BY <1>7, <1>8

LEMMA ValkeyPart ==
  ASSUME NEW p, Accepted(p), OnACluster(p), NEW seqs, seqs = PartsOf(p)
  PROVE  PartFits(seqs, 18, 6, Kept(p), BuiltOn(p))
<1> DEFINE K == {"kubeconfig_path"}
           C == {"cluster"}
           s == Layer("cache", "valkey", Cache)
<1>1. Sound(Cache, "cache", K, C) /\ NameFits("cache", "valkey")
  BY Outputs, AllCapabilities
  DEF Sound, Cache, Declares, Founding, Foundations, NameFits
<1>2. Cache.required \ {} \subseteq K
  BY DEF Cache, Declares
<1>3. IsLayer(s, "cache", "valkey", Cache, {}, {}, Cache.provides)
  BY IsLayerLayer
<1>4. seqs[6] = Once(p, "valkey", s)
  BY PartsAre DEF render_cache
<1>5. "valkey" \in p.parts => AllAtHand(seqs, 6, K, C, Kept(p), BuiltOn(p))
  BY ClusterAtHand DEF AllAtHand
<1> HIDE DEF K, C, s
<1>6. Good(s, K, C)
  BY <1>1, <1>2, <1>3, GoodPlain
<1>7. CASE "valkey" \in p.parts
  <2>1. Fine(seqs[6], K, C)
    BY <1>4, <1>6, <1>7, OnceIs, FineSingle
  <2>2. 18 \in Nat /\ 6 \in 1..18
    OBVIOUS
  <2>3. AllAtHand(seqs, 6, K, C, Kept(p), BuiltOn(p))
    BY <1>5, <1>7
  <2> QED
    BY <2>1, <2>2, <2>3, PartBy, Zenon
<1>8. CASE "valkey" \notin p.parts
  BY <1>4, <1>8, OnceIs, PartNone
<1> QED
  BY <1>7, <1>8

LEMMA ValkeySupplies ==
  ASSUME NEW p, "valkey" \in p.parts, NEW seqs, seqs = PartsOf(p)
  PROVE  /\ 1 \in DOMAIN seqs[6] /\ Supplies(seqs[6][1], "cache_url")
         /\ Makes(seqs[6][1], "cache")
<1> DEFINE s == Layer("cache", "valkey", Cache)
<1>1. IsLayer(s, "cache", "valkey", Cache, {}, {}, Cache.provides)
  BY IsLayerLayer
<1>2. seqs[6] = Once(p, "valkey", s)
  BY PartsAre DEF render_cache
<1>3. "cache_url" \in Cache.provides
  BY DEF Cache, Declares
<1> HIDE DEF s
<1>4. Makes(s, "cache") /\ Supplies(s, "cache_url")
  BY <1>1, <1>3, LayerSupplies
<1>5. seqs[6] = <<s>>
  BY <1>2, OnceIs
<1> QED
  BY <1>4, <1>5

LEMMA MonitoringPart ==
  ASSUME NEW p, Accepted(p), OnACluster(p), NEW seqs, seqs = PartsOf(p)
  PROVE  PartFits(seqs, 18, 9, Kept(p), BuiltOn(p))
<1> DEFINE K == {"kubeconfig_path", "storage_class"}
           C == {"cluster", "storage"}
           s == Layer("observability", "kube_prometheus_stack", Observability)
<1>1. /\ Sound(Observability, "observability", K, C)
      /\ NameFits("observability", "kube_prometheus_stack")
  BY Outputs, AllCapabilities
  DEF Sound, Observability, Declares, Founding, Foundations, NameFits
<1>2. Observability.required \ {} \subseteq K
  BY DEF Observability, Declares
<1>3. IsLayer(s, "observability", "kube_prometheus_stack", Observability, {}, {},
     Observability.provides)
  BY IsLayerLayer
<1>4. seqs[9] = Once(p, "observability", s)
  BY PartsAre DEF render_observability
<1>5. "observability" \in p.parts => AllAtHand(seqs, 9, K, C, Kept(p), BuiltOn(p))
  BY ClusterAtHand, AcceptedHas DEF AllAtHand
<1> HIDE DEF K, C, s
<1>6. Good(s, K, C)
  BY <1>1, <1>2, <1>3, GoodPlain
<1>7. CASE "observability" \in p.parts
  <2>1. Fine(seqs[9], K, C)
    BY <1>4, <1>6, <1>7, OnceIs, FineSingle
  <2>2. 18 \in Nat /\ 9 \in 1..18
    OBVIOUS
  <2>3. AllAtHand(seqs, 9, K, C, Kept(p), BuiltOn(p))
    BY <1>5, <1>7
  <2> QED
    BY <2>1, <2>2, <2>3, PartBy, Zenon
<1>8. CASE "observability" \notin p.parts
  BY <1>4, <1>8, OnceIs, PartNone
<1> QED
  BY <1>7, <1>8

LEMMA NatsPart ==
  ASSUME NEW p, Accepted(p), OnACluster(p), NEW seqs, seqs = PartsOf(p)
  PROVE  PartFits(seqs, 18, 10, Kept(p), BuiltOn(p))
<1> DEFINE K == {"kubeconfig_path", "storage_class"}
           C == {"cluster", "storage"}
           s == Layer("queue", "nats", Queue)
<1>1. Sound(Queue, "queue", K, C) /\ NameFits("queue", "nats")
  BY Outputs, AllCapabilities
  DEF Sound, Queue, Declares, Founding, Foundations, NameFits
<1>2. Queue.required \ {} \subseteq K
  BY DEF Queue, Declares
<1>3. IsLayer(s, "queue", "nats", Queue, {}, {}, Queue.provides)
  BY IsLayerLayer
<1>4. seqs[10] = Once(p, "queue", s)
  BY PartsAre DEF render_queue
<1>5. "queue" \in p.parts => AllAtHand(seqs, 10, K, C, Kept(p), BuiltOn(p))
  BY ClusterAtHand, AcceptedHas DEF AllAtHand
<1> HIDE DEF K, C, s
<1>6. Good(s, K, C)
  BY <1>1, <1>2, <1>3, GoodPlain
<1>7. CASE "queue" \in p.parts
  <2>1. Fine(seqs[10], K, C)
    BY <1>4, <1>6, <1>7, OnceIs, FineSingle
  <2>2. 18 \in Nat /\ 10 \in 1..18
    OBVIOUS
  <2>3. AllAtHand(seqs, 10, K, C, Kept(p), BuiltOn(p))
    BY <1>5, <1>7
  <2> QED
    BY <2>1, <2>2, <2>3, PartBy, Zenon
<1>8. CASE "queue" \notin p.parts
  BY <1>4, <1>8, OnceIs, PartNone
<1> QED
  BY <1>7, <1>8

LEMMA TiktokenPart ==
  ASSUME NEW p, Accepted(p), OnACluster(p), NEW seqs, seqs = PartsOf(p)
  PROVE  PartFits(seqs, 18, 11, Kept(p), BuiltOn(p))
<1> DEFINE K == {"kubeconfig_path"}
           C == {"cluster"}
           s == Layer("tokenizer", "tiktoken", Tokenizer)
<1>1. Sound(Tokenizer, "tokenizer", K, C) /\ NameFits("tokenizer", "tiktoken")
  BY Outputs, AllCapabilities
  DEF Sound, Tokenizer, Declares, Founding, Foundations, NameFits
<1>2. Tokenizer.required \ {} \subseteq K
  BY DEF Tokenizer, Declares
<1>3. IsLayer(s, "tokenizer", "tiktoken", Tokenizer, {}, {}, Tokenizer.provides)
  BY IsLayerLayer
<1>4. seqs[11] = Once(p, "tokenizer", s)
  BY PartsAre DEF render_tokenizer
<1>5. "tokenizer" \in p.parts => AllAtHand(seqs, 11, K, C, Kept(p), BuiltOn(p))
  BY ClusterAtHand DEF AllAtHand
<1> HIDE DEF K, C, s
<1>6. Good(s, K, C)
  BY <1>1, <1>2, <1>3, GoodPlain
<1>7. CASE "tokenizer" \in p.parts
  <2>1. Fine(seqs[11], K, C)
    BY <1>4, <1>6, <1>7, OnceIs, FineSingle
  <2>2. 18 \in Nat /\ 11 \in 1..18
    OBVIOUS
  <2>3. AllAtHand(seqs, 11, K, C, Kept(p), BuiltOn(p))
    BY <1>5, <1>7
  <2> QED
    BY <2>1, <2>2, <2>3, PartBy, Zenon
<1>8. CASE "tokenizer" \notin p.parts
  BY <1>4, <1>8, OnceIs, PartNone
<1> QED
  BY <1>7, <1>8

LEMMA GatewaysPart ==
  ASSUME NEW p, Accepted(p), OnACluster(p), NEW seqs, seqs = PartsOf(p)
  PROVE  PartFits(seqs, 18, 15, Kept(p), BuiltOn(p))
<1> DEFINE K == {"kubeconfig_path"}
           C == {"cluster"}
           s == Layer("ingress_gateway", "metallb_istio", IngressGateway)
<1>1. Sound(IngressGateway, "ingress_gateway", K, C) /\ NameFits("ingress_gateway", "metallb_istio")
  BY Outputs, AllCapabilities
  DEF Sound, IngressGateway, Declares, Founding, Foundations, NameFits
<1>2. IngressGateway.required \ {} \subseteq K
  BY DEF IngressGateway, Declares
<1>3. IsLayer(s, "ingress_gateway", "metallb_istio", IngressGateway, {}, {},
     IngressGateway.provides)
  BY IsLayerLayer
<1>4. seqs[15] = Once(p, "ingress", s)
  BY PartsAre DEF render_ingress
<1>5. "ingress" \in p.parts => AllAtHand(seqs, 15, K, C, Kept(p), BuiltOn(p))
  BY ClusterAtHand DEF AllAtHand
<1> HIDE DEF K, C, s
<1>6. Good(s, K, C)
  BY <1>1, <1>2, <1>3, GoodPlain
<1>7. CASE "ingress" \in p.parts
  <2>1. Fine(seqs[15], K, C)
    BY <1>4, <1>6, <1>7, OnceIs, FineSingle
  <2>2. 18 \in Nat /\ 15 \in 1..18
    OBVIOUS
  <2>3. AllAtHand(seqs, 15, K, C, Kept(p), BuiltOn(p))
    BY <1>5, <1>7
  <2> QED
    BY <2>1, <2>2, <2>3, PartBy, Zenon
<1>8. CASE "ingress" \notin p.parts
  BY <1>4, <1>8, OnceIs, PartNone
<1> QED
  BY <1>7, <1>8

LEMMA GatewaysSupplies ==
  ASSUME NEW p, "ingress" \in p.parts, NEW seqs, seqs = PartsOf(p)
  PROVE  /\ 1 \in DOMAIN seqs[15] /\ Supplies(seqs[15][1], "ingress_gateway_endpoint")
         /\ Makes(seqs[15][1], "ingress_gateway")
<1> DEFINE s == Layer("ingress_gateway", "metallb_istio", IngressGateway)
<1>1. IsLayer(s, "ingress_gateway", "metallb_istio", IngressGateway, {}, {},
     IngressGateway.provides)
  BY IsLayerLayer
<1>2. seqs[15] = Once(p, "ingress", s)
  BY PartsAre DEF render_ingress
<1>3. "ingress_gateway_endpoint" \in IngressGateway.provides
  BY DEF IngressGateway, Declares
<1> HIDE DEF s
<1>4. Makes(s, "ingress_gateway") /\ Supplies(s, "ingress_gateway_endpoint")
  BY <1>1, <1>3, LayerSupplies
<1>5. seqs[15] = <<s>>
  BY <1>2, OnceIs
<1> QED
  BY <1>4, <1>5

LEMMA PartFrom ==
  ASSUME NEW a \in 1..18, NEW seqs, NEW keys, NEW capabilities, NEW asked, NEW required,
         Fine(seqs[a], asked, required), AllAtHand(seqs, a, asked, required, keys, capabilities)
  PROVE  PartFits(seqs, 18, a, keys, capabilities)
<1>1. 18 \in Nat
  OBVIOUS
<1> QED
  BY <1>1, PartBy, Zenon

\* The model that inference serves, with the source it was told.
LEMMA InferenceStep ==
  ASSUME NEW p
  PROVE  \E s :
           /\ render_inference(p) = Once(p, "inference", s)
           /\ Good(s, {"kubeconfig_path"} \cup
                      (IF "minio" \in p.parts THEN {"s3_endpoint_url"} ELSE {}), {"cluster"})
           /\ Supplies(s, "inference_endpoint")
<1> DEFINE K == {"kubeconfig_path"} \cup
                (IF "minio" \in p.parts THEN {"s3_endpoint_url"} ELSE {})
           C == {"cluster"}
           sp == IF p.s3Model THEN Inference ELSE InferencePublicModel
           e == [s3_secret_name |-> "given"]
           m == IF p.s3Model THEN Told(Layer("inference", "vllm", Inference), e)
                ELSE Layer("inference", "vllm", InferencePublicModel)
           cond == p.s3Model /\ "minio" \notin p.parts
           told == IF p.s3Model THEN {"s3_secret_name"} ELSE {}
           s == TellIf(m, cond, "s3_endpoint_url", "given")
<1>1. render_inference(p) = Once(p, "inference", s)
  BY DEF render_inference
<1>2. Sound(Inference, "inference", K, C) /\ NameFits("inference", "vllm")
  BY Outputs, AllCapabilities
  DEF Sound, Inference, Declares, Founding, Foundations, NameFits
<1>3. /\ InferencePublicModel.requires = Inference.requires
      /\ InferencePublicModel.provides = Inference.provides
      /\ InferencePublicModel.required = {}
  <2>1. Inference = [requires |-> Inference.requires, fromStack |-> Inference.fromStack,
                     required |-> Inference.required, provides |-> Inference.provides]
    BY DEF Inference, Declares
  <2>2. SUFFICES ASSUME NEW r, r = InferencePublicModel
                 PROVE  /\ r.requires = Inference.requires /\ r.provides = Inference.provides
                        /\ r.required = {}
    OBVIOUS
  <2> QED
    BY <2>1, <2>2 DEF InferencePublicModel
<1>4. Sound(sp, "inference", K, C) /\ "inference_endpoint" \in sp.provides
  <2>1. "inference_endpoint" \in Inference.provides
    BY DEF Inference, Declares
  <2> HIDE DEF K, C
  <2> QED
    BY <1>2, <1>3, <2>1 DEF Sound
<1>5. Inference.required = {"s3_endpoint_url", "s3_secret_name"}
  BY DEF Inference, Declares
<1>6. IsLayer(m, "inference", "vllm", sp, told, {}, sp.provides)
  <2>1. CASE p.s3Model
    <3>1. IsLayer(Told(Layer("inference", "vllm", Inference), e), "inference", "vllm", Inference,
                  DOMAIN e, {}, Inference.provides)
      BY IsLayerLayer, IsLayerTold
    <3>2. DOMAIN e = told
      BY <2>1
    <3> QED
      BY <2>1, <3>1, <3>2
  <2>2. CASE ~p.s3Model
    BY <2>2, IsLayerLayer
  <2> QED
    BY <2>1, <2>2
<1> HIDE DEF m, s
<1>7. CASE cond
  <2>1. IsLayer(s, "inference", "vllm", sp, told \cup {"s3_endpoint_url"}, {}, sp.provides)
    BY <1>6, <1>7, IsLayerTellIf DEF s
  <2>2. sp.required \ (told \cup {"s3_endpoint_url"}) \subseteq K
    BY <1>5, <1>7
  <2> HIDE DEF K, C, sp, told, cond
  <2>3. Good(s, K, C) /\ Supplies(s, "inference_endpoint")
    BY <1>2, <1>4, <2>1, <2>2, GoodPlain, LayerSupplies
  <2> QED
    BY <1>1, <2>3 DEF K, C
<1>8. CASE ~cond
  <2>1. IsLayer(s, "inference", "vllm", sp, told, {}, sp.provides)
    BY <1>6, <1>8, IsLayerTellIf DEF s
  <2>2. sp.required \ told \subseteq K
    BY <1>3, <1>5, <1>8
  <2> HIDE DEF K, C, sp, told, cond
  <2>3. Good(s, K, C) /\ Supplies(s, "inference_endpoint")
    BY <1>2, <1>4, <2>1, <2>2, GoodPlain, LayerSupplies
  <2> QED
    BY <1>1, <2>3 DEF K, C
<1> QED
  BY <1>7, <1>8

LEMMA InferencePart ==
  ASSUME NEW p, Accepted(p), OnACluster(p), NEW seqs, seqs = PartsOf(p)
  PROVE  PartFits(seqs, 18, 5, Kept(p), BuiltOn(p))
<1> DEFINE K == {"kubeconfig_path"} \cup
                (IF "minio" \in p.parts THEN {"s3_endpoint_url"} ELSE {})
<1>1. PICK s : render_inference(p) = Once(p, "inference", s) /\ Good(s, K, {"cluster"})
  BY InferenceStep
<1>2. "minio" \in p.parts => KeyAtHand(seqs, 5, "s3_endpoint_url", Kept(p))
  <2>1. 3 \in 1..(5 - 1)
    OBVIOUS
  <2> QED
    BY <2>1, MinioSupplies DEF KeyAtHand
<1>3. AllAtHand(seqs, 5, K, {"cluster"}, Kept(p), BuiltOn(p))
  BY <1>2, ClusterAtHand DEF AllAtHand
<1> HIDE DEF K
<1>4. seqs[5] = Once(p, "inference", s)
  BY <1>1, PartsAre
<1>5. CASE "inference" \in p.parts
  <2>1. Fine(seqs[5], K, {"cluster"})
    BY <1>1, <1>4, <1>5, OnceIs, FineSingle
  <2> QED
    BY <1>3, <2>1, PartFrom
<1>6. CASE "inference" \notin p.parts
  BY <1>4, <1>6, OnceIs, PartNone
<1> QED
  BY <1>5, <1>6

LEMMA InferenceSupplies ==
  ASSUME NEW p, "inference" \in p.parts, NEW seqs, seqs = PartsOf(p)
  PROVE  1 \in DOMAIN seqs[5] /\ Supplies(seqs[5][1], "inference_endpoint")
<1>1. PICK s : render_inference(p) = Once(p, "inference", s) /\ Supplies(s, "inference_endpoint")
  BY InferenceStep
<1>2. seqs[5] = <<s>>
  BY <1>1, PartsAre, OnceIs
<1> QED
  BY <1>1, <1>2

LEMMA DatabasePart ==
  ASSUME NEW p, Accepted(p), OnACluster(p), NEW seqs, seqs = PartsOf(p)
  PROVE  PartFits(seqs, 18, 7, Kept(p), BuiltOn(p))
<1> DEFINE K == {"kubeconfig_path"}
           C == {"cluster"}
           o == Layer("database-operator", "cnpg-operator", DatabaseOperator)
           s == Layer("database", "pg", Database)
<1>1. /\ Sound(DatabaseOperator, "database-operator", K, C)
      /\ NameFits("database-operator", "cnpg-operator")
  BY Outputs, AllCapabilities
  DEF Sound, DatabaseOperator, Declares, Founding, Foundations, NameFits
<1>2. Sound(Database, "database", K, C) /\ NameFits("database", "pg")
  BY Outputs, AllCapabilities
  DEF Sound, Database, Declares, Founding, Foundations, NameFits
<1>3. DatabaseOperator.required \ {} \subseteq K /\ Database.required \ {} \subseteq K
  BY DEF DatabaseOperator, Database, Declares
<1>4. AllAtHand(seqs, 7, K, C, Kept(p), BuiltOn(p))
  BY ClusterAtHand DEF AllAtHand
<1> HIDE DEF K, C
<1>5. Good(o, K, C) /\ Good(s, K, C)
  BY <1>1, <1>2, <1>3, IsLayerLayer, GoodPlain
<1>6. seqs[7] = Once(p, "cnpg", o) \o When(HasDatabase(p), <<s>>)
  BY PartsAre DEF render_database
<1> HIDE DEF o, s
<1>7. Fine(Once(p, "cnpg", o), K, C)
  BY <1>5, OnceIs, FineSingle, FineNone
<1>8. Fine(When(HasDatabase(p), <<s>>), K, C)
  BY <1>5, FineSingle, FineNone DEF When
<1>9. Fine(seqs[7], K, C)
  BY <1>6, <1>7, <1>8, FineJoin
<1> QED
  BY <1>4, <1>9, PartFrom

LEMMA DatabaseSupplies ==
  ASSUME NEW p, HasDatabase(p), NEW seqs, seqs = PartsOf(p)
  PROVE  /\ 2 \in DOMAIN seqs[7] /\ Supplies(seqs[7][2], "database_url")
         /\ Makes(seqs[7][2], "database")
<1> DEFINE o == Layer("database-operator", "cnpg-operator", DatabaseOperator)
           s == Layer("database", "pg", Database)
<1>1. IsLayer(s, "database", "pg", Database, {}, {}, Database.provides)
  BY IsLayerLayer
<1>2. "database_url" \in Database.provides
  BY DEF Database, Declares
<1>3. seqs[7] = Once(p, "cnpg", o) \o When(HasDatabase(p), <<s>>)
  BY PartsAre DEF render_database
<1> HIDE DEF o, s
<1>4. Makes(s, "database") /\ Supplies(s, "database_url")
  BY <1>1, <1>2, LayerSupplies
<1>5. seqs[7] = <<o>> \o <<s>>
  BY <1>3, OnceIs DEF When, HasDatabase
<1>6. 2 \in DOMAIN seqs[7] /\ seqs[7][2] = s
  BY <1>5
<1> QED
  BY <1>4, <1>6

LEMMA PlanesAre ==
  ASSUME NEW p, OnACluster(p), NEW seqs, seqs = PartsOf(p)
  PROVE  /\ Len(p.planes) \in Nat /\ DOMAIN p.planes = 1..Len(p.planes)
         /\ DOMAIN seqs[8] = 1..Len(p.planes)
         /\ seqs[8] = [i \in 1..Len(p.planes) |-> seqs[8][i]]
         /\ \A i \in 1..Len(p.planes) : p.planes[i] \in {"admin", "organization"} /\
              \E told : IsLayer(seqs[8][i], "controlplane", p.planes[i], ControlPlane, told, {},
                                ControlPlane.provides)
<1> DEFINE L(type) == Layer("controlplane", type, ControlPlane)
           R(type) == TellIf(L(type), "billing" \in p.parts, "billing_endpoint", "stripe")
<1>1. /\ Len(p.planes) \in Nat /\ DOMAIN p.planes = 1..Len(p.planes)
      /\ \A i \in 1..Len(p.planes) : p.planes[i] \in {"admin", "organization"}
  BY DEF OnACluster
<1>2. seqs[8] = [i \in DOMAIN p.planes |-> R(p.planes[i])]
  BY PartsAre DEF render_controlplanes, PerItem
<1>3. ASSUME NEW i \in 1..Len(p.planes)
      PROVE  \E told : IsLayer(R(p.planes[i]), "controlplane", p.planes[i], ControlPlane, told, {},
                               ControlPlane.provides)
  BY IsLayerLayer, IsLayerTellIf
<1> HIDE DEF R
<1>4. \A i \in 1..Len(p.planes) : seqs[8][i] = R(p.planes[i])
  BY <1>1, <1>2
<1> QED
  BY <1>1, <1>2, <1>3, <1>4

LEMMA PlanesPart ==
  ASSUME NEW p, Accepted(p), OnACluster(p), NEW seqs, seqs = PartsOf(p)
  PROVE  PartFits(seqs, 18, 8, Kept(p), BuiltOn(p))
<1> DEFINE K == {"kubeconfig_path", "database_url", "cache_url"}
           C == {"cluster", "database", "cache"}
<1>1. /\ Len(p.planes) \in Nat /\ DOMAIN p.planes = 1..Len(p.planes)
      /\ DOMAIN seqs[8] = 1..Len(p.planes)
      /\ seqs[8] = [i \in 1..Len(p.planes) |-> seqs[8][i]]
  BY PlanesAre
<1>2. CASE p.planes = << >>
  <2>1. seqs[8] = << >>
    BY <1>1, <1>2
  <2> QED
    BY <2>1, PartNone
<1>3. CASE p.planes # << >>
  <2>1. ASSUME NEW i \in 1..Len(p.planes)
        PROVE  Good(seqs[8][i], K, C)
    <3>1. PICK told : IsLayer(seqs[8][i], "controlplane", p.planes[i], ControlPlane, told, {},
                              ControlPlane.provides)
      BY PlanesAre
    <3>2. p.planes[i] \in {"admin", "organization"}
      BY PlanesAre
    <3>3. Sound(ControlPlane, "controlplane", K, C) /\ NameFits("controlplane", p.planes[i])
      BY <3>2, Outputs, AllCapabilities
      DEF Sound, ControlPlane, Declares, Founding, Foundations, NameFits
    <3>4. ControlPlane.required \ told \subseteq K
      BY DEF ControlPlane, Declares
    <3> HIDE DEF K, C
    <3> QED
      BY <3>1, <3>3, <3>4, GoodPlain
  <2>2. HasDatabase(p) /\ "valkey" \in p.parts
    BY <1>3, AcceptedHas
  <2>3. /\ KeyAtHand(seqs, 8, "database_url", Kept(p))
        /\ CapabilityAtHand(seqs, 8, "database", BuiltOn(p))
    <3>1. 7 \in 1..(8 - 1)
      OBVIOUS
    <3> QED
      BY <2>2, <3>1, DatabaseSupplies DEF KeyAtHand, CapabilityAtHand, Founding
  <2>4. /\ KeyAtHand(seqs, 8, "cache_url", Kept(p))
        /\ CapabilityAtHand(seqs, 8, "cache", BuiltOn(p))
    <3>1. 6 \in 1..(8 - 1)
      OBVIOUS
    <3> QED
      BY <2>2, <3>1, ValkeySupplies DEF KeyAtHand, CapabilityAtHand, Founding
  <2>5. AllAtHand(seqs, 8, K, C, Kept(p), BuiltOn(p))
    BY <2>3, <2>4, ClusterAtHand DEF AllAtHand
  <2> HIDE DEF K, C
  <2>6. Fine(seqs[8], K, C)
    BY <1>1, <2>1, FineItems
  <2> QED
    BY <2>5, <2>6, PartFrom
<1> QED
  BY <1>2, <1>3

LEMMA PlanesSupply ==
  ASSUME NEW p, OnACluster(p), p.planes # << >>, NEW seqs, seqs = PartsOf(p)
  PROVE  1 \in DOMAIN seqs[8] /\ Supplies(seqs[8][1], "controlplane_endpoint")
<1>1. 1 \in 1..Len(p.planes)
  BY DEF OnACluster
<1>2. PICK told : IsLayer(seqs[8][1], "controlplane", p.planes[1], ControlPlane, told, {},
                          ControlPlane.provides)
  BY <1>1, PlanesAre
<1>3. "controlplane_endpoint" \in ControlPlane.provides
  BY DEF ControlPlane, Declares
<1>4. Supplies(seqs[8][1], "controlplane_endpoint")
  BY <1>2, <1>3, LayerSupplies
<1>5. 1 \in DOMAIN seqs[8]
  BY <1>1, PlanesAre
<1> QED
  BY <1>4, <1>5

LEMMA EnricherPart ==
  ASSUME NEW p, Accepted(p), OnACluster(p), NEW seqs, seqs = PartsOf(p)
  PROVE  PartFits(seqs, 18, 12, Kept(p), BuiltOn(p))
<1> DEFINE K == {"kubeconfig_path"}
           C == {"cluster"}
           l == Layer("enricher", "enricher", Enricher)
           r == Reads(l, IF "tokenizer" \in p.parts THEN {"tokenizer_url"} ELSE {})
           s == TellIf(r, "queue" \in p.parts, "event_backbone_url", "nats")
<1>1. Sound(Enricher, "enricher", K, C) /\ NameFits("enricher", "enricher")
  BY Outputs, AllCapabilities
  DEF Sound, Enricher, Declares, Founding, Foundations, NameFits
<1>2. \A told : Enricher.required \ told \subseteq K
  BY DEF Enricher, Declares
<1>3. AllAtHand(seqs, 12, K, C, Kept(p), BuiltOn(p))
  BY ClusterAtHand DEF AllAtHand
<1>4. seqs[12] = Once(p, "enricher", s)
  BY PartsAre DEF render_enricher
<1>5. IsLayer(r, "enricher", "enricher", Enricher, {}, {}, Enricher.provides)
  BY IsLayerLayer, IsLayerReads
<1> HIDE DEF K, C, l, r
<1>6. PICK told : IsLayer(s, "enricher", "enricher", Enricher, told, {}, Enricher.provides)
  BY <1>5, IsLayerTellIf
<1> HIDE DEF s
<1>7. Good(s, K, C)
  BY <1>1, <1>2, <1>6, GoodPlain
<1>8. Fine(seqs[12], K, C)
  BY <1>4, <1>7, OnceIs, FineSingle, FineNone
<1> QED
  BY <1>3, <1>8, PartFrom

LEMMA PoliciesAre ==
  ASSUME NEW p, OnACluster(p), NEW seqs, seqs = PartsOf(p)
  PROVE  /\ Len(p.policies) \in Nat /\ DOMAIN p.policies = 1..Len(p.policies)
         /\ DOMAIN seqs[13] = 1..Len(p.policies)
         /\ seqs[13] = [i \in 1..Len(p.policies) |-> seqs[13][i]]
         /\ \A i \in 1..Len(p.policies) : p.policies[i] \in {"rpm", "tpm"} /\
              \E told :
                /\ IsLayer(seqs[13][i], "policy", p.policies[i], Policy, told, {},
                           {Limiter(p.policies[i])} \cup Policy.provides)
                /\ "valkey" \notin p.parts => "cache_url" \in told
<1> DEFINE L(type) == Keeps(Layer("policy", type, Policy), {Limiter(type)})
           Q(type) == TellIf(L(type), "valkey" \notin p.parts, "cache_url", "given")
           R(type) == TellIf(Q(type), Has(p, "controlplane", "admin"), "admin_cp_url", "admin")
<1>1. /\ Len(p.policies) \in Nat /\ DOMAIN p.policies = 1..Len(p.policies)
      /\ \A i \in 1..Len(p.policies) : p.policies[i] \in {"rpm", "tpm"}
  BY DEF OnACluster
<1>2. seqs[13] = [i \in DOMAIN p.policies |-> R(p.policies[i])]
  BY PartsAre DEF render_policies, PerItem
<1>3. ASSUME NEW type
      PROVE  \E told : /\ IsLayer(R(type), "policy", type, Policy, told, {},
                                  {Limiter(type)} \cup Policy.provides)
                       /\ "valkey" \notin p.parts => "cache_url" \in told
  <2> DEFINE pb == {Limiter(type)} \cup Policy.provides
  <2>1. IsLayer(L(type), "policy", type, Policy, {}, {}, pb)
    BY IsLayerLayer, IsLayerKeeps
  <2> HIDE DEF L, pb
  <2>2. \E told : /\ IsLayer(Q(type), "policy", type, Policy, told, {}, pb)
                  /\ "valkey" \notin p.parts => "cache_url" \in told
    <3>1. CASE "valkey" \notin p.parts
      <4>1. IsLayer(Q(type), "policy", type, Policy, {} \cup {"cache_url"}, {}, pb)
        BY <2>1, <3>1, IsLayerTellIf
      <4>2. "cache_url" \in {} \cup {"cache_url"}
        OBVIOUS
      <4> QED
        BY <4>1, <4>2, Zenon
    <3>2. CASE "valkey" \in p.parts
      <4>1. IsLayer(Q(type), "policy", type, Policy, {}, {}, pb)
        BY <2>1, <3>2, IsLayerTellIf
      <4> QED
        BY <3>2, <4>1, Zenon
    <3> QED
      BY <3>1, <3>2
  <2>3. PICK told : /\ IsLayer(Q(type), "policy", type, Policy, told, {}, pb)
                    /\ "valkey" \notin p.parts => "cache_url" \in told
    BY <2>2
  <2> HIDE DEF Q
  <2>4. \/ IsLayer(R(type), "policy", type, Policy, told \cup {"admin_cp_url"}, {}, pb)
        \/ IsLayer(R(type), "policy", type, Policy, told, {}, pb)
    BY <2>3, IsLayerTellIf
  <2> HIDE DEF R
  <2>5. "valkey" \notin p.parts => "cache_url" \in told \cup {"admin_cp_url"}
    BY <2>3
  <2> QED
    BY <2>3, <2>4, <2>5 DEF pb
<1> HIDE DEF R
<1>4. \A i \in 1..Len(p.policies) : seqs[13][i] = R(p.policies[i])
  BY <1>1, <1>2
<1> QED
  BY <1>1, <1>2, <1>3, <1>4

LEMMA PoliciesPart ==
  ASSUME NEW p, Accepted(p), OnACluster(p), NEW seqs, seqs = PartsOf(p)
  PROVE  PartFits(seqs, 18, 13, Kept(p), BuiltOn(p))
<1> DEFINE K == {"kubeconfig_path"} \cup (IF "valkey" \in p.parts THEN {"cache_url"} ELSE {})
           C == {"cluster"}
<1>1. /\ Len(p.policies) \in Nat /\ DOMAIN seqs[13] = 1..Len(p.policies)
      /\ seqs[13] = [i \in 1..Len(p.policies) |-> seqs[13][i]]
  BY PoliciesAre
<1>2. ASSUME NEW i \in 1..Len(p.policies)
      PROVE  Good(seqs[13][i], K, C)
  <2> DEFINE type == p.policies[i]
  <2>1. type \in {"rpm", "tpm"}
    BY PoliciesAre
  <2>2. PICK told : /\ IsLayer(seqs[13][i], "policy", type, Policy, told, {},
                               {Limiter(type)} \cup Policy.provides)
                    /\ "valkey" \notin p.parts => "cache_url" \in told
    BY PoliciesAre
  <2>3. Sound(Policy, "policy", K, C) /\ NameFits("policy", type)
    BY <2>1, Outputs, AllCapabilities
    DEF Sound, Policy, Declares, Founding, Foundations, NameFits
  <2>4. Policy.required \ told \subseteq K /\ {} \subseteq K
    BY <2>2 DEF Policy, Declares
  <2>5. {"kubeconfig_path", "ingress_gateway_endpoint"} \cap {Limiter(type)} = {}
        /\ "db_urls" \notin {Limiter(type)}
    BY DEF Limiter
  <2> HIDE DEF K, C, type
  <2> QED
    BY <2>2, <2>3, <2>4, <2>5, GoodLayer, Zenon
<1>3. "valkey" \in p.parts => KeyAtHand(seqs, 13, "cache_url", Kept(p))
  <2>1. 6 \in 1..(13 - 1)
    OBVIOUS
  <2> QED
    BY <2>1, ValkeySupplies DEF KeyAtHand
<1>4. AllAtHand(seqs, 13, K, C, Kept(p), BuiltOn(p))
  BY <1>3, ClusterAtHand DEF AllAtHand
<1> HIDE DEF K, C
<1>5. Fine(seqs[13], K, C)
  BY <1>1, <1>2, FineItems
<1> QED
  BY <1>4, <1>5, PartFrom

LEMMA PoliciesSupply ==
  ASSUME NEW p, OnACluster(p), NEW seqs, seqs = PartsOf(p), NEW i \in DOMAIN p.policies
  PROVE  i \in DOMAIN seqs[13] /\ Supplies(seqs[13][i], Limiter(p.policies[i]))
<1>1. i \in 1..Len(p.policies)
  BY PoliciesAre
<1>2. PICK told : IsLayer(seqs[13][i], "policy", p.policies[i], Policy, told, {},
                          {Limiter(p.policies[i])} \cup Policy.provides)
  BY <1>1, PoliciesAre
<1>3. i \in DOMAIN seqs[13]
  BY <1>1, PoliciesAre
<1>4. Limiter(p.policies[i]) \in {Limiter(p.policies[i])} \cup Policy.provides
  OBVIOUS
<1>5. Supplies(seqs[13][i], Limiter(p.policies[i]))
  BY <1>2, <1>4, LayerSupplies, Zenon
<1> QED
  BY <1>3, <1>5

\* The gateway names the variables of the limiters and of the model.
Named(p) ==
  {Limiter(p.policies[i]) : i \in DOMAIN p.policies} \cup
  (IF "inference" \in p.parts THEN {"inference_endpoint"} ELSE {})

LEMMA GatewayStep ==
  ASSUME NEW p
  PROVE  \E s, told :
           /\ render_gateway(p) = Once(p, "gateway", s)
           /\ IsLayer(s, "gateway", "modelgateway", Gateway, told, Named(p), Gateway.provides)
           /\ "api_key_secret" \in told
<1> DEFINE e == [api_key_secret |-> "given", org_cp_internal_url |-> "organization"]
           l == Told(Layer("gateway", "modelgateway", Gateway), e)
           r == Names(l, Named(p))
           s == TellIf(r, "inference" \notin p.parts, "inference_endpoint", "given")
<1>1. render_gateway(p) = Once(p, "gateway", s)
  BY DEF render_gateway, Named
<1>2. "api_key_secret" \in DOMAIN e
  OBVIOUS
<1> HIDE DEF e
<1>3. IsLayer(l, "gateway", "modelgateway", Gateway, DOMAIN e, {}, Gateway.provides)
  BY IsLayerLayer, IsLayerTold
<1> HIDE DEF l
<1>4. IsLayer(r, "gateway", "modelgateway", Gateway, DOMAIN e, Named(p), Gateway.provides)
  BY <1>3, IsLayerNames
<1> HIDE DEF r
<1>5. \/ IsLayer(s, "gateway", "modelgateway", Gateway, DOMAIN e \cup {"inference_endpoint"},
                 Named(p), Gateway.provides)
      \/ IsLayer(s, "gateway", "modelgateway", Gateway, DOMAIN e, Named(p), Gateway.provides)
  BY <1>4, IsLayerTellIf
<1> HIDE DEF s
<1>6. "api_key_secret" \in DOMAIN e \cup {"inference_endpoint"}
  BY <1>2
<1> QED
  BY <1>1, <1>2, <1>5, <1>6

LEMMA GatewayPart ==
  ASSUME NEW p, Accepted(p), OnACluster(p), NEW seqs, seqs = PartsOf(p)
  PROVE  PartFits(seqs, 18, 14, Kept(p), BuiltOn(p))
<1> DEFINE K == {"kubeconfig_path"} \cup Named(p)
           C == {"cluster"}
<1>1. PICK s, told :
        /\ render_gateway(p) = Once(p, "gateway", s)
        /\ IsLayer(s, "gateway", "modelgateway", Gateway, told, Named(p), Gateway.provides)
        /\ "api_key_secret" \in told
  BY GatewayStep
<1>2. Sound(Gateway, "gateway", K, C) /\ NameFits("gateway", "modelgateway")
  BY Outputs, AllCapabilities
  DEF Sound, Gateway, Declares, Founding, Foundations, NameFits
<1>3. Gateway.required \ told \subseteq K /\ Named(p) \subseteq K
  BY <1>1 DEF Gateway, Declares
<1>4. \A key \in Named(p) : KeyAtHand(seqs, 14, key, Kept(p))
  <2>1. 5 \in 1..(14 - 1) /\ 13 \in 1..(14 - 1)
    OBVIOUS
  <2>2. \A i \in DOMAIN p.policies : KeyAtHand(seqs, 14, Limiter(p.policies[i]), Kept(p))
    BY <2>1, PoliciesSupply DEF KeyAtHand
  <2>3. "inference" \in p.parts => KeyAtHand(seqs, 14, "inference_endpoint", Kept(p))
    BY <2>1, InferenceSupplies DEF KeyAtHand
  <2> QED
    BY <2>2, <2>3 DEF Named
<1>5. AllAtHand(seqs, 14, K, C, Kept(p), BuiltOn(p))
  BY <1>4, ClusterAtHand DEF AllAtHand
<1> HIDE DEF K, C
<1>6. Good(s, K, C)
  BY <1>1, <1>2, <1>3, GoodNaming
<1>7. seqs[14] = Once(p, "gateway", s)
  BY <1>1, PartsAre
<1>8. Fine(seqs[14], K, C)
  BY <1>6, <1>7, OnceIs, FineSingle, FineNone
<1> QED
  BY <1>5, <1>8, PartFrom

LEMMA GatewaySupplies ==
  ASSUME NEW p, "gateway" \in p.parts, NEW seqs, seqs = PartsOf(p)
  PROVE  1 \in DOMAIN seqs[14] /\ Supplies(seqs[14][1], "gateway_endpoint")
<1>1. PICK s, told :
        /\ render_gateway(p) = Once(p, "gateway", s)
        /\ IsLayer(s, "gateway", "modelgateway", Gateway, told, Named(p), Gateway.provides)
  BY GatewayStep
<1>2. "gateway_endpoint" \in Gateway.provides
  BY DEF Gateway, Declares
<1>3. Supplies(s, "gateway_endpoint")
  BY <1>1, <1>2, LayerSupplies
<1>4. seqs[14] = <<s>>
  BY <1>1, PartsAre, OnceIs
<1> QED
  BY <1>3, <1>4

\* A portal that names the gateway.
LEMMA GoodPortal ==
  ASSUME NEW s, NEW type, NEW told, NEW keys, NEW capabilities,
         Sound(Portal, "portal", keys, capabilities), NameFits("portal", type),
         IsLayer(s, "portal", type, Portal, told, {"gateway_endpoint"}, Portal.provides),
         Portal.required \ told \subseteq keys, {"gateway_endpoint"} \subseteq keys
  PROVE  Good(s, keys, capabilities)
BY GoodNaming

LEMMA PortalsPart ==
  ASSUME NEW p, Accepted(p), OnACluster(p), NEW seqs, seqs = PartsOf(p)
  PROVE  PartFits(seqs, 18, 16, Kept(p), BuiltOn(p))
<1> DEFINE K == {"kubeconfig_path", "controlplane_endpoint"} \cup
                (IF "gateway" \in p.parts THEN {"gateway_endpoint"} ELSE {})
           C == {"cluster"}
           L(type) == TellIf(Layer("portal", type, Portal),
                             Len(p.planes) # 1 /\ type \in p.upstreams,
                             "controlplane_endpoint", type)
           R(type) == IF type = "organization" /\ "gateway" \in p.parts
                      THEN Names(L(type), {"gateway_endpoint"}) ELSE L(type)
<1>1. /\ Len(p.portals) \in Nat /\ DOMAIN p.portals = 1..Len(p.portals)
      /\ \A i \in 1..Len(p.portals) : p.portals[i] \in {"admin", "organization"}
  BY DEF OnACluster
<1>2. seqs[16] = [i \in DOMAIN p.portals |-> R(p.portals[i])]
  BY PartsAre DEF render_portals, PerItem
<1>3. ASSUME NEW type \in {"admin", "organization"}
      PROVE  Good(R(type), K, C)
  <2>1. Sound(Portal, "portal", K, C) /\ NameFits("portal", type)
    BY Outputs, AllCapabilities
    DEF Sound, Portal, Declares, Founding, Foundations, NameFits
  <2>2. \A told : Portal.required \ told \subseteq K
    BY DEF Portal, Declares
  <2>4. PICK told : IsLayer(L(type), "portal", type, Portal, told, {}, Portal.provides)
    BY IsLayerLayer, IsLayerTellIf
  <2>5. CASE type = "organization" /\ "gateway" \in p.parts
    <3>1. {"gateway_endpoint"} \subseteq K
      BY <2>5
    <3> HIDE DEF K, C, L
    <3>2. IsLayer(Names(L(type), {"gateway_endpoint"}), "portal", type, Portal, told,
                  {"gateway_endpoint"}, Portal.provides)
      BY <2>4, IsLayerNames, Zenon
    <3>3. R(type) = Names(L(type), {"gateway_endpoint"})
      BY <2>5, Zenon
    <3> HIDE DEF R
    <3>4. PICK s : s = R(type)
      OBVIOUS
    <3>5. IsLayer(s, "portal", type, Portal, told, {"gateway_endpoint"}, Portal.provides)
      BY <3>2, <3>3, <3>4
    <3>6. Portal.required \ told \subseteq K
      BY <2>2
    <3>7. Good(s, K, C)
      BY <2>1, <3>1, <3>5, <3>6, GoodPortal
    <3> QED
      BY <3>4, <3>7
  <2>6. CASE ~(type = "organization" /\ "gateway" \in p.parts)
    <3> HIDE DEF K, C, L
    <3>1. IsLayer(R(type), "portal", type, Portal, told, {}, Portal.provides)
      BY <2>4, <2>6
    <3> HIDE DEF R
    <3> QED
      BY <2>1, <2>2, <3>1, GoodPlain
  <2> QED
    BY <2>5, <2>6
<1>4. p.portals # << >> => KeyAtHand(seqs, 16, "controlplane_endpoint", Kept(p))
  <2>1. SUFFICES ASSUME p.portals # << >>
                 PROVE  KeyAtHand(seqs, 16, "controlplane_endpoint", Kept(p))
    OBVIOUS
  <2>2. 1 \in DOMAIN p.portals
    BY <2>1 DEF OnACluster
  <2>3. p.planes # << >>
    BY <2>2, AcceptedHas
  <2>4. 8 \in 1..(16 - 1)
    OBVIOUS
  <2> QED
    BY <2>3, <2>4, PlanesSupply DEF KeyAtHand
<1>5. "gateway" \in p.parts => KeyAtHand(seqs, 16, "gateway_endpoint", Kept(p))
  <2>1. 14 \in 1..(16 - 1)
    OBVIOUS
  <2> QED
    BY <2>1, GatewaySupplies DEF KeyAtHand
<1> HIDE DEF R
<1>6. CASE p.portals = << >>
  <2>1. seqs[16] = << >>
    BY <1>2, <1>6
  <2> QED
    BY <2>1, PartNone
<1>7. CASE p.portals # << >>
  <2>1. AllAtHand(seqs, 16, K, C, Kept(p), BuiltOn(p))
    BY <1>4, <1>5, <1>7, ClusterAtHand DEF AllAtHand
  <2> HIDE DEF K, C
  <2>2. \A i \in 1..Len(p.portals) : seqs[16][i] = R(p.portals[i])
    BY <1>1, <1>2
  <2>3. \A i \in 1..Len(p.portals) : Good(seqs[16][i], K, C)
    BY <1>1, <1>3, <2>2
  <2>4. seqs[16] = [i \in 1..Len(p.portals) |-> seqs[16][i]]
    BY <1>1, <1>2
  <2>5. Fine(seqs[16], K, C)
    BY <1>1, <2>3, <2>4, FineItems
  <2> QED
    BY <2>1, <2>5, PartFrom
<1> QED
  BY <1>6, <1>7

LEMMA BillingPart ==
  ASSUME NEW p, Accepted(p), OnACluster(p), NEW seqs, seqs = PartsOf(p)
  PROVE  PartFits(seqs, 18, 17, Kept(p), BuiltOn(p))
<1> DEFINE K == {"kubeconfig_path", "database_url"}
           C == {"cluster", "database"}
           l == Layer("billing", "stripe", Billing)
           s == TellIf(l, "queue" \in p.parts, "event_backbone_url", "nats")
<1>1. Sound(Billing, "billing", K, C) /\ NameFits("billing", "stripe")
  BY Outputs, AllCapabilities
  DEF Sound, Billing, Declares, Founding, Foundations, NameFits
<1>2. \A told : Billing.required \ told \subseteq K
  BY DEF Billing, Declares
<1>3. "billing" \in p.parts => AllAtHand(seqs, 17, K, C, Kept(p), BuiltOn(p))
  <2>1. SUFFICES ASSUME "billing" \in p.parts
                 PROVE  AllAtHand(seqs, 17, K, C, Kept(p), BuiltOn(p))
    OBVIOUS
  <2>2. HasDatabase(p)
    BY <2>1, AcceptedHas
  <2>3. 7 \in 1..(17 - 1)
    OBVIOUS
  <2>4. /\ KeyAtHand(seqs, 17, "database_url", Kept(p))
        /\ CapabilityAtHand(seqs, 17, "database", BuiltOn(p))
    BY <2>2, <2>3, DatabaseSupplies DEF KeyAtHand, CapabilityAtHand, Founding
  <2> QED
    BY <2>4, ClusterAtHand DEF AllAtHand
<1>4. seqs[17] = Once(p, "billing", s)
  BY PartsAre DEF render_billing
<1>5. PICK told : IsLayer(s, "billing", "stripe", Billing, told, {}, Billing.provides)
  BY IsLayerLayer, IsLayerTellIf
<1> HIDE DEF K, C, s
<1>6. Good(s, K, C)
  BY <1>1, <1>2, <1>5, GoodPlain
<1>7. CASE "billing" \in p.parts
  <2>1. Fine(seqs[17], K, C)
    BY <1>4, <1>6, <1>7, OnceIs, FineSingle
  <2> QED
    BY <1>3, <1>7, <2>1, PartFrom
<1>8. CASE "billing" \notin p.parts
  BY <1>4, <1>8, OnceIs, PartNone
<1> QED
  BY <1>7, <1>8

LEMMA RoutesPart ==
  ASSUME NEW p, Accepted(p), OnACluster(p), NEW seqs, seqs = PartsOf(p)
  PROVE  PartFits(seqs, 18, 18, Kept(p), BuiltOn(p))
<1> DEFINE K == {"kubeconfig_path", "ingress_gateway_endpoint"}
           C == {"cluster", "ingress_gateway"}
           R(name) == Layer("route", name, Route)
<1>1. PICK Y : /\ p.routes \in Seq(Y)
               /\ \A name \in Y : \A f \in Founding : name \notin Foundations[f]
  BY DEF OnACluster
<1>2. /\ Len(p.routes) \in Nat /\ DOMAIN p.routes = 1..Len(p.routes)
      /\ \A i \in 1..Len(p.routes) : p.routes[i] \in Y
  BY <1>1
<1>3. seqs[18] = [i \in DOMAIN p.routes |-> R(p.routes[i])]
  BY PartsAre DEF render_routes, PerItem
<1>4. ASSUME NEW name \in Y
      PROVE  Good(R(name), K, C)
  <2>1. NameFits("route", name)
    BY <1>1 DEF NameFits, Founding
  <2>2. Sound(Route, "route", K, C)
    BY Outputs, AllCapabilities DEF Sound, Route, Declares, Founding
  <2>3. Route.required \ {} \subseteq K
    BY DEF Route, Declares
  <2> HIDE DEF K, C
  <2> QED
    BY <2>1, <2>2, <2>3, IsLayerLayer, GoodPlain
<1> HIDE DEF R
<1>5. CASE p.routes = << >>
  <2>1. seqs[18] = << >>
    BY <1>3, <1>5
  <2> QED
    BY <2>1, PartNone
<1>6. CASE p.routes # << >>
  <2>1. "ingress" \in p.parts
    BY <1>6, AcceptedHas
  <2>2. 15 \in 1..(18 - 1)
    OBVIOUS
  <2>3. /\ KeyAtHand(seqs, 18, "ingress_gateway_endpoint", Kept(p))
        /\ CapabilityAtHand(seqs, 18, "ingress_gateway", BuiltOn(p))
    BY <2>1, <2>2, GatewaysSupplies DEF KeyAtHand, CapabilityAtHand, Founding
  <2>4. AllAtHand(seqs, 18, K, C, Kept(p), BuiltOn(p))
    BY <2>3, ClusterAtHand DEF AllAtHand
  <2> HIDE DEF K, C
  <2>5. \A i \in 1..Len(p.routes) : seqs[18][i] = R(p.routes[i])
    BY <1>2, <1>3
  <2>6. \A i \in 1..Len(p.routes) : Good(seqs[18][i], K, C)
    BY <1>2, <1>4, <2>5
  <2>7. seqs[18] = [i \in 1..Len(p.routes) |-> seqs[18][i]]
    BY <1>2, <1>3
  <2>8. Fine(seqs[18], K, C)
    BY <1>2, <2>6, <2>7, FineItems
  <2> QED
    BY <2>4, <2>8, PartFrom
<1> QED
  BY <1>5, <1>6

LEMMA PartsFit ==
  ASSUME NEW p, Accepted(p), OnACluster(p), NEW seqs, seqs = PartsOf(p), NEW a \in 1..18
  PROVE  PartFits(seqs, 18, a, Kept(p), BuiltOn(p))
<1>1. a \in {1, 2, 3, 4, 5, 6} \/ a \in {7, 8, 9, 10, 11, 12} \/ a \in {13, 14, 15, 16, 17, 18}
  OBVIOUS
<1>2. CASE a \in {1, 2, 3, 4, 5, 6}
  BY <1>2, EmptyParts, MinioPart, AcceleratorsPart, InferencePart, ValkeyPart
<1>3. CASE a \in {7, 8, 9, 10, 11, 12}
  BY <1>3, DatabasePart, PlanesPart, MonitoringPart, NatsPart, TiktokenPart, EnricherPart
<1>4. CASE a \in {13, 14, 15, 16, 17, 18}
  BY <1>4, PoliciesPart, GatewayPart, GatewaysPart, PortalsPart, BillingPart, RoutesPart
<1> QED
  BY <1>1, <1>2, <1>3, <1>4

LEMMA PlanLaid ==
  ASSUME NEW p, Accepted(p), OnACluster(p), NEW seqs, seqs = PartsOf(p)
  PROVE  \E X : /\ seqs \in [1..18 -> Seq(X)] /\ _render_script(p) \in Seq(X)
               /\ Laid(_render_script(p), seqs, 18)
<1> DEFINE X == UNION {{seqs[a][b] : b \in DOMAIN seqs[a]} : a \in 1..18}
<1>1. \A a \in 1..18 : PartFits(seqs, 18, a, Kept(p), BuiltOn(p))
  BY PartsFit
<1>2. \A a \in 1..18 : \A b \in DOMAIN seqs[a] : seqs[a][b] \in X
  OBVIOUS
<1>3. /\ seqs = [i \in 1..18 |-> seqs[i]]
      /\ seqs[1] = render_cluster(p)
      /\ seqs[2] = render_storage(p)
      /\ seqs[3] = render_minio(p)
      /\ seqs[4] = render_accelerator(p)
      /\ seqs[5] = render_inference(p)
      /\ seqs[6] = render_cache(p)
      /\ seqs[7] = render_database(p)
      /\ seqs[8] = render_controlplanes(p)
      /\ seqs[9] = render_observability(p)
      /\ seqs[10] = render_queue(p)
      /\ seqs[11] = render_tokenizer(p)
      /\ seqs[12] = render_enricher(p)
      /\ seqs[13] = render_policies(p)
      /\ seqs[14] = render_gateway(p)
      /\ seqs[15] = render_ingress(p)
      /\ seqs[16] = render_portals(p)
      /\ seqs[17] = render_billing(p)
      /\ seqs[18] = render_routes(p)
  BY PartsAre
<1> HIDE DEF X
<1>4. \A a \in 1..18 : seqs[a] \in Seq(X)
  BY <1>1, <1>2, IntoSeq DEF PartFits
<1>5. seqs \in [1..18 -> Seq(X)]
  BY <1>3, <1>4
<1>6. 18 \in Nat
  OBVIOUS
<1>7. seqs[1] \in Seq(X) /\ Laid(seqs[1], seqs, 1)
  <2>1. << >> \in Seq(X) /\ 0 \in Nat /\ 0 + 1 \in 1..18
    OBVIOUS
  <2>2. << >> \o seqs[0 + 1] \in Seq(X) /\ Laid(<< >> \o seqs[0 + 1], seqs, 0 + 1)
    BY <1>5, <1>6, <2>1, LaidNone, LaidNext
  <2>3. << >> \o seqs[1] = seqs[1]
    BY <1>4
  <2> QED
    BY <2>2, <2>3
<1> DEFINE F1 == seqs[1]
           F2 == F1 \o seqs[2]
           F3 == F2 \o seqs[3]
           F4 == F3 \o seqs[4]
           F5 == F4 \o seqs[5]
           F6 == F5 \o seqs[6]
           F7 == F6 \o seqs[7]
           F8 == F7 \o seqs[8]
           F9 == F8 \o seqs[9]
           F10 == F9 \o seqs[10]
           F11 == F10 \o seqs[11]
           F12 == F11 \o seqs[12]
           F13 == F12 \o seqs[13]
           F14 == F13 \o seqs[14]
           F15 == F14 \o seqs[15]
           F16 == F15 \o seqs[16]
           F17 == F16 \o seqs[17]
           F18 == F17 \o seqs[18]
<1>8. F1 \in Seq(X) /\ Laid(F1, seqs, 1)
  BY <1>7
<1> HIDE DEF F1
<1>9. F2 \in Seq(X) /\ Laid(F2, seqs, 2)
  <2>1. 1 \in Nat /\ 1 + 1 \in 1..18 /\ 1 + 1 = 2
    OBVIOUS
  <2>2. F1 \o seqs[1 + 1] \in Seq(X) /\ Laid(F1 \o seqs[1 + 1], seqs, 1 + 1)
    BY <1>5, <1>6, <1>8, <2>1, LaidNext
  <2> QED
    BY <2>1, <2>2
<1> HIDE DEF F2
<1>10. F3 \in Seq(X) /\ Laid(F3, seqs, 3)
  <2>1. 2 \in Nat /\ 2 + 1 \in 1..18 /\ 2 + 1 = 3
    OBVIOUS
  <2>2. F2 \o seqs[2 + 1] \in Seq(X) /\ Laid(F2 \o seqs[2 + 1], seqs, 2 + 1)
    BY <1>5, <1>6, <1>9, <2>1, LaidNext
  <2> QED
    BY <2>1, <2>2
<1> HIDE DEF F3
<1>11. F4 \in Seq(X) /\ Laid(F4, seqs, 4)
  <2>1. 3 \in Nat /\ 3 + 1 \in 1..18 /\ 3 + 1 = 4
    OBVIOUS
  <2>2. F3 \o seqs[3 + 1] \in Seq(X) /\ Laid(F3 \o seqs[3 + 1], seqs, 3 + 1)
    BY <1>5, <1>6, <1>10, <2>1, LaidNext
  <2> QED
    BY <2>1, <2>2
<1> HIDE DEF F4
<1>12. F5 \in Seq(X) /\ Laid(F5, seqs, 5)
  <2>1. 4 \in Nat /\ 4 + 1 \in 1..18 /\ 4 + 1 = 5
    OBVIOUS
  <2>2. F4 \o seqs[4 + 1] \in Seq(X) /\ Laid(F4 \o seqs[4 + 1], seqs, 4 + 1)
    BY <1>5, <1>6, <1>11, <2>1, LaidNext
  <2> QED
    BY <2>1, <2>2
<1> HIDE DEF F5
<1>13. F6 \in Seq(X) /\ Laid(F6, seqs, 6)
  <2>1. 5 \in Nat /\ 5 + 1 \in 1..18 /\ 5 + 1 = 6
    OBVIOUS
  <2>2. F5 \o seqs[5 + 1] \in Seq(X) /\ Laid(F5 \o seqs[5 + 1], seqs, 5 + 1)
    BY <1>5, <1>6, <1>12, <2>1, LaidNext
  <2> QED
    BY <2>1, <2>2
<1> HIDE DEF F6
<1>14. F7 \in Seq(X) /\ Laid(F7, seqs, 7)
  <2>1. 6 \in Nat /\ 6 + 1 \in 1..18 /\ 6 + 1 = 7
    OBVIOUS
  <2>2. F6 \o seqs[6 + 1] \in Seq(X) /\ Laid(F6 \o seqs[6 + 1], seqs, 6 + 1)
    BY <1>5, <1>6, <1>13, <2>1, LaidNext
  <2> QED
    BY <2>1, <2>2
<1> HIDE DEF F7
<1>15. F8 \in Seq(X) /\ Laid(F8, seqs, 8)
  <2>1. 7 \in Nat /\ 7 + 1 \in 1..18 /\ 7 + 1 = 8
    OBVIOUS
  <2>2. F7 \o seqs[7 + 1] \in Seq(X) /\ Laid(F7 \o seqs[7 + 1], seqs, 7 + 1)
    BY <1>5, <1>6, <1>14, <2>1, LaidNext
  <2> QED
    BY <2>1, <2>2
<1> HIDE DEF F8
<1>16. F9 \in Seq(X) /\ Laid(F9, seqs, 9)
  <2>1. 8 \in Nat /\ 8 + 1 \in 1..18 /\ 8 + 1 = 9
    OBVIOUS
  <2>2. F8 \o seqs[8 + 1] \in Seq(X) /\ Laid(F8 \o seqs[8 + 1], seqs, 8 + 1)
    BY <1>5, <1>6, <1>15, <2>1, LaidNext
  <2> QED
    BY <2>1, <2>2
<1> HIDE DEF F9
<1>17. F10 \in Seq(X) /\ Laid(F10, seqs, 10)
  <2>1. 9 \in Nat /\ 9 + 1 \in 1..18 /\ 9 + 1 = 10
    OBVIOUS
  <2>2. F9 \o seqs[9 + 1] \in Seq(X) /\ Laid(F9 \o seqs[9 + 1], seqs, 9 + 1)
    BY <1>5, <1>6, <1>16, <2>1, LaidNext
  <2> QED
    BY <2>1, <2>2
<1> HIDE DEF F10
<1>18. F11 \in Seq(X) /\ Laid(F11, seqs, 11)
  <2>1. 10 \in Nat /\ 10 + 1 \in 1..18 /\ 10 + 1 = 11
    OBVIOUS
  <2>2. F10 \o seqs[10 + 1] \in Seq(X) /\ Laid(F10 \o seqs[10 + 1], seqs, 10 + 1)
    BY <1>5, <1>6, <1>17, <2>1, LaidNext
  <2> QED
    BY <2>1, <2>2
<1> HIDE DEF F11
<1>19. F12 \in Seq(X) /\ Laid(F12, seqs, 12)
  <2>1. 11 \in Nat /\ 11 + 1 \in 1..18 /\ 11 + 1 = 12
    OBVIOUS
  <2>2. F11 \o seqs[11 + 1] \in Seq(X) /\ Laid(F11 \o seqs[11 + 1], seqs, 11 + 1)
    BY <1>5, <1>6, <1>18, <2>1, LaidNext
  <2> QED
    BY <2>1, <2>2
<1> HIDE DEF F12
<1>20. F13 \in Seq(X) /\ Laid(F13, seqs, 13)
  <2>1. 12 \in Nat /\ 12 + 1 \in 1..18 /\ 12 + 1 = 13
    OBVIOUS
  <2>2. F12 \o seqs[12 + 1] \in Seq(X) /\ Laid(F12 \o seqs[12 + 1], seqs, 12 + 1)
    BY <1>5, <1>6, <1>19, <2>1, LaidNext
  <2> QED
    BY <2>1, <2>2
<1> HIDE DEF F13
<1>21. F14 \in Seq(X) /\ Laid(F14, seqs, 14)
  <2>1. 13 \in Nat /\ 13 + 1 \in 1..18 /\ 13 + 1 = 14
    OBVIOUS
  <2>2. F13 \o seqs[13 + 1] \in Seq(X) /\ Laid(F13 \o seqs[13 + 1], seqs, 13 + 1)
    BY <1>5, <1>6, <1>20, <2>1, LaidNext
  <2> QED
    BY <2>1, <2>2
<1> HIDE DEF F14
<1>22. F15 \in Seq(X) /\ Laid(F15, seqs, 15)
  <2>1. 14 \in Nat /\ 14 + 1 \in 1..18 /\ 14 + 1 = 15
    OBVIOUS
  <2>2. F14 \o seqs[14 + 1] \in Seq(X) /\ Laid(F14 \o seqs[14 + 1], seqs, 14 + 1)
    BY <1>5, <1>6, <1>21, <2>1, LaidNext
  <2> QED
    BY <2>1, <2>2
<1> HIDE DEF F15
<1>23. F16 \in Seq(X) /\ Laid(F16, seqs, 16)
  <2>1. 15 \in Nat /\ 15 + 1 \in 1..18 /\ 15 + 1 = 16
    OBVIOUS
  <2>2. F15 \o seqs[15 + 1] \in Seq(X) /\ Laid(F15 \o seqs[15 + 1], seqs, 15 + 1)
    BY <1>5, <1>6, <1>22, <2>1, LaidNext
  <2> QED
    BY <2>1, <2>2
<1> HIDE DEF F16
<1>24. F17 \in Seq(X) /\ Laid(F17, seqs, 17)
  <2>1. 16 \in Nat /\ 16 + 1 \in 1..18 /\ 16 + 1 = 17
    OBVIOUS
  <2>2. F16 \o seqs[16 + 1] \in Seq(X) /\ Laid(F16 \o seqs[16 + 1], seqs, 16 + 1)
    BY <1>5, <1>6, <1>23, <2>1, LaidNext
  <2> QED
    BY <2>1, <2>2
<1> HIDE DEF F17
<1>25. F18 \in Seq(X) /\ Laid(F18, seqs, 18)
  <2>1. 17 \in Nat /\ 17 + 1 \in 1..18 /\ 17 + 1 = 18
    OBVIOUS
  <2>2. F17 \o seqs[17 + 1] \in Seq(X) /\ Laid(F17 \o seqs[17 + 1], seqs, 17 + 1)
    BY <1>5, <1>6, <1>24, <2>1, LaidNext
  <2> QED
    BY <2>1, <2>2
<1> HIDE DEF F18
<1>26. _render_script(p) = F18
  BY <1>3
  DEF _render_script, F1, F2, F3, F4, F5, F6, F7, F8, F9, F10, F11, F12, F13, F14, F15, F16, F17,
       F18
<1> QED
  BY <1>5, <1>25, <1>26

\* What the script of an accepted plan needs of the outside: what its header
\* says of the cluster that is there.
THEOREM PlanFits ==
  ASSUME NEW p, Accepted(p), OnACluster(p)
  PROVE  ScriptFits(_render_script(p), Kept(p), BuiltOn(p))
<1>1. PICK seqs : seqs = PartsOf(p)
  OBVIOUS
<1>2. PICK X : /\ seqs \in [1..18 -> Seq(X)] /\ _render_script(p) \in Seq(X)
               /\ Laid(_render_script(p), seqs, 18)
  BY <1>1, PlanLaid
<1>3. \A a \in 1..18 : PartFits(seqs, 18, a, Kept(p), BuiltOn(p))
  BY <1>1, PartsFit
<1>4. AllFit(seqs, 18, Kept(p), BuiltOn(p))
  BY <1>3, Zenon DEF AllFit, PartFits
<1>5. 18 \in Nat
  OBVIOUS
<1> QED
  BY <1>2, <1>4, <1>5, LaidFits

(* A run of a script *)

\* What the theorems ask of the plans that are offered.
Proposed == \A p \in Plans : Accepted(p) => OnACluster(p)

\* What the Stack and the state file are given when a script starts.
Needed(j) == IF j.kind = "stages" THEN GivenTo(j.of) ELSE Kept(j.of)
Assured(j) == IF j.kind = "stages" THEN LeftOut(j.of) ELSE BuiltOn(j.of)

LEMMA JobIs ==
  ASSUME NEW j \in Jobs
  PROVE  \/ /\ j.kind = "stages" /\ j.of \in Selections
            /\ Scripts[j] = Main(j.of)
         \/ /\ j.kind = "plan" /\ j.of \in Plans /\ Accepted(j.of)
            /\ Scripts[j] = _render_script(j.of)
<1>1. Scripts[j] = IF j.kind = "stages" THEN Main(j.of) ELSE _render_script(j.of)
  BY DEF Scripts
<1> QED
  BY <1>1 DEF Jobs

LEMMA JobFits ==
  ASSUME Proposed, NEW j \in Jobs
  PROVE  ScriptFits(Scripts[j], Needed(j), Assured(j))
<1>1. CASE j.kind = "stages" /\ j.of \in Selections /\ Scripts[j] = Main(j.of)
  <2>1. j.of \in SUBSET Stages
    BY <1>1, SelectionsAssumption
  <2> QED
    BY <1>1, <2>1, MainFits DEF Needed, Assured
<1>2. CASE /\ j.kind = "plan" /\ j.of \in Plans /\ Accepted(j.of)
           /\ Scripts[j] = _render_script(j.of)
  <2>1. OnACluster(j.of)
    BY <1>2 DEF Proposed
  <2> QED
    BY <1>2, <2>1, PlanFits DEF Needed, Assured
<1> QED
  BY <1>1, <1>2, JobIs

\* A row has the capability that its name belongs to.
RowsFit ==
  \A n \in DOMAIN rows :
    /\ rows[n] = [capability |-> rows[n].capability, status |-> rows[n].status]
    /\ NameFits(rows[n].capability, n)

\* What a step leaves behind, from which later steps live.
Done(s) ==
  /\ DOMAIN s.publishes \subseteq DOMAIN values
  /\ s.op = "layer" /\ s.capability \in Founding => Provisioned(s.capability)

\* The values that a step may wait for come with what they stand for.
GivenStand ==
  /\ "db_urls" \in DOMAIN values => "database_url" \in DOMAIN values /\ Provisioned("database")
  /\ "ingress_gateway_endpoint" \in DOMAIN values => Provisioned("ingress_gateway")

Goes ==
  /\ job \in Jobs /\ taken \in 0 .. Len(Scripts[job])
  /\ "kubeconfig_path" \in DOMAIN values /\ values["kubeconfig_path"] = "path"
  /\ job.kind = "plan" => Kept(job.of) \subseteq DOMAIN values
  /\ \A i \in 1 .. taken : Anytime(Scripts[job][i]) => Done(Scripts[job][i])
  /\ GivenStand

RunInv ==
  /\ job \in Jobs \cup {NoJob}
  /\ RowsFit
  /\ outcome = "running" => Goes
  /\ FinishesAlone

-----------------------------------------------------------------------------

LEMMA RowIs ==
  ASSUME RowsFit, NEW n \in DOMAIN rows, rows[n].status = "provisioned", NEW c \in Founding,
         n \in Foundations[c]
  PROVE  Provisioned(c)
BY DEF RowsFit, NameFits, Provisioned

LEMMA ProvisionedBy ==
  ASSUME RowsFit, NEW c \in Founding, Provisioned(c)
  PROVE  \E n \in DOMAIN rows :
           n \in Foundations[c] /\ rows[n] = [capability |-> c, status |-> "provisioned"]
<1>1. PICK n \in DOMAIN rows : rows[n] = [capability |-> c, status |-> "provisioned"]
  BY DEF Provisioned
<1>2. rows[n].capability = c
  BY <1>1
<1>3. NameFits(c, n)
  BY <1>2 DEF RowsFit
<1>4. n \in Foundations[c]
  BY <1>3 DEF NameFits
<1> QED
  BY <1>1, <1>4

\* A step writes its own row only.
LEMMA SetRowKeeps ==
  ASSUME RowsFit, NEW s, StepFits(s), s.op = "layer", NEW status, SetRow(s, status)
  PROVE  /\ RowsFit'
         /\ \A c \in Founding : Provisioned(c) /\ (status = "provisioned" \/ s.capability # c)
                                  => Provisioned(c)'
         /\ status = "provisioned" /\ s.capability \in Founding => Provisioned(s.capability)'
<1> DEFINE r == [capability |-> s.capability, status |-> status]
<1>1. NameFits(s.capability, s.name)
  BY DEF StepFits
<1>2. /\ DOMAIN rows' = DOMAIN rows \cup {s.name} /\ rows'[s.name] = r
      /\ \A n \in DOMAIN rows : n # s.name => rows'[n] = rows[n]
  <2>1. rows' = [x \in DOMAIN rows \cup {s.name} |-> IF x = s.name THEN r ELSE rows[x]]
    BY DEF SetRow, With
  <2> HIDE DEF r
  <2> QED
    BY <2>1
<1>3. r.capability = s.capability /\ r.status = status
  OBVIOUS
<1>4. RowsFit'
  <2>1. SUFFICES ASSUME NEW n \in DOMAIN rows'
                 PROVE  /\ rows'[n] = [capability |-> rows'[n].capability,
                                       status |-> rows'[n].status]
                        /\ NameFits(rows'[n].capability, n)
    BY DEF RowsFit, NameFits
  <2>2. CASE n = s.name
    BY <1>1, <1>2, <1>3, <2>2
  <2>3. CASE n # s.name
    BY <1>2, <2>3 DEF RowsFit
  <2> QED
    BY <2>2, <2>3
<1>5. ASSUME NEW c \in Founding, Provisioned(c), status = "provisioned" \/ s.capability # c
      PROVE  Provisioned(c)'
  <2>1. PICK n \in DOMAIN rows :
          n \in Foundations[c] /\ rows[n] = [capability |-> c, status |-> "provisioned"]
    BY <1>5, ProvisionedBy
  <2>2. CASE n = s.name
    <3>1. s.capability = c
      BY <1>1, <2>1, <2>2 DEF NameFits
    <3> QED
      BY <1>2, <1>5, <2>2, <3>1 DEF Provisioned
  <2>3. CASE n # s.name
    BY <1>2, <2>1, <2>3 DEF Provisioned
  <2> QED
    BY <2>2, <2>3
<1>6. status = "provisioned" => Provisioned(s.capability)'
  BY <1>2 DEF Provisioned
<1> QED
  BY <1>4, <1>5, <1>6

LEMMA RowsKept ==
  ASSUME UNCHANGED rows
  PROVE  /\ RowsFit => RowsFit'
         /\ \A c : Provisioned(c)' = Provisioned(c)
BY DEF RowsFit, NameFits, Provisioned


\* The step that a run takes next.
LEMMA NextStep ==
  ASSUME Proposed, outcome = "running", Goes, taken < Len(Scripts[job])
  PROVE  /\ taken + 1 \in DOMAIN Scripts[job] /\ StepFits(Scripts[job][taken + 1])
         /\ Covered(Scripts[job], taken + 1, Needed(job), Assured(job))
         /\ ~Plain(Scripts[job][taken + 1]) => taken = 0 /\ "cluster" \notin Assured(job)
<1>1. ScriptFits(Scripts[job], Needed(job), Assured(job))
  BY JobFits DEF Goes
<1>2. taken + 1 \in DOMAIN Scripts[job] /\ taken \in Nat
  BY <1>1 DEF ScriptFits, Goes
<1>3. taken + 1 = 1 => taken = 0
  BY <1>2
<1> QED
  BY <1>1, <1>2, <1>3 DEF ScriptFits

LEMMA LeftOutStand ==
  ASSUME RowsFit, OthersStand(job.of), NEW c \in LeftOut(job.of)
  PROVE  Provisioned(c)
<1>1. ASSUME NEW stage \in Stages \ job.of, NEW b \in DOMAIN StageSteps[stage],
             NEW s, s = StageSteps[stage][b], s.op = "layer", NEW f \in Founding,
             s.name \in Foundations[f]
      PROVE  Provisioned(f)
  <2>1. s \in LayersOf(StageSteps[stage])
    BY <1>1 DEF LayersOf
  <2>2. s.name \in DOMAIN rows /\ rows[s.name].status = "provisioned"
    BY <2>1 DEF OthersStand, RowsStand
  <2> QED
    BY <1>1, <2>2, RowIs
<1>2. CASE c = "cluster"
  <2>1. "cluster" \in Stages \ job.of /\ "cluster" \in Founding
    BY <1>2, StageNames DEF LeftOut, Founding
  <2>2. /\ 1 \in DOMAIN StageSteps["cluster"] /\ StageSteps["cluster"][1].op = "layer"
        /\ StageSteps["cluster"][1].name \in Foundations["cluster"]
    BY ClusterStage, StepsAre, <2>1 DEF Makes, StepFits, NameFits
  <2> QED
    BY <1>1, <1>2, <2>1, <2>2
<1>3. CASE c = "storage"
  <2>1. "storage" \in Stages \ job.of /\ "storage" \in Founding
    BY <1>3, StageNames DEF LeftOut, Founding
  <2>2. StepFits(stage_storage[2])
    BY StorageFine, StorageStage DEF Fine
  <2>3. /\ 2 \in DOMAIN StageSteps["storage"] /\ StageSteps["storage"][2].op = "layer"
        /\ StageSteps["storage"][2].name \in Foundations["storage"]
    BY StorageStage, StepsAre, <2>1, <2>2 DEF Makes, StepFits, NameFits
  <2> QED
    BY <1>1, <1>3, <2>1, <2>3
<1>4. CASE c = "cache"
  <2>1. "cache" \in Stages \ job.of /\ "cache" \in Founding
    BY <1>4, StageNames DEF LeftOut, Founding
  <2>2. StepFits(stage_cache[2])
    BY CacheFine, CacheStage DEF Fine
  <2>3. /\ 2 \in DOMAIN StageSteps["cache"] /\ StageSteps["cache"][2].op = "layer"
        /\ StageSteps["cache"][2].name \in Foundations["cache"]
    BY CacheStage, StepsAre, <2>1, <2>2 DEF Makes, StepFits, NameFits
  <2> QED
    BY <1>1, <1>4, <2>1, <2>3
<1> QED
  BY <1>2, <1>3, <1>4 DEF LeftOut

\* With what was assured, the SDK refuses no layer.
LEMMA NotRefused ==
  ASSUME Proposed, RowsFit, outcome = "running", Goes, taken < Len(Scripts[job]),
         NEW s, s = Scripts[job][taken + 1], s.op = "layer", s.given \subseteq DOMAIN values,
         job.kind = "stages" => OthersStand(job.of),
         job.kind = "plan" => \A c \in BuiltOn(job.of) : Provisioned(c),
         job.kind = "stages" /\ NamesNoClass(job.of) => "storage" \notin s.spec.requires
  PROVE  ~Refused(s)
<1> DEFINE S == Scripts[job]
<1>1. Covered(S, taken + 1, Needed(job), Assured(job))
  BY NextStep
<1>2. \A j \in 1 .. taken : Anytime(S[j]) => Done(S[j])
  BY DEF Goes
<1>3. (taken + 1) - 1 = taken
  BY DEF Goes
<1>4. Needed(job) \ {NoClass} \subseteq DOMAIN values
  BY JobIs DEF Goes, Needed, GivenTo
<1>11. NoClass \in Needed(job) => "storage" \notin s.spec.requires
  BY JobIs DEF Goes, Needed, GivenTo, Kept, NoClass
<1>5. \A c \in Assured(job) : Provisioned(c)
  <2>1. CASE job.kind = "stages"
    BY <2>1, LeftOutStand DEF Assured
  <2>2. CASE job.kind = "plan"
    BY <2>2 DEF Assured
  <2> QED
    BY <2>1, <2>2, JobIs DEF Goes
<1> DEFINE i == taken + 1
           Supplied(key) == \E j \in 1 .. taken : Supplies(S[j], key)
           Made(c) == \E j \in 1 .. taken : Makes(S[j], c)
<1>6. /\ \A key \in Demanded(s) : KeyCovered(s, key, Needed(job)) \/ Supplied(key)
      /\ \A c \in s.spec.requires :
           c \in Founding /\ (CapabilityCovered(s, c, Assured(job)) \/ Made(c))
  <2>1. s = S[i] /\ Covered(S, i, Needed(job), Assured(job)) /\ i - 1 = taken
    BY <1>1, <1>3
  <2> HIDE DEF S, i
  <2> QED
    BY <2>1, Zenon DEF Covered
<1>7. ASSUME NEW key \in Demanded(s)
      PROVE  Published(key)
  <2>1. KeyCovered(s, key, Needed(job)) \/ Supplied(key)
    BY <1>6, Zenon
  <2>2. CASE KeyCovered(s, key, Needed(job))
    BY <1>4, <1>11, <2>2 DEF KeyCovered, Published, WithDatabase, WithIngress, Goes, GivenStand
  <2>3. CASE Supplied(key)
    <3>1. PICK j \in 1 .. taken : Supplies(S[j], key)
      BY <2>3
    <3>2. Done(S[j])
      BY <1>2, <3>1 DEF Supplies
    <3> QED
      BY <3>1, <3>2 DEF Supplies, Done, Published
  <2> QED
    BY <2>1, <2>2, <2>3
<1>8. ASSUME NEW c \in s.spec.requires
      PROVE  Provisioned(c)
  <2>1. /\ c \in Founding
        /\ CapabilityCovered(s, c, Assured(job)) \/ Made(c)
    BY <1>6, Zenon
  <2>2. CASE CapabilityCovered(s, c, Assured(job))
    BY <1>5, <2>2 DEF CapabilityCovered, WithDatabase, WithIngress, Goes, GivenStand
  <2>3. CASE Made(c)
    <3>1. PICK j \in 1 .. taken : Makes(S[j], c)
      BY <2>3
    <3>2. Done(S[j])
      BY <1>2, <3>1 DEF Makes
    <3> QED
      BY <2>1, <3>1, <3>2 DEF Makes, Done
  <2> QED
    BY <2>1, <2>2, <2>3
<1> HIDE DEF S
<1>9. ~OutOfOrder(s)
  BY <1>7 DEF OutOfOrder, Demanded
<1>10. ~Unmet(s)
  BY <1>7 DEF Unmet, Demanded
<1> QED
  BY <1>8, <1>9, <1>10 DEF Refused, DependencyMissing

\* One step further: values and capabilities only come, and the step that was
\* taken has left what it makes.
LEMMA Advances ==
  ASSUME Proposed, Goes, outcome = "running", taken < Len(Scripts[job]),
         NEW s, s = Scripts[job][taken + 1], taken' = taken + 1, UNCHANGED job,
         \A c \in Founding : Provisioned(c) => Provisioned(c)',
         \/ UNCHANGED values /\ (~Anytime(s) \/ s.op = "secret")
         \/ /\ Record(s)
            /\ s.op = "layer" /\ s.capability \in Founding => Provisioned(s.capability)'
  PROVE  Goes'
<1>0. PICK S : S = Scripts[job]
  OBVIOUS
<1>1. /\ job \in Jobs /\ taken \in 0 .. Len(S)
      /\ "kubeconfig_path" \in DOMAIN values /\ values["kubeconfig_path"] = "path"
      /\ job.kind = "plan" => Kept(job.of) \subseteq DOMAIN values
      /\ \A i \in 1 .. taken : Anytime(S[i]) => Done(S[i])
      /\ GivenStand
  BY <1>0 DEF Goes
<1>2. StepFits(s)
  BY NextStep
<1>3. DOMAIN values \subseteq DOMAIN values'
      /\ (Record(s) => DOMAIN s.publishes \subseteq DOMAIN values')
      /\ (~(DOMAIN values' \subseteq DOMAIN values) => Record(s))
      /\ (Record(s) => DOMAIN values' \subseteq DOMAIN s.publishes \cup DOMAIN values)
      /\ values'["kubeconfig_path"] = values["kubeconfig_path"]
  <2>1. CASE UNCHANGED values
    BY <2>1 DEF Record, Over
  <2>2. CASE Record(s)
    BY <1>1, <1>2, <2>2 DEF Record, Over, StepFits
  <2> QED
    BY <2>1, <2>2
<1>4. GivenStand'
  <2>1. "database" \in Founding /\ "ingress_gateway" \in Founding
    BY DEF Founding
  <2>2. ASSUME "db_urls" \in DOMAIN values'
        PROVE  "database_url" \in DOMAIN values' /\ Provisioned("database")'
    <3>1. CASE "db_urls" \in DOMAIN values
      BY <1>1, <1>3, <2>1, <3>1 DEF GivenStand
    <3>2. CASE "db_urls" \notin DOMAIN values
      <4>1. Record(s) /\ "db_urls" \in DOMAIN s.publishes
        BY <1>3, <2>2, <3>2
      <4>2. s.op = "layer" /\ s.capability = "database" /\ "database_url" \in DOMAIN s.publishes
        BY <1>2, <4>1 DEF StepFits
      <4>3. ~UNCHANGED values
        BY <2>2, <3>2
      <4> QED
        BY <1>3, <2>1, <4>1, <4>2, <4>3
    <3> QED
      BY <3>1, <3>2
  <2>3. ASSUME "ingress_gateway_endpoint" \in DOMAIN values'
        PROVE  Provisioned("ingress_gateway")'
    <3>1. CASE "ingress_gateway_endpoint" \in DOMAIN values
      BY <1>1, <2>1, <3>1 DEF GivenStand
    <3>2. CASE "ingress_gateway_endpoint" \notin DOMAIN values
      <4>1. Record(s) /\ "ingress_gateway_endpoint" \in DOMAIN s.publishes
        BY <1>3, <2>3, <3>2
      <4>2. s.op = "layer" /\ s.capability = "ingress_gateway"
        BY <1>2, <4>1 DEF StepFits
      <4>3. ~UNCHANGED values
        BY <2>3, <3>2
      <4> QED
        BY <2>1, <4>1, <4>2, <4>3
    <3> QED
      BY <3>1, <3>2
  <2> QED
    BY <2>2, <2>3 DEF GivenStand
<1>5. ASSUME NEW x, Done(x)
      PROVE  Done(x)'
  BY <1>3, <1>5 DEF Done
<1>6. Anytime(s) => Done(s)'
  <2>1. SUFFICES ASSUME Anytime(s)
                 PROVE  Done(s)'
    OBVIOUS
  <2>2. CASE s.op = "secret"
    BY <1>2, <2>2 DEF StepFits, Done
  <2>3. CASE s.op # "secret"
    BY <1>3, <2>1, <2>3 DEF Done
  <2> QED
    BY <2>2, <2>3
<1>7. taken' \in 0 .. Len(S)
  <2>1. Len(S) \in Nat
    BY JobFits, <1>0, <1>1 DEF ScriptFits
  <2> QED
    BY <1>0, <1>1, <2>1
<1>8. \A i \in 1 .. taken' : Anytime(S[i]) => Done(S[i])'
  <2>1. \A i \in 1 .. taken' : i \in 1 .. taken \/ i = taken + 1
    BY <1>1
  <2>2. S[taken + 1] = s
    BY <1>0
  <2>3. SUFFICES ASSUME NEW i \in 1 .. taken', Anytime(S[i])
                 PROVE  Done(S[i])'
    OBVIOUS
  <2>4. CASE i \in 1 .. taken
    BY <1>1, <1>5, <2>3, <2>4
  <2>5. CASE i = taken + 1
    BY <1>6, <2>2, <2>3, <2>5
  <2> QED
    BY <2>1, <2>4, <2>5
<1>10. job.kind = "plan" => Kept(job.of) \subseteq DOMAIN values'
  BY <1>1, <1>3
<1>11. Scripts[job'] = S /\ job' = job
  BY <1>0
<1> QED
  BY <1>1, <1>3, <1>4, <1>7, <1>8, <1>10, <1>11 DEF Goes

\* A run goes on, or stops without a word of the SDK.
LEMMA GoingOn ==
  ASSUME RunInv, job' \in Jobs \cup {NoJob}, RowsFit', outcome' = "running" => Goes',
         outcome' # "raised"
  PROVE  RunInv'
BY DEF RunInv, FinishesAlone

\* The backend refuses one thing: a cluster that is there, as the first step.
LEMMA OnlyTheCluster ==
  ASSUME Proposed, Goes, outcome = "running", taken < Len(Scripts[job]),
         NEW s, s = Scripts[job][taken + 1], RaisedByBackend(s)
  PROVE  /\ s.op = "layer" /\ SetRow(s, "failed") /\ outcome' = "raised" /\ taken' = taken
         /\ taken = 0 /\ job.kind = "stages" /\ "cluster" \in job.of
         /\ s.name = "ai-cluster" /\ clusterFile /\ UNCHANGED clusterFile
<1>1. /\ s.op = "layer" /\ SetRow(s, "failed") /\ outcome' = "raised" /\ taken' = taken
      /\ ClusterUnreachable(s) \/ (AlreadyCreated(s) /\ UNCHANGED clusterFile)
  BY DEF RaisedByBackend, Stop
<1>2. ~ClusterUnreachable(s)
  BY DEF ClusterUnreachable, Goes
<1>3. s.capability = "cluster" /\ clusterFile
  BY <1>1, <1>2 DEF AlreadyCreated
<1>4. /\ StepFits(s)
      /\ ~Plain(s) => taken = 0 /\ "cluster" \notin Assured(job)
  BY NextStep
<1>5. taken = 0 /\ "cluster" \notin Assured(job)
  BY <1>1, <1>3, <1>4 DEF Plain
<1>6. job.kind = "stages" /\ "cluster" \in job.of
  BY <1>5, JobIs DEF Goes, Assured, BuiltOn, LeftOut
<1>7. s.name = "ai-cluster"
  BY <1>1, <1>3, <1>4 DEF StepFits, NameFits, Founding, Foundations
<1> QED
  BY <1>1, <1>2, <1>3, <1>5, <1>6, <1>7

LEMMA TakeKeeps ==
  ASSUME Proposed, RunInv, outcome = "running", taken < Len(Scripts[job]),
         NEW s, s = Scripts[job][taken + 1], Take(s), UNCHANGED <<fullVars, job>>
  PROVE  RunInv'
<1>1. Goes /\ RowsFit /\ job \in Jobs
  BY DEF RunInv, Goes
<1>2. /\ StepFits(s)
      /\ ~Plain(s) => taken = 0 /\ "cluster" \notin Assured(job)
  BY <1>1, NextStep
<1>3. job' = job /\ job' \in Jobs \cup {NoJob}
  BY <1>1
<1>4. ASSUME Skip(s)
      PROVE  RunInv'
  <2>1. taken' = taken + 1 /\ outcome' = outcome /\ UNCHANGED <<values, rows>> /\ ~Anytime(s)
    BY <1>4 DEF Skip, Advance, Anytime
  <2>2. Goes'
    BY <1>1, <2>1, RowsKept, Advances DEF Record
  <2> QED
    BY <1>1, <1>3, <2>1, <2>2, RowsKept, GoingOn
<1>5. ASSUME Do(s)
      PROVE  RunInv'
  <2>1. /\ taken' = taken + 1 /\ outcome' = outcome /\ UNCHANGED rows /\ Record(s)
        /\ s.op # "layer"
    BY <1>5 DEF Do, Advance
  <2>2. Goes'
    BY <1>1, <2>1, RowsKept, Advances
  <2> QED
    BY <1>1, <1>3, <2>1, <2>2, RowsKept, GoingOn
<1>6. ASSUME WorkFails(s)
      PROVE  RunInv'
  <2>1. outcome' = "failed" /\ UNCHANGED rows
    BY <1>6 DEF WorkFails, Stop
  <2> QED
    BY <1>1, <1>3, <2>1, RowsKept, GoingOn
<1>7. ASSUME Refuse(s)
      PROVE  RunInv'
  <2>1. /\ s.op = "layer" /\ Refused(s) /\ s.given \subseteq DOMAIN values
        /\ outcome' = "raised" /\ UNCHANGED <<rows, job>>
    BY <1>7, <1>3 DEF Refuse, Stop, Runs
  <2>2. \/ job.kind = "stages" /\ ~OthersStand(job.of)
        \/ job.kind = "stages" /\ NamesNoClass(job.of) /\ "storage" \in s.spec.requires
        \/ job.kind = "plan" /\ \E c \in BuiltOn(job.of) : ~Provisioned(c)
    BY <1>1, <2>1, NotRefused
  <2>3. \A selected : OthersStand(selected)' = OthersStand(selected)
    BY <2>1 DEF OthersStand, RowsStand
  <2>4. (\A c : Provisioned(c)' = Provisioned(c)) /\ taken' = taken
    BY <1>7, <2>1, RowsKept DEF Refuse, Stop
  <2>7. job.kind = "plan" => job.of.target = "existing"
    BY <1>1, JobIs, AcceptedHas DEF Proposed
  <2>8. Scripts[job'][taken' + 1] = s
    BY <1>3, <2>4
  <2>5. FinishesAlone'
    <3>1. CASE job.kind = "stages" /\ ~OthersStand(job.of)
      BY <1>3, <2>3, <3>1 DEF FinishesAlone
    <3>2. CASE job.kind = "stages" /\ NamesNoClass(job.of) /\ "storage" \in s.spec.requires
      BY <1>3, <2>8, <3>2 DEF FinishesAlone
    <3>3. CASE job.kind = "plan" /\ \E c \in BuiltOn(job.of) : ~Provisioned(c)
      BY <1>3, <2>4, <2>7, <3>3 DEF FinishesAlone
    <3> QED
      BY <2>2, <3>1, <3>2, <3>3
  <2>6. RowsFit'
    BY <1>1, <2>1, RowsKept
  <2> QED
    BY <1>3, <2>1, <2>5, <2>6 DEF RunInv
<1>8. ASSUME RaisedByBackend(s)
      PROVE  RunInv'
  <2>1. /\ s.op = "layer" /\ SetRow(s, "failed") /\ outcome' = "raised" /\ taken' = taken
        /\ taken = 0 /\ job.kind = "stages" /\ "cluster" \in job.of /\ clusterFile'
    BY <1>1, <1>8, OnlyTheCluster
  <2>2. FinishesAlone'
    BY <1>3, <2>1 DEF FinishesAlone
  <2>3. RowsFit'
    BY <1>1, <1>2, <2>1, SetRowKeeps
  <2> QED
    BY <1>3, <2>1, <2>2, <2>3 DEF RunInv
<1>9. ASSUME CreateLayer(s)
      PROVE  RunInv'
  <2>1. /\ taken' = taken + 1 /\ outcome' = outcome /\ Record(s) /\ s.op = "layer"
        /\ SetRow(s, "provisioned")
    BY <1>9 DEF CreateLayer, Creates, Advance
  <2>2. /\ RowsFit' /\ \A c \in Founding : Provisioned(c) => Provisioned(c)'
        /\ s.capability \in Founding => Provisioned(s.capability)'
    BY <1>1, <1>2, <2>1, SetRowKeeps
  <2>3. Goes'
    BY <1>1, <1>3, <2>1, <2>2, Advances
  <2> QED
    BY <1>3, <2>1, <2>2, <2>3, GoingOn
<1>10. ASSUME CreateFails(s)
       PROVE  RunInv'
  <2>1. s.op = "layer" /\ outcome' = "failed" /\ \E status : SetRow(s, status)
    BY <1>10 DEF CreateFails, Creates, Stop
  <2>2. RowsFit'
    BY <1>1, <1>2, <2>1, SetRowKeeps
  <2> QED
    BY <1>3, <2>1, <2>2, GoingOn
<1> QED
  BY <1>4, <1>5, <1>6, <1>7, <1>8, <1>9, <1>10 DEF Take

-----------------------------------------------------------------------------

LEMMA RunInvInit ==
  ASSUME PlatformInit
  PROVE  RunInv
<1>1. outcome = "idle" /\ job = NoJob
  BY DEF PlatformInit, StackInit
<1>2. RowsFit
  <2>1. CASE rows = [n \in {} |-> [capability |-> "", status |-> ""]]
    BY <2>1 DEF RowsFit
  <2>2. CASE rows = Recorded
    <3>1. NameFits("cluster", "ai-cluster") /\ NameFits("storage", "longhorn")
      BY DEF NameFits, Founding, Foundations
    <3>2. ASSUME NEW n \in DOMAIN rows
          PROVE  /\ rows[n] = [capability |-> rows[n].capability, status |-> rows[n].status]
                 /\ NameFits(rows[n].capability, n)
      <4>1. n \in {"ai-cluster", "longhorn"}
        BY <2>2, <3>2 DEF Recorded
      <4>2. CASE n = "ai-cluster"
        <5>1. rows[n] = [capability |-> "cluster", status |-> "provisioned"]
          BY <2>2, <4>2 DEF Recorded
        <5> QED
          BY <3>1, <4>2, <5>1
      <4>3. CASE n = "longhorn"
        <5>1. rows[n] = [capability |-> "storage", status |-> "provisioned"]
          BY <2>2, <4>3 DEF Recorded
        <5> QED
          BY <3>1, <4>3, <5>1
      <4> QED
        BY <4>1, <4>2, <4>3
    <3> QED
      BY <3>2 DEF RowsFit
  <2> QED
    BY <2>1, <2>2 DEF PlatformInit, StackInit
<1> QED
  BY <1>1, <1>2 DEF RunInv, FinishesAlone

LEMMA StagesStart ==
  ASSUME Proposed, RunInv, NEW selected \in Selections, StartStages(selected)
  PROVE  RunInv'
<1>1. PICK j : j = [kind |-> "stages", of |-> selected]
  OBVIOUS
<1>2. j \in Jobs /\ j.kind = "stages" /\ job' = j
  BY <1>1 DEF Jobs, StartStages
<1>3. Len(Scripts[j]) \in Nat
  BY <1>2, JobFits DEF ScriptFits
<1>4. /\ taken' = 0 /\ outcome' = "running" /\ UNCHANGED rows
      /\ values' = With(Settings, "kubeconfig_path", "path")
  BY DEF StartStages, StartRun
<1>5. /\ DOMAIN values' = {"GPU_NODE", "ADDRESS_POOL", "GHCR_TOKEN", "kubeconfig_path"}
      /\ values'["kubeconfig_path"] = "path"
  BY <1>4 DEF With, Settings
<1>6. GivenStand'
  BY <1>5 DEF GivenStand
<1>7. Goes'
  BY <1>2, <1>3, <1>4, <1>5, <1>6 DEF Goes
<1>8. RowsFit'
  BY <1>4, RowsKept DEF RunInv
<1> QED
  BY <1>2, <1>4, <1>7, <1>8, GoingOn

LEMMA PlanStarts ==
  ASSUME Proposed, RunInv, NEW p \in Plans, Accepted(p), StartPlan(p)
  PROVE  RunInv'
<1>1. PICK j : j = [kind |-> "plan", of |-> p]
  OBVIOUS
<1>2. j \in Jobs /\ j.kind = "plan" /\ j.of = p /\ job' = j
  BY <1>1 DEF Jobs, StartPlan
<1>3. Len(Scripts[j]) \in Nat
  BY <1>2, JobFits DEF ScriptFits
<1>4. p.target = "existing"
  BY AcceptedHas DEF Proposed
<1>5. /\ taken' = 0 /\ outcome' = "running" /\ UNCHANGED rows /\ values' = Seeds(p)
  BY DEF StartPlan, StartRun
<1>6. DOMAIN values' = Kept(p) /\ values'["kubeconfig_path"] = "path"
  BY <1>4, <1>5 DEF Seeds, Kept
<1>7. GivenStand'
  BY <1>6 DEF GivenStand, Kept
<1>9. Goes'
  BY <1>2, <1>3, <1>5, <1>6, <1>7 DEF Goes, Kept
<1>10. RowsFit'
  BY <1>5, RowsKept DEF RunInv
<1> QED
  BY <1>2, <1>5, <1>9, <1>10, GoingOn

LEMMA SecretKeeps ==
  ASSUME Proposed, RunInv, SecretStep
  PROVE  RunInv'
<1>1. PICK s : s = Scripts[job][taken + 1]
  OBVIOUS
<1>2. /\ Goes /\ RowsFit /\ outcome = "running" /\ taken < Len(Scripts[job])
      /\ UNCHANGED job /\ (WriteSecret(s) \/ SecretFails(s))
  BY <1>1 DEF RunInv, SecretStep
<1>3. CASE WriteSecret(s)
  <2>1. /\ s.op = "secret" /\ taken' = taken + 1 /\ outcome' = outcome
        /\ UNCHANGED values /\ UNCHANGED rows
    BY <1>3 DEF WriteSecret, Advance
  <2>2. Goes'
    BY <1>1, <1>2, <2>1, RowsKept, Advances
  <2> QED
    BY <1>2, <2>1, <2>2, RowsKept, GoingOn DEF RunInv
<1>4. CASE SecretFails(s)
  BY <1>2, <1>4, RowsKept, GoingOn DEF RunInv, SecretFails, Stop
<1> QED
  BY <1>2, <1>3, <1>4

LEMMA RunInvStep ==
  ASSUME Proposed, RunInv, [PlatformNext]_platformVars
  PROVE  RunInv'
<1>1. CASE \E selected \in Selections : StartStages(selected)
  BY <1>1, StagesStart
<1>2. CASE \E p \in Plans : Accepted(p) /\ StartPlan(p)
  BY <1>2, PlanStarts
<1>3. CASE RemoveCluster
  <2>1. outcome' = "idle" /\ job' = job
        /\ rows' = [n \in DOMAIN rows \ {"ai-cluster"} |-> rows[n]]
    BY <1>3 DEF RemoveCluster
  <2>2. RowsFit'
    BY <2>1 DEF RunInv, RowsFit, NameFits
  <2> QED
    BY <2>1, <2>2 DEF RunInv, FinishesAlone
<1>4. CASE TakeStep
  <2>1. PICK s : s = Scripts[job][taken + 1]
    OBVIOUS
  <2>2. /\ outcome = "running" /\ taken < Len(Scripts[job]) /\ Take(s)
        /\ UNCHANGED <<fullVars, job>>
    BY <1>4, <2>1 DEF TakeStep
  <2> QED
    BY <2>1, <2>2, TakeKeeps
<1>5. CASE SecretStep
  BY <1>5, SecretKeeps
<1>6. CASE FinishRun
  <2>1. outcome' = "ready" /\ UNCHANGED rows /\ UNCHANGED job
    BY <1>6 DEF FinishRun, Ready
  <2> QED
    BY <2>1, RowsKept, GoingOn DEF RunInv
<1>7. CASE UNCHANGED platformVars
  <2>1. UNCHANGED <<rows, values, job, taken, outcome, clusterFile>>
    BY <1>7 DEF platformVars, stackVars
  <2>2. RowsFit'
    BY <2>1, RowsKept DEF RunInv
  <2>3. outcome' = "running" => Goes'
    BY <2>1, RowsKept DEF RunInv, Goes, GivenStand, Done
  <2>4. FinishesAlone'
    BY <2>1 DEF RunInv, FinishesAlone, OthersStand, RowsStand, Provisioned
  <2> QED
    BY <2>1, <2>2, <2>3, <2>4 DEF RunInv
<1> QED
  BY <1>1, <1>2, <1>3, <1>4, <1>5, <1>6, <1>7 DEF PlatformNext

\* The SDK stops no run whose other stages stand and no accepted plan on an
\* existing cluster that the state file records, whatever stages and plans are
\* offered, but for the layers that require storage in a run of stages none of
\* which publishes a storage class.
THEOREM RunsFinishAlone ==
  Proposed => (PlatformSpec => []FinishesAlone)
<1> SUFFICES ASSUME Proposed
             PROVE  PlatformSpec => []FinishesAlone
  OBVIOUS
<1>1. PlatformInit => RunInv
  BY RunInvInit
<1>2. RunInv /\ [PlatformNext]_platformVars => RunInv'
  BY RunInvStep
<1>3. RunInv => FinishesAlone
  BY DEF RunInv
<1> QED
  BY <1>1, <1>2, <1>3, PTL DEF PlatformSpec

-----------------------------------------------------------------------------
(* Types, and a run again *)

\* A cluster that was told of is whole, and no run begins to create it again.
ClusterKept ==
  /\ \A u \in DOMAIN wiring : u[2] = "ai-cluster" => ClusterStands
  /\ outcome = "running" /\ taken = 0 /\ job.kind = "stages" /\ "cluster" \in job.of
       => ~ClusterStands

SecretsTyped ==
  \A n \in DOMAIN secrets : \A k \in DOMAIN secrets[n] : secrets[n][k][1] \in 0 .. run

RowsTyped ==
  \A n \in DOMAIN rows :
    /\ rows[n].capability \in Capabilities
    /\ rows[n].status \in {"provisioning", "provisioned", "failed"}

WiringTyped == \A u \in DOMAIN wiring : u[2] \in DOMAIN rows

TypeInv == PlatformTypeOK /\ RunInv /\ ClusterKept

LEMMA TypeParts ==
  PlatformTypeOK <=>
    /\ outcome \in {"idle", "running", "ready", "raised", "failed"}
    /\ taken \in Nat /\ clusterFile \in BOOLEAN
    /\ RowsTyped /\ WiringTyped /\ SecretsTyped
    /\ run \in 0 .. MaxRuns /\ job \in Jobs \cup {NoJob}
BY Zenon DEF PlatformTypeOK, StackTypeOK, RowsTyped, WiringTyped, SecretsTyped, Capabilities

LEMMA TypesNext ==
  ASSUME outcome' \in {"idle", "running", "ready", "raised", "failed"},
         taken' \in Nat, clusterFile' \in BOOLEAN,
         RowsTyped', WiringTyped', SecretsTyped',
         run' \in 0 .. MaxRuns, job' \in Jobs \cup {NoJob}
  PROVE  PlatformTypeOK'
BY Zenon DEF PlatformTypeOK, StackTypeOK, RowsTyped, WiringTyped, SecretsTyped, Capabilities

LEMMA RowsTypedSet ==
  ASSUME RowsTyped, NEW s, StepFits(s), s.op = "layer", NEW status, SetRow(s, status),
         status \in {"provisioning", "provisioned", "failed"}
  PROVE  /\ RowsTyped'
         /\ DOMAIN rows' = DOMAIN rows \cup {s.name}
         /\ \A n \in DOMAIN rows : n # s.name => rows'[n] = rows[n]
<1> DEFINE r == [capability |-> s.capability, status |-> status]
<1>1. r.capability \in Capabilities /\ r.status \in {"provisioning", "provisioned", "failed"}
  BY DEF StepFits
<1>2. rows' = [x \in DOMAIN rows \cup {s.name} |-> IF x = s.name THEN r ELSE rows[x]]
  BY DEF SetRow, With
<1> HIDE DEF r
<1>3. /\ DOMAIN rows' = DOMAIN rows \cup {s.name} /\ rows'[s.name] = r
      /\ \A n \in DOMAIN rows : n # s.name => rows'[n] = rows[n]
  BY <1>2
<1> QED
  BY <1>1, <1>3 DEF RowsTyped

LEMMA ClusterRow ==
  ASSUME RowsFit, Provisioned("cluster")
  PROVE  "ai-cluster" \in DOMAIN rows
BY ProvisionedBy DEF Founding, Foundations

LEMMA TypeInit ==
  ASSUME PlatformInit
  PROVE  PlatformTypeOK /\ ClusterKept
<1>1. /\ outcome = "idle" /\ taken = 0 /\ clusterFile \in BOOLEAN /\ job = NoJob /\ run = 0
      /\ DOMAIN wiring = {} /\ DOMAIN secrets = {}
  BY DEF PlatformInit, StackInit, FullStackInit
<1>2. RowsTyped
  <2>1. CASE rows = [n \in {} |-> [capability |-> "", status |-> ""]]
    BY <2>1 DEF RowsTyped
  <2>2. CASE rows = Recorded
    BY <2>2, AllCapabilities DEF RowsTyped, Recorded
  <2> QED
    BY <2>1, <2>2 DEF PlatformInit, StackInit
<1>3. WiringTyped /\ SecretsTyped /\ ClusterKept
  BY <1>1 DEF WiringTyped, SecretsTyped, ClusterKept
<1>4. 0 \in 0 .. MaxRuns
  BY MaxRunsAssumption
<1> QED
  BY <1>1, <1>2, <1>3, <1>4, TypeParts

\* A step of a script.
LEMMA TakeTypes ==
  ASSUME Proposed, TypeInv, outcome = "running", taken < Len(Scripts[job]),
         NEW s, s = Scripts[job][taken + 1], Take(s), UNCHANGED <<fullVars, job>>
  PROVE  PlatformTypeOK' /\ ClusterKept'
<1>1. /\ taken \in Nat /\ clusterFile \in BOOLEAN
      /\ RowsTyped /\ WiringTyped /\ SecretsTyped
      /\ run \in 0 .. MaxRuns /\ job \in Jobs \cup {NoJob}
      /\ RowsFit /\ Goes /\ ClusterKept
  BY TypeParts DEF TypeInv, RunInv
<1>2. /\ StepFits(s)
      /\ ~Plain(s) => taken = 0 /\ "cluster" \notin Assured(job)
  BY <1>1, NextStep
<1>3. SecretsTyped' /\ run' = run /\ job' = job
  BY <1>1 DEF SecretsTyped, fullVars
<1>4. ASSUME UNCHANGED <<rows, wiring, clusterFile>>,
             \/ taken' = taken + 1 /\ outcome' = "running"
             \/ taken' = taken /\ outcome' \in {"raised", "failed"}
      PROVE  PlatformTypeOK' /\ ClusterKept'
  <2>1. RowsTyped' /\ WiringTyped'
    BY <1>1, <1>4 DEF RowsTyped, WiringTyped
  <2>2. ClusterKept'
    BY <1>1, <1>4 DEF ClusterKept, ClusterStands, Provisioned
  <2>3. taken' \in Nat /\ clusterFile' \in BOOLEAN
    BY <1>1, <1>4
  <2>4. outcome' \in {"idle", "running", "ready", "raised", "failed"}
    BY <1>4
  <2>5. job' \in Jobs \cup {NoJob} /\ run' \in 0 .. MaxRuns
    BY <1>1, <1>3
  <2> QED
    BY <1>3, <2>1, <2>2, <2>3, <2>4, <2>5, TypesNext
<1>5. CASE Skip(s) \/ Do(s) \/ WorkFails(s) \/ Refuse(s)
  <2>1. UNCHANGED <<rows, wiring, clusterFile>>
    BY <1>5 DEF Skip, Do, WorkFails, Refuse
  <2>2. \/ taken' = taken + 1 /\ outcome' = "running"
        \/ taken' = taken /\ outcome' \in {"raised", "failed"}
    <3>1. Skip(s) \/ Do(s) => taken' = taken + 1 /\ outcome' = outcome
      BY DEF Skip, Do, Advance
    <3>2. WorkFails(s) \/ Refuse(s) => taken' = taken /\ outcome' \in {"raised", "failed"}
      BY DEF WorkFails, Refuse, Stop
    <3> QED
      BY <1>5, <3>1, <3>2
  <2> QED
    BY <1>4, <2>1, <2>2
\* A step that writes a row, of a cluster only where none stands.
<1>6. ASSUME NEW status, SetRow(s, status), s.op = "layer",
             status \in {"provisioning", "provisioned", "failed"},
             UNCHANGED wiring \/ CreateLayer(s), clusterFile' \in BOOLEAN,
             clusterFile => clusterFile',
             s.capability = "cluster" => ~ClusterStands,
             \/ taken' = taken + 1 /\ outcome' = "running"
             \/ taken' = taken /\ outcome' \in {"raised", "failed"}
      PROVE  PlatformTypeOK' /\ ClusterKept'
  <2>1. /\ RowsTyped' /\ DOMAIN rows' = DOMAIN rows \cup {s.name}
    BY <1>1, <1>2, <1>6, RowsTypedSet
  <2>2. ASSUME NEW u \in DOMAIN wiring', u \notin DOMAIN wiring
        PROVE  CreateLayer(s) /\ u[2] = s.name
    <3>1. CreateLayer(s)
      BY <1>6, <2>2
    <3>2. DOMAIN wiring' = DOMAIN wiring \cup {<<s.capability, s.name>>}
      BY <3>1 DEF CreateLayer, With
    <3> QED
      BY <2>2, <3>1, <3>2
  <2>3. WiringTyped'
    <3>1. SUFFICES ASSUME NEW u \in DOMAIN wiring'
                   PROVE  u[2] \in DOMAIN rows'
      BY DEF WiringTyped
    <3>2. CASE u \in DOMAIN wiring
      BY <1>1, <2>1, <3>2 DEF WiringTyped
    <3>3. CASE u \notin DOMAIN wiring
      BY <2>1, <2>2, <3>3
    <3> QED
      BY <3>2, <3>3
  <2>4. "cluster" \in Founding /\ (s.name = "ai-cluster" <=> s.capability = "cluster")
    BY <1>2, <1>6 DEF StepFits, NameFits, Founding, Foundations
  <2>5. ASSUME ClusterStands
        PROVE  ClusterStands'
    BY <1>1, <1>2, <1>6, <2>4, <2>5, SetRowKeeps DEF ClusterStands
  <2>6. ASSUME NEW u \in DOMAIN wiring', u[2] = "ai-cluster"
        PROVE  ClusterStands'
    <3>1. CASE u \in DOMAIN wiring
      BY <1>1, <2>5, <2>6, <3>1 DEF ClusterKept
    <3>2. CASE u \notin DOMAIN wiring
      <4>1. CreateLayer(s) /\ s.name = "ai-cluster"
        BY <2>2, <2>6, <3>2
      <4>2. SetRow(s, "provisioned") /\ clusterFile'
        BY <2>4, <4>1 DEF CreateLayer
      <4> QED
        BY <1>1, <1>2, <1>6, <2>4, <4>1, <4>2, SetRowKeeps DEF ClusterStands
    <3> QED
      BY <3>1, <3>2
  <2>7. ~(outcome' = "running" /\ taken' = 0)
    BY <1>1, <1>6
  <2>8. ClusterKept'
    BY <2>6, <2>7 DEF ClusterKept
  <2>9. taken' \in Nat
    BY <1>1, <1>6
  <2>10. outcome' \in {"idle", "running", "ready", "raised", "failed"}
    BY <1>6
  <2>11. job' \in Jobs \cup {NoJob} /\ run' \in 0 .. MaxRuns
    BY <1>1, <1>3
  <2> QED
    BY <1>3, <1>6, <2>1, <2>3, <2>8, <2>9, <2>10, <2>11, TypesNext
<1>7. CASE RaisedByBackend(s)
  <2>1. /\ s.op = "layer" /\ SetRow(s, "failed") /\ outcome' = "raised" /\ taken' = taken
        /\ taken = 0 /\ job.kind = "stages" /\ "cluster" \in job.of
        /\ UNCHANGED clusterFile
    BY <1>1, <1>7, OnlyTheCluster
  <2>2. ~ClusterStands
    BY <1>1, <2>1 DEF ClusterKept
  <2>3. UNCHANGED wiring
    BY <1>7 DEF RaisedByBackend
  <2> QED
    BY <1>1, <1>6, <2>1, <2>2, <2>3
<1>8. CASE CreateLayer(s)
  <2>1. /\ s.op = "layer" /\ SetRow(s, "provisioned") /\ taken' = taken + 1
        /\ outcome' = "running" /\ clusterFile' = (clusterFile \/ s.capability = "cluster")
        /\ (s.capability = "cluster" => ~ClusterStands)
    BY <1>8 DEF CreateLayer, Creates, Advance, AlreadyCreated, ClusterStands
  <2>2. clusterFile' \in BOOLEAN /\ (clusterFile => clusterFile')
    BY <1>1, <2>1
  <2> QED
    BY <1>6, <1>8, <2>1, <2>2
<1>9. CASE CreateFails(s)
  <2>1. PICK status \in {"failed", "provisioning"} : SetRow(s, status)
    BY <1>9 DEF CreateFails
  <2>2. /\ s.op = "layer" /\ taken' = taken /\ outcome' = "failed" /\ UNCHANGED wiring
        /\ clusterFile' \in {clusterFile, clusterFile \/ s.capability = "cluster"}
        /\ (s.capability = "cluster" => ~ClusterStands)
    BY <1>9 DEF CreateFails, Creates, Stop, AlreadyCreated, ClusterStands
  <2>3. clusterFile' \in BOOLEAN /\ (clusterFile => clusterFile')
    BY <1>1, <2>2
  <2> QED
    BY <1>6, <2>1, <2>2, <2>3
<1> QED
  BY <1>5, <1>7, <1>8, <1>9 DEF Take

\* A script that starts.
LEMMA StartTypes ==
  ASSUME Proposed, TrimsCluster, TypeInv,
         \/ \E selected \in Selections : StartStages(selected)
         \/ \E p \in Plans : Accepted(p) /\ StartPlan(p)
  PROVE  PlatformTypeOK' /\ ClusterKept'
<1>1. /\ clusterFile \in BOOLEAN /\ RowsTyped /\ WiringTyped /\ SecretsTyped
      /\ run \in 0 .. MaxRuns /\ ClusterKept
  BY TypeParts DEF TypeInv
<1>2. /\ run < MaxRuns /\ run' = run + 1 /\ UNCHANGED <<secrets, rows, wiring, clusterFile>>
      /\ taken' = 0 /\ outcome' = "running" /\ job' \in Jobs
      /\ job'.kind = "stages" /\ "cluster" \in job'.of => ~ClusterStands
  <2>1. CASE \E selected \in Selections : StartStages(selected)
    BY <2>1 DEF StartStages, StartRun, Jobs
  <2>2. CASE \E p \in Plans : Accepted(p) /\ StartPlan(p)
    BY <2>2 DEF StartPlan, StartRun, Jobs
  <2> QED
    BY <2>1, <2>2
<1>3. RowsTyped' /\ WiringTyped'
  BY <1>1, <1>2 DEF RowsTyped, WiringTyped
<1>4. SecretsTyped' /\ run' \in 0 .. MaxRuns
  <2>1. 0 .. run \subseteq 0 .. run' /\ run' \in 0 .. MaxRuns
    BY <1>1, <1>2, MaxRunsAssumption
  <2> QED
    BY <1>1, <1>2, <2>1 DEF SecretsTyped
<1>5. ClusterKept'
  BY <1>1, <1>2 DEF ClusterKept, ClusterStands, Provisioned
<1> QED
  BY <1>1, <1>2, <1>3, <1>4, <1>5, TypesNext

\* A Secret that is written holds values of this run, or of the environment.
LEMMA SecretTypes ==
  ASSUME TypeInv, SecretStep
  PROVE  PlatformTypeOK' /\ ClusterKept'
<1>1. /\ taken \in Nat /\ clusterFile \in BOOLEAN
      /\ RowsTyped /\ WiringTyped /\ SecretsTyped
      /\ run \in 0 .. MaxRuns /\ job \in Jobs \cup {NoJob} /\ ClusterKept
  BY TypeParts DEF TypeInv
<1>2. PICK s : WriteSecret(s) \/ SecretFails(s)
  BY DEF SecretStep
<1>3. /\ UNCHANGED <<rows, wiring, clusterFile, run, job>>
      /\ \/ taken' = taken + 1 /\ outcome' = "running"
         \/ taken' = taken /\ outcome' = "failed"
  <2>1. UNCHANGED job
    BY DEF SecretStep
  <2>2. CASE WriteSecret(s)
    BY <2>1, <2>2 DEF WriteSecret, Advance
  <2>3. CASE SecretFails(s)
    BY <2>1, <2>3 DEF SecretFails, Stop, fullVars
  <2> QED
    BY <1>2, <2>2, <2>3
<1>4. SecretsTyped'
  <2>1. CASE WriteSecret(s)
    <3> DEFINE held == [k \in s.reads |-> KeyFor(s.name, k)]
    <3>1. secrets' = [x \in DOMAIN secrets \cup {s.name} |->
                        IF x = s.name THEN held ELSE secrets[x]]
      BY <2>1 DEF WriteSecret, With
    <3>2. \A k \in DOMAIN held : held[k][1] \in 0 .. run
      BY <1>1 DEF KeyFor, AdminServiceApiKey, Asked
    <3> HIDE DEF held
    <3> QED
      BY <1>1, <1>3, <3>1, <3>2 DEF SecretsTyped
  <2>2. CASE SecretFails(s)
    BY <1>1, <2>2 DEF SecretsTyped, SecretFails, fullVars
  <2> QED
    BY <1>2, <2>1, <2>2
<1>5. RowsTyped' /\ WiringTyped'
  BY <1>1, <1>3 DEF RowsTyped, WiringTyped
<1>6. ClusterKept'
  BY <1>1, <1>3 DEF ClusterKept, ClusterStands, Provisioned
<1>7. taken' \in Nat /\ outcome' \in {"idle", "running", "ready", "raised", "failed"}
  BY <1>1, <1>3
<1> QED
  BY <1>1, <1>3, <1>4, <1>5, <1>6, <1>7, TypesNext

LEMMA TypeStep ==
  ASSUME Proposed, TrimsCluster, TypeInv, [PlatformNext]_platformVars
  PROVE  TypeInv'
<1>1. RunInv'
  BY RunInvStep DEF TypeInv
<1>2. /\ outcome \in {"idle", "running", "ready", "raised", "failed"}
      /\ taken \in Nat /\ clusterFile \in BOOLEAN
      /\ RowsTyped /\ WiringTyped /\ SecretsTyped
      /\ run \in 0 .. MaxRuns /\ job \in Jobs \cup {NoJob} /\ ClusterKept
  BY TypeParts DEF TypeInv
<1>3. CASE RemoveCluster
  <2>1. /\ outcome' = "idle" /\ UNCHANGED <<wiring, taken, secrets, run, job>>
        /\ ~Provisioned("cluster") /\ clusterFile' = FALSE
        /\ rows' = [n \in DOMAIN rows \ {"ai-cluster"} |-> rows[n]]
    BY <1>3 DEF RemoveCluster, fullVars
  <2>2. RowsTyped' /\ SecretsTyped'
    BY <1>2, <2>1 DEF RowsTyped, SecretsTyped
  <2>3. \A u \in DOMAIN wiring : u[2] # "ai-cluster"
    BY <1>2, <2>1 DEF ClusterKept, ClusterStands
  <2>4. WiringTyped' /\ ClusterKept'
    BY <1>2, <2>1, <2>3 DEF WiringTyped, ClusterKept
  <2> QED
    BY <1>1, <1>2, <2>1, <2>2, <2>4, TypesNext DEF TypeInv
<1>4. CASE TakeStep
  <2>1. PICK s : s = Scripts[job][taken + 1]
    OBVIOUS
  <2>2. /\ outcome = "running" /\ taken < Len(Scripts[job]) /\ Take(s)
        /\ UNCHANGED <<fullVars, job>>
    BY <1>4, <2>1 DEF TakeStep
  <2> QED
    BY <1>1, <2>1, <2>2, TakeTypes DEF TypeInv
<1>5. CASE FinishRun \/ UNCHANGED platformVars
  <2>1. /\ UNCHANGED <<rows, wiring, clusterFile, taken, secrets, run, job>>
        /\ outcome' \in {outcome, "ready"}
    BY <1>5 DEF FinishRun, Ready, platformVars, stackVars, fullVars
  <2>2. RowsTyped' /\ WiringTyped' /\ SecretsTyped'
    BY <1>2, <2>1 DEF RowsTyped, WiringTyped, SecretsTyped
  <2>3. ClusterKept'
    BY <1>2, <2>1 DEF ClusterKept, ClusterStands, Provisioned
  <2> QED
    BY <1>1, <1>2, <2>1, <2>2, <2>3, TypesNext DEF TypeInv
<1> QED
  BY <1>1, <1>3, <1>4, <1>5, StartTypes, SecretTypes DEF PlatformNext, TypeInv

\* As long as the operator leaves out a cluster that is there, rows and
\* Secrets stay within their types, and every live deployment has its row.
THEOREM PlatformTypes ==
  Proposed /\ TrimsCluster => (PlatformSpec => []PlatformTypeOK)
<1> SUFFICES ASSUME Proposed, TrimsCluster
             PROVE  PlatformSpec => []PlatformTypeOK
  OBVIOUS
<1>1. PlatformInit => TypeInv
  BY RunInvInit, TypeInit DEF TypeInv
<1>2. TypeInv /\ [PlatformNext]_platformVars => TypeInv'
  BY TypeStep
<1>3. TypeInv => PlatformTypeOK
  BY DEF TypeInv
<1> QED
  BY <1>1, <1>2, <1>3, PTL DEF PlatformSpec

LEMMA StopKeepsRows ==
  ASSUME Proposed, TypeInv, [PlatformNext]_platformVars, outcome' = "raised",
         NEW n \in DOMAIN rows, rows[n].status = "provisioned"
  PROVE  rows'[n] = rows[n]
<1>1. CASE TakeStep
  <2>1. PICK s : s = Scripts[job][taken + 1]
    OBVIOUS
  <2>2. /\ outcome = "running" /\ taken < Len(Scripts[job]) /\ Take(s)
        /\ Goes /\ RowsFit /\ ClusterKept
    BY <1>1, <2>1 DEF TakeStep, TypeInv, RunInv
  <2>3. Refuse(s) \/ RaisedByBackend(s)
    BY <2>2 DEF Take, Skip, Do, WorkFails, CreateLayer, CreateFails, Creates, Advance, Stop
  <2>4. CASE Refuse(s)
    BY <2>4 DEF Refuse
  <2>5. CASE RaisedByBackend(s)
    <3>1. /\ SetRow(s, "failed") /\ taken = 0 /\ job.kind = "stages" /\ "cluster" \in job.of
          /\ s.name = "ai-cluster" /\ clusterFile
      BY <2>1, <2>2, <2>5, OnlyTheCluster
    <3>2. ~Provisioned("cluster")
      BY <2>2, <3>1 DEF ClusterKept, ClusterStands
    <3>3. n # "ai-cluster"
      BY <2>2, <3>2, RowIs DEF Founding, Foundations
    <3> QED
      BY <3>1, <3>3 DEF SetRow, With
  <2> QED
    BY <2>3, <2>4, <2>5
<1>2. CASE UNCHANGED rows
  BY <1>2
<1>3. ~RemoveCluster
  BY DEF RemoveCluster
<1>4. SecretStep \/ FinishRun \/ UNCHANGED platformVars => UNCHANGED rows
  BY DEF SecretStep, WriteSecret, SecretFails, FinishRun, Ready, platformVars, stackVars
<1>5. /\ \A selected \in Selections : StartStages(selected) => UNCHANGED rows
      /\ \A p \in Plans : StartPlan(p) => UNCHANGED rows
  BY DEF StartStages, StartPlan, StartRun
<1> QED
  BY <1>1, <1>2, <1>3, <1>4, <1>5 DEF PlatformNext

\* A run that the SDK stops leaves what stood as it was, as long as the
\* operator leaves out a cluster that is there (examples/full_stack.py says
\* it without that condition).
THEOREM RerunKeepsWhatStood ==
  Proposed /\ TrimsCluster => (PlatformSpec => RerunIsSafe)
<1> SUFFICES ASSUME Proposed, TrimsCluster
             PROVE  PlatformSpec => RerunIsSafe
  OBVIOUS
<1>1. PlatformInit => TypeInv
  BY RunInvInit, TypeInit DEF TypeInv
<1>2. TypeInv /\ [PlatformNext]_platformVars => TypeInv'
  BY TypeStep
<1>3. ASSUME TypeInv, [PlatformNext]_platformVars
      PROVE  [outcome' = "raised" =>
                \A n \in DOMAIN rows :
                  rows[n].status = "provisioned" => rows'[n] = rows[n]]_platformVars
  BY <1>3, StopKeepsRows
<1> QED
  BY <1>1, <1>2, <1>3, PTL DEF PlatformSpec, RerunIsSafe

-----------------------------------------------------------------------------
(* The keys of a run *)

\* A Secret is skipped for the lack of no other value than these.
Waits(s, keys) == s.op = "secret" => s.given \subseteq keys
AllWait(f, keys) == \A b \in DOMAIN f : Waits(f[b], keys)

Free(s) == IsStep(s) /\ Anytime(s)
AllFree(f) == (\E Y : f \in Seq(Y)) /\ \A b \in DOMAIN f : Free(f[b])

LEMMA FreeSteps ==
  /\ Free(Work)
  /\ \A c, n, sp : Free(Layer(c, n, sp)) /\ Layer(c, n, sp).op = "layer"
  /\ \A e : Free(Publish(e))
  /\ \A n, ks : Free(Secret(n, ks))
BY WorkIs, LayerIs, PublishIs, SecretIs DEF Free, Anytime

\* Of a step of which more is said.
LEMMA FreeKept ==
  ASSUME NEW r, Free(r)
  PROVE  /\ \A e : Free(Told(r, e))
         /\ \A ks : Free(Reads(r, ks))
         /\ \A ks : Free(Names(r, ks))
         /\ \A ks : Free(Keeps(r, ks))
         /\ \A c, k, v : Free(TellIf(r, c, k, v))
<1>1. \A e : Free(Told(r, e))
  BY ToldIs DEF Free, Anytime
<1>2. \A ks : Free(Reads(r, ks))
  BY ReadsIs DEF Free, Anytime
<1>3. \A ks : Free(Names(r, ks))
  BY NamesIs DEF Free, Anytime
<1>4. \A ks : Free(Keeps(r, ks))
  BY KeepsIs DEF Free, Anytime
<1>5. \A c, k, v : Free(TellIf(r, c, k, v))
  BY <1>1, Zenon DEF TellIf
<1> QED
  BY <1>1, <1>2, <1>3, <1>4, <1>5

LEMMA FreeNone == AllFree(<< >>)
<1>1. << >> \in Seq({})
  OBVIOUS
<1> QED
  BY <1>1 DEF AllFree

LEMMA FreeOne ==
  ASSUME NEW s, Free(s)
  PROVE  AllFree(<<s>>)
<1>1. <<s>> \in Seq({s}) /\ \A b \in DOMAIN <<s>> : <<s>>[b] = s
  OBVIOUS
<1> QED
  BY <1>1, Zenon DEF AllFree

LEMMA FreeJoin ==
  ASSUME NEW f, NEW g, AllFree(f), AllFree(g)
  PROVE  AllFree(f \o g)
<1>1. PICK Y : f \in Seq(Y)
  BY DEF AllFree
<1>2. PICK Z : g \in Seq(Z)
  BY DEF AllFree
<1>3. f \in Seq(Y \cup Z) /\ g \in Seq(Y \cup Z)
  BY <1>1, <1>2
<1>4. f \o g \in Seq(Y \cup Z)
  BY <1>3
<1>5. ASSUME NEW b \in DOMAIN (f \o g)
      PROVE  (\E i \in DOMAIN f : (f \o g)[b] = f[i]) \/ (\E i \in DOMAIN g : (f \o g)[b] = g[i])
  <2>1. /\ b \in 1..(Len(f) + Len(g)) /\ Len(f) \in Nat /\ Len(g) \in Nat
        /\ DOMAIN f = 1..Len(f) /\ DOMAIN g = 1..Len(g)
    BY <1>3
  <2>2. CASE b <= Len(f)
    BY <1>3, <2>1, <2>2
  <2>3. CASE ~(b <= Len(f))
    <3>1. b - Len(f) \in DOMAIN g /\ (f \o g)[b] = g[b - Len(f)]
      BY <1>3, <2>1, <2>3
    <3> QED
      BY <3>1
  <2> QED
    BY <2>2, <2>3
<1>6. \A b \in DOMAIN (f \o g) : Free((f \o g)[b])
  BY <1>5, Zenon DEF AllFree
<1> QED
  BY <1>4, <1>6, Zenon DEF AllFree

LEMMA FreePair ==
  ASSUME NEW s, NEW t, Free(s), Free(t)
  PROVE  AllFree(<<s, t>>)
<1>1. <<s, t>> \in Seq({s, t})
  OBVIOUS
<1>2. \A b \in DOMAIN <<s, t>> : <<s, t>>[b] = s \/ <<s, t>>[b] = t
  OBVIOUS
<1> QED
  BY <1>1, <1>2, Zenon DEF AllFree

LEMMA FreeWait ==
  ASSUME NEW f, AllFree(f), NEW keys
  PROVE  AllWait(f, keys)
BY DEF AllFree, Free, Anytime, AllWait, Waits

\* A stage that is skipped without a value keeps its Secrets for that value.
LEMMA GivenWait ==
  ASSUME NEW ks, NEW f, AllFree(f)
  PROVE  AllWait(Given(ks, f), ks)
<1>1. SUFFICES ASSUME NEW b \in DOMAIN Given(ks, f)
               PROVE  Waits(Given(ks, f)[b], ks)
  BY DEF AllWait
<1>2. b \in DOMAIN f
  BY DEF Given
<1>3. IsStep(f[b]) /\ f[b].given = {}
  BY <1>2 DEF AllFree, Free, Anytime
<1>4. PICK s : s = Given(ks, f)[b]
  OBVIOUS
<1>5. s = [f[b] EXCEPT !.given = f[b].given \cup ks]
  BY <1>2, <1>3, <1>4 DEF Given, IsStep
<1>6. s.given = f[b].given \cup ks
  BY <1>3, <1>5 DEF IsStep
<1>7. s.given \subseteq ks
  BY <1>3, <1>6
<1> QED
  BY <1>4, <1>7 DEF Waits

\* A step that is no Secret waits for nothing.
Other(s) == IsStep(s) /\ s.op # "secret"

LEMMA GivenOther ==
  ASSUME NEW ks, NEW f, \A b \in DOMAIN f : Other(f[b]), NEW keys
  PROVE  AllWait(Given(ks, f), keys)
<1>1. SUFFICES ASSUME NEW b \in DOMAIN Given(ks, f)
               PROVE  Waits(Given(ks, f)[b], keys)
  BY DEF AllWait
<1>2. b \in DOMAIN f
  BY DEF Given
<1>3. IsStep(f[b]) /\ f[b].op # "secret"
  BY <1>2 DEF Other
<1>4. Given(ks, f)[b].op # "secret"
  BY <1>2, <1>3, GivenIs DEF Alike
<1> QED
  BY <1>4 DEF Waits

LEMMA FreeThree ==
  ASSUME NEW s, NEW t, NEW u, Free(s), Free(t), Free(u)
  PROVE  AllFree(<<s, t, u>>)
<1>1. <<s, t, u>> \in Seq({s, t, u})
  OBVIOUS
<1>2. ASSUME NEW b \in DOMAIN <<s, t, u>>
      PROVE  <<s, t, u>>[b] = s \/ <<s, t, u>>[b] = t \/ <<s, t, u>>[b] = u
  <2>1. b = 1 \/ b = 2 \/ b = 3
    OBVIOUS
  <2> QED
    BY <2>1
<1> QED
  BY <1>1, <1>2, Zenon DEF AllFree

LEMMA FreeFour ==
  ASSUME NEW r, NEW s, NEW t, NEW u, Free(r), Free(s), Free(t), Free(u)
  PROVE  AllFree(<<r, s, t, u>>)
<1>1. <<r, s, t, u>> \in Seq({r, s, t, u})
  OBVIOUS
<1>2. ASSUME NEW b \in DOMAIN <<r, s, t, u>>
      PROVE  \/ <<r, s, t, u>>[b] = r \/ <<r, s, t, u>>[b] = s
             \/ <<r, s, t, u>>[b] = t \/ <<r, s, t, u>>[b] = u
  <2>1. b = 1 \/ b = 2 \/ b = 3 \/ b = 4
    OBVIOUS
  <2> QED
    BY <2>1
<1> QED
  BY <1>1, <1>2, Zenon DEF AllFree

LEMMA LayersWait ==
  /\ AllFree(stage_cluster) /\ AllFree(stage_storage) /\ AllFree(stage_weights)
  /\ AllFree(stage_inference) /\ AllFree(stage_tokenizer) /\ AllFree(stage_queue)
  /\ AllFree(stage_enricher) /\ AllFree(stage_observability) /\ AllFree(stage_portal)
<1>1. \A c, n, sp : AllFree(<<Layer(c, n, sp)>>) /\ AllFree(<<Work, Layer(c, n, sp)>>)
  BY FreeSteps, FreeOne, FreePair
<1>2. AllFree(stage_cluster) /\ AllFree(stage_storage) /\ AllFree(stage_inference)
  BY <1>1 DEF stage_cluster, stage_storage, stage_inference
<1>3. AllFree(stage_tokenizer) /\ AllFree(stage_queue) /\ AllFree(stage_observability)
  BY <1>1 DEF stage_tokenizer, stage_queue, stage_observability
<1>4. AllFree(stage_weights)
  BY FreeSteps, FreeOne DEF stage_weights
<1>5. AllFree(stage_enricher)
  BY FreeSteps, FreeKept, FreeOne DEF stage_enricher
<1>6. AllFree(stage_portal)
  BY FreeSteps, FreeKept, FreePair DEF stage_portal
<1> QED
  BY <1>2, <1>3, <1>4, <1>5, <1>6

LEMMA PolicyFree == AllFree(stage_policy)
<1> DEFINE l(type) == Reads(Layer("policy", type, Policy), {"cache_auth_url"})
           s == Keeps(l("rpm"), {"rpm_endpoint"})
           t == Keeps(l("tpm"), {"tpm_endpoint"})
<1>1. Free(l("rpm")) /\ Free(l("tpm"))
  BY FreeSteps, FreeKept
<1>2. stage_policy = <<s, t>>
  BY DEF stage_policy
<1> HIDE DEF l
<1>3. Free(s) /\ Free(t)
  BY <1>1, FreeKept
<1> HIDE DEF s, t
<1> QED
  BY <1>2, <1>3, FreePair

LEMMA CacheFree == AllFree(stage_cache)
<1> DEFINE s == Secret("valkey", {"cache"})
           l == Layer("cache", "valkey", Cache)
           t == Keeps(l, {"cache_auth_url"})
<1>1. Free(s) /\ Free(l)
  BY FreeSteps
<1>2. stage_cache = <<s, t>>
  BY DEF stage_cache
<1> HIDE DEF s, l
<1>3. Free(t)
  BY <1>1, FreeKept
<1> HIDE DEF t
<1> QED
  BY <1>1, <1>2, <1>3, FreePair

LEMMA JoinStarts ==
  ASSUME NEW X, NEW f \in Seq(X), NEW g \in Seq(X), NEW b \in DOMAIN f
  PROVE  f \o g \in Seq(X) /\ b \in DOMAIN (f \o g) /\ (f \o g)[b] = f[b]
<1>1. /\ Len(f) \in Nat /\ Len(g) \in Nat /\ b \in 1..Len(f)
      /\ DOMAIN (f \o g) = 1..(Len(f) + Len(g))
  OBVIOUS
<1> QED
  BY <1>1

LEMMA DatabaseFree ==
  /\ AllFree(stage_database)
  /\ 2 \in DOMAIN stage_database /\ Supplies(stage_database[2], "db_urls")
<1>1. ASSUME NEW component
      PROVE  /\ AllFree(DatabaseFor(component)) /\ DOMAIN DatabaseFor(component) = 1..2
             /\ Supplies(DatabaseFor(component)[2], "db_urls")
  <2> DEFINE s == Layer("database-operator", "cnpg-operator", DatabaseOperator)
             l == Layer("database", component, Database)
             t == Keeps(l, {"db_urls"})
  <2>1. Free(s) /\ Free(l)
    BY FreeSteps
  <2>2. DatabaseFor(component) = <<s, t>>
    BY DEF DatabaseFor
  <2> HIDE DEF s, l
  <2>3. Free(t) /\ "db_urls" \in DOMAIN t.publishes
    BY <2>1, FreeKept, KeepsIs DEF Free
  <2> HIDE DEF t
  <2>4. Supplies(t, "db_urls")
    BY <2>3 DEF Supplies, Free
  <2> QED
    BY <2>1, <2>2, <2>3, <2>4, FreePair
<1> DEFINE f == DatabaseFor("admin-pg")
           g == DatabaseFor("org-pg")
           h == DatabaseFor("billing-pg")
<1>2. /\ AllFree(f) /\ AllFree(g) /\ AllFree(h)
      /\ DOMAIN f = 1..2 /\ Supplies(f[2], "db_urls")
  BY <1>1
<1>3. stage_database = f \o g \o h
  BY DEF stage_database
<1> HIDE DEF f, g, h
<1>4. AllFree(f \o g) /\ AllFree((f \o g) \o h)
  BY <1>2, FreeJoin
<1>5. PICK X : f \in Seq(X) /\ g \in Seq(X) /\ h \in Seq(X)
  <2>1. PICK U : f \in Seq(U)
    BY <1>2 DEF AllFree
  <2>2. PICK V : g \in Seq(V)
    BY <1>2 DEF AllFree
  <2>3. PICK W : h \in Seq(W)
    BY <1>2 DEF AllFree
  <2>4. f \in Seq(U \cup V \cup W) /\ g \in Seq(U \cup V \cup W) /\ h \in Seq(U \cup V \cup W)
    BY <2>1, <2>2, <2>3
  <2> QED
    BY <2>4
<1>6. f \o g \in Seq(X) /\ 2 \in DOMAIN (f \o g) /\ (f \o g)[2] = f[2]
  BY <1>2, <1>5, JoinStarts
<1>7. 2 \in DOMAIN ((f \o g) \o h) /\ ((f \o g) \o h)[2] = f[2]
  BY <1>5, <1>6, JoinStarts
<1> QED
  BY <1>2, <1>3, <1>4, <1>7

LEMMA GatewayFree == AllFree(stage_gateway)
<1> DEFINE s == Secret("modelgateway", {"api", "verify"})
           t == Publish([api_key_secret |-> "gateway-keys"])
           l == Layer("gateway", "modelgateway", Gateway)
           m == Told(l, [org_cp_internal_url |-> "organization",
                         inference_endpoint |-> "vllm-qwen"])
           u == Reads(m, {"rpm_endpoint", "tpm_endpoint"})
<1>1. Free(s) /\ Free(t) /\ Free(l)
  BY FreeSteps
<1>2. stage_gateway = <<s, t, u>>
  BY DEF stage_gateway
<1> HIDE DEF s, t, l
<1>3. Free(m)
  BY <1>1, FreeKept
<1> HIDE DEF m
<1>4. Free(u)
  BY <1>3, FreeKept
<1> HIDE DEF u
<1> QED
  BY <1>1, <1>2, <1>4, FreeThree

LEMMA ObjectstoreFree == AllFree(stage_objectstore)
<1> DEFINE r == Publish([storage_class |-> "longhorn"])
           s == Layer("objectstore", "minio-test", MinIOTenant)
           t == Secret("vllm-qwen", {"root"})
           u == Publish([s3_secret_name |-> "minio-creds"])
<1>1. Free(r) /\ Free(s) /\ Free(t) /\ Free(u)
  BY FreeSteps
<1>2. stage_objectstore = <<r, s, t, u>>
  BY DEF stage_objectstore
<1> HIDE DEF r, s, t, u
<1> QED
  BY <1>1, <1>2, FreeFour

LEMMA BillingWaits == AllWait(stage_billing, {"db_urls"})
<1> DEFINE s == Secret("stripe", {"service"})
           l == Layer("billing", "stripe", Billing)
           t == Reads(l, {"event_backbone_url"})
<1>1. Free(s) /\ Free(l)
  BY FreeSteps
<1>2. stage_billing = Given({"db_urls"}, <<s, t>>)
  BY DEF stage_billing
<1> HIDE DEF s, l
<1>3. Free(t)
  BY <1>1, FreeKept
<1> HIDE DEF t
<1> QED
  BY <1>1, <1>2, <1>3, FreePair, GivenWait

LEMMA ControlplaneWaits == AllWait(stage_controlplane, {"db_urls"})
<1>1. ASSUME NEW type
      PROVE  AllFree(ControlPlaneOf(type))
  <2> DEFINE s == Secret(type, PlaneKeys(type))
             l == Layer("controlplane", type, ControlPlane)
             t == Reads(l, {"billing_endpoint"})
  <2>1. Free(s) /\ Free(l)
    BY FreeSteps
  <2>2. ControlPlaneOf(type) = <<s, t>>
    BY DEF ControlPlaneOf
  <2> HIDE DEF s, l
  <2>3. Free(t)
    BY <2>1, FreeKept
  <2> HIDE DEF t
  <2> QED
    BY <2>1, <2>2, <2>3, FreePair
<1>2. PICK f : f = ControlPlaneOf("admin") \o ControlPlaneOf("organization")
  OBVIOUS
<1>3. AllFree(f)
  BY <1>1, <1>2, FreeJoin
<1>4. stage_controlplane = Given({"db_urls"}, f)
  BY <1>2 DEF stage_controlplane
<1> QED
  BY <1>3, <1>4, GivenWait

LEMMA OthersWait ==
  /\ AllWait(stage_accelerator, {}) /\ AllWait(stage_ingress, {})
  /\ AllWait(stage_registry, {}) /\ AllWait(stage_route, {})
<1>1. Other(Work) /\ \A c, n, sp : Other(Layer(c, n, sp))
  BY WorkIs, LayerIs DEF Other
<1>2. AllWait(stage_accelerator, {})
  <2> DEFINE l == Layer("accelerator", "nvidia_device_plugin", Accelerator)
  <2>1. stage_accelerator = Given({"GPU_NODE"}, <<Work, l>>)
    BY DEF stage_accelerator
  <2>2. Other(Work) /\ Other(l)
    BY <1>1
  <2> HIDE DEF l
  <2>3. \A b \in DOMAIN <<Work, l>> : Other(<<Work, l>>[b])
    BY <2>2
  <2> QED
    BY <2>1, <2>3, GivenOther
<1>3. AllWait(stage_ingress, {})
  <2> DEFINE l == Layer("ingress_gateway", "metallb_istio", IngressGateway)
  <2>1. stage_ingress = Given({"ADDRESS_POOL"}, <<l>>)
    BY DEF stage_ingress
  <2>2. Other(l)
    BY <1>1
  <2> HIDE DEF l
  <2>3. \A b \in DOMAIN <<l>> : Other(<<l>>[b])
    BY <2>2
  <2> QED
    BY <2>1, <2>3, GivenOther
<1>4. AllWait(stage_registry, {})
  <2>1. stage_registry = Given({"GHCR_TOKEN"}, <<Work>>)
    BY DEF stage_registry
  <2>2. \A b \in DOMAIN <<Work>> : Other(<<Work>>[b])
    BY <1>1
  <2> QED
    BY <2>1, <2>2, GivenOther
<1>5. AllWait(stage_route, {})
  <2> DEFINE l == Layer("route", "model-gateway", Route)
             m == Layer("route", "admin-portal", Route)
             n == Layer("route", "organization-portal", Route)
  <2>1. stage_route = Given({"ingress_gateway_endpoint"}, <<Work, l, m, n>>)
    BY DEF stage_route
  <2>2. Other(Work) /\ Other(l) /\ Other(m) /\ Other(n)
    BY <1>1
  <2> HIDE DEF l, m, n
  <2>3. ASSUME NEW b \in DOMAIN <<Work, l, m, n>>
        PROVE  Other(<<Work, l, m, n>>[b])
    <3>1. b = 1 \/ b = 2 \/ b = 3 \/ b = 4
      OBVIOUS
    <3> QED
      BY <2>2, <3>1
  <2> QED
    BY <2>1, <2>3, GivenOther
<1> QED
  BY <1>2, <1>3, <1>4, <1>5

LEMMA AssumedFree ==
  ASSUME NEW st, NEW selected
  PROVE  AllFree(Assumed(st, selected))
<1> DEFINE r == Publish([s3_endpoint_url |-> "minio-test", s3_secret_name |-> "minio-creds"])
           s == Publish([cache_url |-> "valkey", cache_auth_url |-> "valkey"])
           t == Publish([event_backbone_url |-> "nats"])
           f == Assumed(st, selected)
<1>1. f = <<r>> \/ f = <<s>> \/ f = <<t>> \/ f = << >>
  BY DEF Assumed
<1>2. Free(r) /\ Free(s) /\ Free(t)
  BY FreeSteps
<1> HIDE DEF f, r, s, t
<1>3. AllFree(f)
  BY <1>1, <1>2, FreeOne, FreeNone
<1> QED
  BY <1>3 DEF f

\* Only billing and the control planes keep their Secrets for the database.
LEMMA StagesWait ==
  ASSUME NEW selected, NEW a \in 1..20, NEW seqs, seqs = StagesOf(selected)
  PROVE  AllWait(seqs[a], IF StageOrder[a] \in selected \cap {"billing", "controlplane"}
                          THEN {"db_urls"} ELSE {})
<1>1. CASE StageOrder[a] \notin selected
  <2>1. seqs[a] = Assumed(StageOrder[a], selected)
    BY <1>1, StagesOfIs
  <2>2. AllFree(seqs[a])
    BY <2>1, AssumedFree
  <2> QED
    BY <1>1, <2>2, FreeWait
<1>2. CASE StageOrder[a] \in selected
  <2> DEFINE st == StageOrder[a]
             f == StageSteps[st]
  <2>1. seqs[a] = f
    BY <1>2, StagesOfIs
  <2>2. \/ st \in {"cluster", "storage", "weights", "inference", "tokenizer", "queue", "enricher",
                   "observability", "portal"}
        \/ st \in {"policy", "cache", "database", "gateway", "objectstore"}
        \/ st \in {"accelerator", "ingress", "registry", "route"}
        \/ st \in {"billing", "controlplane"}
    BY OrderIs
  <2>3. CASE st \in {"cluster", "storage", "weights", "inference", "tokenizer", "queue",
                     "enricher", "observability", "portal"}
    <3>1. AllFree(f)
      BY <2>3, StepsAre, LayersWait
    <3>2. st \notin {"billing", "controlplane"}
      BY <2>3
    <3> HIDE DEF st, f
    <3> QED
      BY <2>1, <3>1, <3>2, FreeWait DEF st
  <2>4. CASE st \in {"policy", "cache", "database", "gateway", "objectstore"}
    <3>1. AllFree(f)
      BY <2>4, StepsAre, PolicyFree, CacheFree, DatabaseFree, GatewayFree, ObjectstoreFree
    <3>2. st \notin {"billing", "controlplane"}
      BY <2>4
    <3> HIDE DEF st, f
    <3> QED
      BY <2>1, <3>1, <3>2, FreeWait DEF st
  <2>5. CASE st \in {"accelerator", "ingress", "registry", "route"}
    <3>1. AllWait(f, {})
      BY <2>5, StepsAre, OthersWait
    <3>2. st \notin {"billing", "controlplane"}
      BY <2>5
    <3> HIDE DEF st, f
    <3> QED
      BY <2>1, <3>1, <3>2 DEF st
  <2>6. CASE st \in {"billing", "controlplane"}
    <3>1. AllWait(f, {"db_urls"})
      BY <2>6, StepsAre, BillingWaits, ControlplaneWaits
    <3> HIDE DEF f
    <3> QED
      BY <1>2, <2>1, <2>6, <3>1
  <2> QED
    BY <2>2, <2>3, <2>4, <2>5, <2>6
<1> QED
  BY <1>1, <1>2

LEMMA FreeTellIf ==
  ASSUME NEW s, Free(s), NEW condition, NEW k, NEW v
  PROVE  Free(TellIf(s, condition, k, v))
<1>1. Free(Told(s, With(s.explicit, k, v)))
  BY FreeKept
<1> QED
  BY <1>1, Zenon DEF TellIf

LEMMA OnceWaits ==
  ASSUME NEW p, NEW part, NEW s, Free(s)
  PROVE  AllFree(Once(p, part, s))
<1>1. Once(p, part, s) = <<s>> \/ Once(p, part, s) = << >>
  BY OnceIs
<1> QED
  BY <1>1, FreeOne, FreeNone

\* The script of a plan writes no Secret, and skips nothing.
LEMMA PartsFree ==
  ASSUME NEW p, NEW seqs, seqs = PartsOf(p), NEW a \in 1..18
  PROVE  \A b \in DOMAIN seqs[a] : Free(seqs[a][b])
<1> DEFINE Steady(f) == \A b \in DOMAIN f : Free(f[b])
<1>1. \A f : AllFree(f) => Steady(f)
  BY DEF AllFree
<1>2. \A part, c, n, sp : AllFree(Once(p, part, Layer(c, n, sp)))
  BY FreeSteps, OnceWaits
<1>3. Steady(seqs[1])
  <2> DEFINE l == Layer("cluster", "ai-cluster", RKE2Cluster)
             m == Publish([kubeconfig_path |-> "contents"])
  <2>1. render_cluster(p) = <<l, m>> \/ render_cluster(p) = << >>
    BY DEF render_cluster, When
  <2>2. Free(l) /\ Free(m)
    BY FreeSteps
  <2> HIDE DEF l, m
  <2>3. AllFree(render_cluster(p))
    BY <2>1, <2>2, FreePair, FreeNone
  <2>4. AllFree(seqs[1])
    BY <2>3, PartsAre
  <2> QED
    BY <1>1, <2>4
<1>4. Steady(seqs[2])
  <2> DEFINE l == Layer("storage", "longhorn", Storage)
  <2>1. render_storage(p) = <<Work, l>> \/ render_storage(p) = << >>
    BY DEF render_storage, When
  <2>2. Free(Work) /\ Free(l)
    BY FreeSteps
  <2> HIDE DEF l
  <2>3. AllFree(render_storage(p))
    BY <2>1, <2>2, FreePair, FreeNone
  <2>4. AllFree(seqs[2])
    BY <2>3, PartsAre
  <2> QED
    BY <1>1, <2>4
<1>5. Steady(seqs[3]) /\ Steady(seqs[4]) /\ Steady(seqs[6]) /\ Steady(seqs[9])
  <2>1. AllFree(render_minio(p)) /\ AllFree(render_accelerator(p))
    BY <1>2 DEF render_minio, render_accelerator
  <2>2. AllFree(render_cache(p)) /\ AllFree(render_observability(p))
    BY <1>2 DEF render_cache, render_observability
  <2>3. AllFree(seqs[3]) /\ AllFree(seqs[4]) /\ AllFree(seqs[6]) /\ AllFree(seqs[9])
    BY <2>1, <2>2, PartsAre
  <2> QED
    BY <1>1, <2>3
<1>6. Steady(seqs[10]) /\ Steady(seqs[11]) /\ Steady(seqs[15])
  <2>1. AllFree(render_queue(p)) /\ AllFree(render_tokenizer(p)) /\ AllFree(render_ingress(p))
    BY <1>2 DEF render_queue, render_tokenizer, render_ingress
  <2>2. AllFree(seqs[10]) /\ AllFree(seqs[11]) /\ AllFree(seqs[15])
    BY <2>1, PartsAre
  <2> QED
    BY <1>1, <2>2
<1>7. Steady(seqs[5])
  <2> DEFINE l == Layer("inference", "vllm", Inference)
             m == Layer("inference", "vllm", InferencePublicModel)
             e == [s3_secret_name |-> "given"]
             model == IF p.s3Model THEN Told(l, e) ELSE m
             s == TellIf(model, p.s3Model /\ "minio" \notin p.parts, "s3_endpoint_url", "given")
  <2>1. Free(l) /\ Free(m)
    BY FreeSteps
  <2>2. render_inference(p) = Once(p, "inference", s)
    BY DEF render_inference
  <2> HIDE DEF l, m, e
  <2>3. Free(model)
    BY <2>1, FreeKept
  <2> HIDE DEF model
  <2>4. Free(s)
    BY <2>3, FreeTellIf
  <2> HIDE DEF s
  <2>5. AllFree(render_inference(p))
    BY <2>2, <2>4, OnceWaits
  <2>6. AllFree(seqs[5])
    BY <2>5, PartsAre
  <2> QED
    BY <1>1, <2>6
<1>8. Steady(seqs[7])
  <2> DEFINE f == Once(p, "cnpg", Layer("database-operator", "cnpg-operator", DatabaseOperator))
             g == When(HasDatabase(p), <<Layer("database", "pg", Database)>>)
  <2>1. render_database(p) = f \o g
    BY DEF render_database
  <2>2. AllFree(f)
    BY <1>2
  <2>3. AllFree(g)
    BY FreeSteps, FreeOne, FreeNone DEF When
  <2> HIDE DEF f, g
  <2>4. AllFree(f \o g)
    BY <2>2, <2>3, FreeJoin
  <2>5. AllFree(seqs[7])
    BY <2>1, <2>4, PartsAre
  <2> QED
    BY <1>1, <2>5
<1>9. Steady(seqs[8])
  <2> DEFINE l(type) == Layer("controlplane", type, ControlPlane)
             R(type) == TellIf(l(type), "billing" \in p.parts, "billing_endpoint", "stripe")
  <2>1. seqs[8] = [i \in DOMAIN p.planes |-> R(p.planes[i])]
    BY PartsAre DEF render_controlplanes, PerItem
  <2>2. ASSUME NEW type
        PROVE  Free(R(type))
    <3>1. Free(l(type))
      BY FreeSteps
    <3> HIDE DEF l
    <3> QED
      BY <3>1, FreeTellIf
  <2> HIDE DEF R
  <2> QED
    BY <2>1, <2>2
<1>10. Steady(seqs[12])
  <2> DEFINE l == Layer("enricher", "enricher", Enricher)
             r == Reads(l, IF "tokenizer" \in p.parts THEN {"tokenizer_url"} ELSE {})
             s == TellIf(r, "queue" \in p.parts, "event_backbone_url", "nats")
  <2>1. Free(l)
    BY FreeSteps
  <2>2. render_enricher(p) = Once(p, "enricher", s)
    BY DEF render_enricher
  <2> HIDE DEF l
  <2>3. Free(r)
    BY <2>1, FreeKept
  <2> HIDE DEF r
  <2>4. Free(s)
    BY <2>3, FreeTellIf
  <2> HIDE DEF s
  <2>5. AllFree(render_enricher(p))
    BY <2>2, <2>4, OnceWaits
  <2>6. AllFree(seqs[12])
    BY <2>5, PartsAre
  <2> QED
    BY <1>1, <2>6
<1>11. Steady(seqs[13])
  <2> DEFINE l(type) == Layer("policy", type, Policy)
             k(type) == Keeps(l(type), {Limiter(type)})
             t(type) == TellIf(k(type), "valkey" \notin p.parts, "cache_url", "given")
             R(type) == TellIf(t(type), Has(p, "controlplane", "admin"), "admin_cp_url", "admin")
  <2>1. seqs[13] = [i \in DOMAIN p.policies |-> R(p.policies[i])]
    BY PartsAre DEF render_policies, PerItem
  <2>2. ASSUME NEW type
        PROVE  Free(R(type))
    <3>1. Free(l(type))
      BY FreeSteps
    <3> HIDE DEF l
    <3>2. Free(k(type))
      BY <3>1, FreeKept
    <3> HIDE DEF k
    <3>3. Free(t(type))
      BY <3>2, FreeTellIf
    <3> HIDE DEF t
    <3> QED
      BY <3>3, FreeTellIf
  <2> HIDE DEF R
  <2> QED
    BY <2>1, <2>2
<1>12. Steady(seqs[14])
  <2>1. PICK s, told :
          /\ render_gateway(p) = Once(p, "gateway", s)
          /\ IsLayer(s, "gateway", "modelgateway", Gateway, told, Named(p), Gateway.provides)
    BY GatewayStep
  <2>2. Free(s)
    BY <2>1 DEF IsLayer, Free, Anytime
  <2>3. AllFree(render_gateway(p))
    BY <2>1, <2>2, OnceWaits
  <2>4. AllFree(seqs[14])
    BY <2>3, PartsAre
  <2> QED
    BY <1>1, <2>4
<1>13. Steady(seqs[16])
  <2> DEFINE l(type) == Layer("portal", type, Portal)
             t(type) == TellIf(l(type), Len(p.planes) # 1 /\ type \in p.upstreams,
                               "controlplane_endpoint", type)
             R(type) == IF type = "organization" /\ "gateway" \in p.parts
                        THEN Names(t(type), {"gateway_endpoint"}) ELSE t(type)
  <2>1. seqs[16] = [i \in DOMAIN p.portals |-> R(p.portals[i])]
    BY PartsAre DEF render_portals, PerItem
  <2>2. ASSUME NEW type
        PROVE  Free(R(type))
    <3>1. Free(l(type))
      BY FreeSteps
    <3> HIDE DEF l
    <3>2. Free(t(type))
      BY <3>1, FreeTellIf
    <3> HIDE DEF t
    <3>3. Free(Names(t(type), {"gateway_endpoint"}))
      BY <3>2, FreeKept
    <3> QED
      BY <3>2, <3>3
  <2> HIDE DEF R
  <2> QED
    BY <2>1, <2>2
<1>14. Steady(seqs[17])
  <2> DEFINE l == Layer("billing", "stripe", Billing)
             s == TellIf(l, "queue" \in p.parts, "event_backbone_url", "nats")
  <2>1. Free(l)
    BY FreeSteps
  <2>2. render_billing(p) = Once(p, "billing", s)
    BY DEF render_billing
  <2> HIDE DEF l
  <2>3. Free(s)
    BY <2>1, FreeTellIf
  <2> HIDE DEF s
  <2>4. AllFree(render_billing(p))
    BY <2>2, <2>3, OnceWaits
  <2>5. AllFree(seqs[17])
    BY <2>4, PartsAre
  <2> QED
    BY <1>1, <2>5
<1>15. Steady(seqs[18])
  <2> DEFINE R(name) == Layer("route", name, Route)
  <2>1. seqs[18] = [i \in DOMAIN p.routes |-> R(p.routes[i])]
    BY PartsAre DEF render_routes, PerItem
  <2>2. \A name : Free(R(name))
    BY FreeSteps
  <2> HIDE DEF R
  <2> QED
    BY <2>1, <2>2
<1> HIDE DEF Steady
<1>16. a \in {1, 2, 3, 4, 5, 6} \/ a \in {7, 8, 9, 10, 11, 12} \/ a \in {13, 14, 15, 16, 17, 18}
  OBVIOUS
<1>17. Steady(seqs[a])
  BY <1>3, <1>4, <1>5, <1>6, <1>7, <1>8, <1>9, <1>10, <1>11, <1>12, <1>13, <1>14, <1>15, <1>16
<1> QED
  BY <1>17 DEF Steady

\* Every selection that names billing or the control planes names their
\* database.
DatabasesNamed ==
  \A selected \in Selections :
    {"billing", "controlplane"} \cap selected # {} => "database" \in selected

\* No Secret of the script is skipped: what it waits for is published before.
SecretsFed(S) ==
  \A i \in DOMAIN S :
    \/ Waits(S[i], {})
    \/ Waits(S[i], {"db_urls"}) /\ \E j \in 1..(i - 1) : Supplies(S[j], "db_urls")

LEMMA LaidFeeds ==
  ASSUME NEW X, NEW n \in Nat, NEW seqs \in [1..n -> Seq(X)], NEW F \in Seq(X), Laid(F, seqs, n),
         \A a \in 1..n : \A b \in DOMAIN seqs[a] :
           \/ Waits(seqs[a][b], {})
           \/ /\ Waits(seqs[a][b], {"db_urls"})
              /\ \E c \in 1..n : \E d \in DOMAIN seqs[c] :
                   Earlier(c, d, a, b) /\ Supplies(seqs[c][d], "db_urls")
  PROVE  SecretsFed(F)
<1>1. SUFFICES ASSUME NEW i \in DOMAIN F
               PROVE  \/ Waits(F[i], {})
                      \/ /\ Waits(F[i], {"db_urls"})
                         /\ \E j \in 1..(i - 1) : Supplies(F[j], "db_urls")
  BY DEF SecretsFed
<1>2. PICK a \in 1..n : \E b \in DOMAIN seqs[a] : Stems(F, i, seqs, n, a, b)
  BY DEF Laid
<1>3. PICK b \in DOMAIN seqs[a] : Stems(F, i, seqs, n, a, b)
  BY <1>2
<1>4. F[i] = seqs[a][b]
  BY <1>3 DEF Stems
<1>5. CASE Waits(seqs[a][b], {})
  BY <1>4, <1>5
<1>6. CASE ~Waits(seqs[a][b], {})
  <2>1. /\ Waits(seqs[a][b], {"db_urls"})
        /\ \E c \in 1..n : \E d \in DOMAIN seqs[c] :
             Earlier(c, d, a, b) /\ Supplies(seqs[c][d], "db_urls")
    BY <1>6, Zenon
  <2>2. PICK c \in 1..n : \E d \in DOMAIN seqs[c] :
                             Earlier(c, d, a, b) /\ Supplies(seqs[c][d], "db_urls")
    BY <2>1
  <2>3. PICK d \in DOMAIN seqs[c] : Earlier(c, d, a, b) /\ Supplies(seqs[c][d], "db_urls")
    BY <2>2
  <2>4. PICK j \in 1..(i - 1) : F[j] = seqs[c][d]
    BY <1>3, <2>3 DEF Stems
  <2>5. Supplies(F[j], "db_urls")
    BY <2>3, <2>4, Zenon
  <2> QED
    BY <1>4, <2>1, <2>5
<1> QED
  BY <1>5, <1>6

LEMMA MainFeeds ==
  ASSUME NEW selected,
         {"billing", "controlplane"} \cap selected # {} => "database" \in selected
  PROVE  SecretsFed(Main(selected))
<1>1. PICK seqs : seqs = StagesOf(selected)
  OBVIOUS
<1>2. PICK X : /\ seqs \in [1..20 -> Seq(X)] /\ Main(selected) \in Seq(X)
               /\ Laid(Main(selected), seqs, 20)
  BY <1>1, MainLaid
<1>3. ASSUME NEW a \in 1..20, NEW b \in DOMAIN seqs[a]
      PROVE  \/ Waits(seqs[a][b], {})
             \/ /\ Waits(seqs[a][b], {"db_urls"})
                /\ \E c \in 1..20 : \E d \in DOMAIN seqs[c] :
                     Earlier(c, d, a, b) /\ Supplies(seqs[c][d], "db_urls")
  <2>1. AllWait(seqs[a], IF StageOrder[a] \in selected \cap {"billing", "controlplane"}
                         THEN {"db_urls"} ELSE {})
    BY <1>1, StagesWait
  <2>2. CASE StageOrder[a] \in selected \cap {"billing", "controlplane"}
    <3>1. "database" \in selected /\ a > 9
      BY <2>2, OrderIs
    <3>2. seqs[9] = stage_database
      BY <1>1, <3>1, StagesOfIs, OrderIs, StepsAre
    <3>3. 9 \in 1..20 /\ 2 \in DOMAIN seqs[9] /\ Earlier(9, 2, a, b)
          /\ Supplies(seqs[9][2], "db_urls")
      BY <3>1, <3>2, DatabaseFree DEF Earlier
    <3>4. Waits(seqs[a][b], {"db_urls"})
      BY <2>1, <2>2 DEF AllWait
    <3> QED
      BY <3>3, <3>4
  <2>3. CASE StageOrder[a] \notin selected \cap {"billing", "controlplane"}
    BY <2>1, <2>3 DEF AllWait
  <2> QED
    BY <2>2, <2>3
<1>4. 20 \in Nat
  OBVIOUS
<1> QED
  BY <1>2, <1>3, <1>4, LaidFeeds

LEMMA PlanFeeds ==
  ASSUME NEW p, Accepted(p), OnACluster(p)
  PROVE  SecretsFed(_render_script(p))
<1>1. PICK seqs : seqs = PartsOf(p)
  OBVIOUS
<1>2. PICK X : /\ seqs \in [1..18 -> Seq(X)] /\ _render_script(p) \in Seq(X)
               /\ Laid(_render_script(p), seqs, 18)
  BY <1>1, PlanLaid
<1>3. \A a \in 1..18 : \A b \in DOMAIN seqs[a] : Waits(seqs[a][b], {})
  BY <1>1, PartsFree DEF Free, Anytime, Waits
<1>4. 18 \in Nat
  OBVIOUS
<1> QED
  BY <1>2, <1>3, <1>4, LaidFeeds

LEMMA JobFeeds ==
  ASSUME Proposed, DatabasesNamed, NEW j \in Jobs
  PROVE  SecretsFed(Scripts[j])
BY JobIs, MainFeeds, PlanFeeds DEF Proposed, DatabasesNamed

\* The value that a run has for a key, whichever Secret it goes to.
ValueOf(k) == IF k = "service" THEN <<run, "once">> ELSE Asked(k)

Written(n) == n \in DOMAIN secrets /\ \A k \in DOMAIN secrets[n] : secrets[n][k] = ValueOf(k)

KeysInv ==
  /\ outcome \in {"running", "ready"}
       => /\ job \in Jobs
          /\ \A i \in 1 .. taken :
               Scripts[job][i].op = "secret" => Written(Scripts[job][i].name)
  /\ outcome = "ready" => taken = Len(Scripts[job])

LEMMA WrittenKept ==
  ASSUME UNCHANGED <<secrets, run>>, NEW n, Written(n)
  PROVE  Written(n)'
BY DEF Written, ValueOf, Asked

LEMMA SecretWritten ==
  ASSUME NEW s, WriteSecret(s)
  PROVE  Written(s.name)' /\ \A n : Written(n) => Written(n)'
<1> DEFINE v == [k \in s.reads |-> KeyFor(s.name, k)]
<1>1. secrets' = With(secrets, s.name, v) /\ UNCHANGED run
  BY DEF WriteSecret
<1>2. v = [k \in s.reads |-> KeyFor(s.name, k)]
  OBVIOUS
<1> HIDE DEF v
<1>3. /\ DOMAIN secrets' = DOMAIN secrets \cup {s.name}
      /\ secrets'[s.name] = v
      /\ \A n \in DOMAIN secrets : n # s.name => secrets'[n] = secrets[n]
  BY <1>1 DEF With
<1>4. /\ DOMAIN secrets' = DOMAIN secrets \cup {s.name}
      /\ secrets'[s.name] = [k \in s.reads |-> KeyFor(s.name, k)]
      /\ \A n \in DOMAIN secrets : n # s.name => secrets'[n] = secrets[n]
      /\ UNCHANGED run
  BY <1>1, <1>2, <1>3
<1>5. \A k : KeyFor(s.name, k) = ValueOf(k)
  BY DEF KeyFor, AdminServiceApiKey, ValueOf
<1>6. \A k : ValueOf(k)' = ValueOf(k)
  BY <1>4 DEF ValueOf, Asked
<1>7. Written(s.name)'
  BY <1>4, <1>5, <1>6 DEF Written
<1>8. ASSUME NEW n, Written(n)
      PROVE  Written(n)'
  <2>1. CASE n = s.name
    BY <1>7, <2>1
  <2>2. CASE n # s.name
    BY <1>4, <1>6, <1>8, <2>2 DEF Written
  <2> QED
    BY <2>1, <2>2
<1> QED
  BY <1>7, <1>8

\* A run goes on by a step that was no Secret, or was written.
LEMMA KeysGoOn ==
  ASSUME KeysInv, outcome = "running", outcome' = "running", taken \in Nat, UNCHANGED job,
         taken' = taken + 1, \A n : Written(n) => Written(n)',
         NEW s, s = Scripts[job][taken + 1], s.op = "secret" => Written(s.name)'
  PROVE  KeysInv'
<1>1. PICK S : S = Scripts[job]
  OBVIOUS
<1>2. S = Scripts[job']
  BY <1>1
<1>3. job' \in Jobs /\ \A i \in 1 .. taken : S[i].op = "secret" => Written(S[i].name)
  BY <1>1 DEF KeysInv
<1>4. ASSUME NEW i \in 1 .. taken', S[i].op = "secret"
      PROVE  Written(S[i].name)'
  <2>1. CASE i \in 1 .. taken
    BY <1>3, <1>4, <2>1
  <2>2. CASE i \notin 1 .. taken
    <3>1. i = taken + 1
      BY <2>2
    <3> QED
      BY <1>1, <1>4, <3>1
  <2> QED
    BY <2>1, <2>2
<1> QED
  BY <1>2, <1>3, <1>4 DEF KeysInv

LEMMA KeysStop ==
  ASSUME outcome' \notin {"running", "ready"}
  PROVE  KeysInv'
BY DEF KeysInv

\* The step that a run takes next, if it is a Secret, is not skipped.
LEMMA NoneSkipped ==
  ASSUME Proposed, DatabasesNamed, Goes, taken < Len(Scripts[job]),
         NEW s, s = Scripts[job][taken + 1], s.op = "secret"
  PROVE  s.given \subseteq DOMAIN values
<1>1. PICK S : S = Scripts[job]
  OBVIOUS
<1>2. SecretsFed(S) /\ (\E X : S \in Seq(X)) /\ taken \in 0 .. Len(S)
      /\ \A i \in 1 .. taken : Anytime(S[i]) => Done(S[i])
  BY <1>1, JobFeeds, JobFits DEF Goes, ScriptFits
<1>3. taken + 1 \in DOMAIN S /\ (taken + 1) - 1 = taken
  BY <1>1, <1>2
<1>4. \/ Waits(s, {})
      \/ Waits(s, {"db_urls"}) /\ \E j \in 1 .. taken : Supplies(S[j], "db_urls")
  BY <1>1, <1>2, <1>3 DEF SecretsFed
<1>5. CASE Waits(s, {})
  BY <1>5 DEF Waits
<1>6. CASE Waits(s, {"db_urls"}) /\ \E j \in 1 .. taken : Supplies(S[j], "db_urls")
  <2>1. "db_urls" \in DOMAIN values
    BY <1>2, <1>6 DEF Supplies, Done
  <2> QED
    BY <1>6, <2>1 DEF Waits
<1> QED
  BY <1>4, <1>5, <1>6

LEMMA KeysTake ==
  ASSUME Proposed, DatabasesNamed, RunInv, KeysInv, TakeStep
  PROVE  KeysInv'
<1>1. PICK s : s = Scripts[job][taken + 1]
  OBVIOUS
<1>2. /\ outcome = "running" /\ taken < Len(Scripts[job]) /\ Take(s)
      /\ UNCHANGED <<secrets, run, job>> /\ Goes /\ taken \in Nat
  BY <1>1 DEF TakeStep, fullVars, RunInv, Goes
<1>3. \A n : Written(n) => Written(n)'
  BY <1>2, WrittenKept
<1>4. CASE Skip(s)
  <2>1. outcome' = outcome /\ taken' = taken + 1 /\ ~(s.given \subseteq DOMAIN values)
    BY <1>4 DEF Skip, Advance
  <2>2. s.op # "secret"
    BY <1>1, <1>2, <2>1, NoneSkipped
  <2> QED
    BY <1>1, <1>2, <1>3, <2>1, <2>2, KeysGoOn
<1>5. CASE Do(s) \/ CreateLayer(s)
  <2>1. outcome' = outcome /\ taken' = taken + 1 /\ s.op # "secret"
    BY <1>5 DEF Do, CreateLayer, Creates, Advance
  <2> QED
    BY <1>1, <1>2, <1>3, <2>1, KeysGoOn
<1>6. CASE WorkFails(s) \/ Refuse(s) \/ RaisedByBackend(s) \/ CreateFails(s)
  <2>1. outcome' \in {"failed", "raised"}
    BY <1>6 DEF WorkFails, Refuse, RaisedByBackend, CreateFails, Stop
  <2> QED
    BY <2>1, KeysStop
<1> QED
  BY <1>2, <1>4, <1>5, <1>6 DEF Take

LEMMA KeysWrite ==
  ASSUME RunInv, KeysInv, SecretStep
  PROVE  KeysInv'
<1>1. PICK s : s = Scripts[job][taken + 1]
  OBVIOUS
<1>2. /\ outcome = "running" /\ UNCHANGED job /\ (WriteSecret(s) \/ SecretFails(s))
      /\ taken \in Nat
  BY <1>1 DEF SecretStep, RunInv, Goes
<1>3. CASE WriteSecret(s)
  <2>1. outcome' = outcome /\ taken' = taken + 1
    BY <1>3 DEF WriteSecret, Advance
  <2> QED
    BY <1>1, <1>2, <1>3, <2>1, SecretWritten, KeysGoOn
<1>4. CASE SecretFails(s)
  BY <1>4, KeysStop DEF SecretFails, Stop
<1> QED
  BY <1>2, <1>3, <1>4

LEMMA KeysStep ==
  ASSUME Proposed, DatabasesNamed, RunInv, KeysInv, [PlatformNext]_platformVars
  PROVE  KeysInv'
<1>1. CASE \E selected \in Selections : StartStages(selected)
  <2>1. job' \in Jobs /\ taken' = 0 /\ outcome' = "running"
    BY <1>1 DEF StartStages, StartRun, Jobs
  <2> QED
    BY <2>1 DEF KeysInv
<1>2. CASE \E p \in Plans : Accepted(p) /\ StartPlan(p)
  <2>1. job' \in Jobs /\ taken' = 0 /\ outcome' = "running"
    BY <1>2 DEF StartPlan, StartRun, Jobs
  <2> QED
    BY <2>1 DEF KeysInv
<1>3. CASE RemoveCluster
  BY <1>3, KeysStop DEF RemoveCluster
<1>4. CASE TakeStep
  BY <1>4, KeysTake
<1>5. CASE SecretStep
  BY <1>5, KeysWrite
<1>6. CASE FinishRun
  <2>1. /\ outcome = "running" /\ taken = Len(Scripts[job])
        /\ UNCHANGED <<taken, secrets, run, job>>
    BY <1>6 DEF FinishRun, Ready, fullVars
  <2>2. \A n : Written(n) => Written(n)'
    BY <2>1, WrittenKept
  <2> QED
    BY <2>1, <2>2 DEF KeysInv
<1>7. CASE UNCHANGED platformVars
  <2>1. UNCHANGED <<taken, outcome, secrets, run, job>>
    BY <1>7 DEF platformVars, stackVars, fullVars
  <2>2. \A n : Written(n) => Written(n)'
    BY <2>1, WrittenKept
  <2> QED
    BY <2>1, <2>2 DEF KeysInv
<1> QED
  BY <1>1, <1>2, <1>3, <1>4, <1>5, <1>6, <1>7 DEF PlatformNext

LEMMA KeysSettled ==
  ASSUME Proposed, KeysInv
  PROVE  KeysAgree
<1>1. SUFFICES ASSUME outcome = "ready", NEW a \in Holders(job), NEW b \in Holders(job),
                      NEW k \in DOMAIN secrets[a] \cap DOMAIN secrets[b]
               PROVE  secrets[a][k] = secrets[b][k]
  BY DEF KeysAgree
<1>2. PICK S : S = Scripts[job]
  OBVIOUS
<1>3. /\ job \in Jobs /\ taken = Len(S)
      /\ \A i \in 1 .. taken : S[i].op = "secret" => Written(S[i].name)
  BY <1>1, <1>2 DEF KeysInv
<1>4. DOMAIN S = 1 .. taken
  BY <1>2, <1>3, JobFits DEF ScriptFits
<1>5. ASSUME NEW n \in Holders(job)
      PROVE  Written(n)
  <2>1. PICK i \in DOMAIN S : S[i].op = "secret" /\ n = S[i].name
    BY <1>2, <1>5 DEF Holders
  <2> QED
    BY <1>3, <1>4, <2>1
<1>6. Written(a) /\ Written(b)
  BY <1>5
<1> QED
  BY <1>6 DEF Written

\* A run that reached its end has left one value of a key in all the Secrets
\* it wrote, whatever runs came before it: none of them was skipped for the
\* lack of a value, and none was generated on its own.
THEOREM SecretsAgree ==
  Proposed /\ DatabasesNamed => (PlatformSpec => []KeysAgree)
<1> SUFFICES ASSUME Proposed, DatabasesNamed
             PROVE  PlatformSpec => []KeysAgree
  OBVIOUS
<1>1. PlatformInit => RunInv /\ KeysInv
  BY RunInvInit DEF PlatformInit, StackInit, KeysInv
<1>2. RunInv /\ KeysInv /\ [PlatformNext]_platformVars => (RunInv /\ KeysInv)'
  BY RunInvStep, KeysStep
<1>3. KeysInv => KeysAgree
  BY KeysSettled
<1> QED
  BY <1>1, <1>2, <1>3, PTL DEF PlatformSpec

=============================================================================
