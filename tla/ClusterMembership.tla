--------------------------- MODULE ClusterMembership ---------------------------
(***************************************************************************)
(* RKE2Backend (multistack/backends/rke2_client.py): nodes joined to and   *)
(* removed from a cluster over SSH, and the state file that remembers      *)
(* which.  A verb is a list of phases; a phase does one thing to a set of  *)
(* nodes, one after the other or in parallel, and each node's success is   *)
(* saved as it is collected.  Any node may fail, or be out of reach; the   *)
(* process may die at any step, also with the state file half written.     *)
(* What is installed on a node and what runs there are two things: only a  *)
(* start of a service that is down, or a restart, makes them one.          *)
(***************************************************************************)
EXTENDS Naturals, Sequences, FiniteSets

CONSTANTS Servers,     \* the addresses offered with the role server
          Agents,      \* those with the role agent
          First,       \* cluster.first_server
          MaxVersion,  \* a bound on the RKE2 versions asked for
          MaxCalls     \* a bound on the calls of one behaviour

ASSUME NodesAssumption == /\ First \in Servers
                          /\ Servers \cap Agents = {}
                          /\ MaxVersion \in Nat /\ MaxCalls \in Nat

Nodes == Servers \cup Agents

VARIABLES file,      \* the cluster's state file
          node,      \* address -> what runs there
          secret,    \* the join token the first server was started with; 0: none
          op,        \* the call in progress
          excused,   \* nodes of which the file may say too little: see Properties
          tried,     \* versions that updates asked for since one last made all alike
          calls      \* calls made so far

vars == <<file, node, secret, op, excused, tried, calls>>

\* A generated token is known by the call that made it.
Tokens == 0..MaxCalls
NoFile == [there |-> "no", version |-> 0, token |-> 0, nodes |-> {}]
Torn == [NoFile EXCEPT !.there = "torn"]
Files == [there : {"no", "whole", "torn"}, version : 0..MaxVersion,
          token : Tokens, nodes : SUBSET Nodes]
Phase == [do : {"join", "remove", "tear", "upgrade"}, on : SUBSET Nodes,
          parallel : BOOLEAN]
Op == [verb : {"none", "create", "update", "delete"}, version : 0..MaxVersion,
       token : Tokens, phases : Seq(Phase), todo : SUBSET Nodes, ran : SUBSET Nodes,
       failed : BOOLEAN]
NoOp == [verb |-> "none", version |-> 0, token |-> 0, phases |-> <<>>,
         todo |-> {}, ran |-> {}, failed |-> FALSE]

\* Version 0 is none.
Bare == [installed |-> 0, runs |-> 0]

TypeOK == /\ file \in Files
          /\ node \in [Nodes -> [installed : 0..MaxVersion, runs : 0..MaxVersion]]
          /\ \A n \in Nodes : node[n].installed = 0 => node[n].runs = 0
          /\ secret \in Tokens
          /\ op \in Op
          /\ excused \subseteq Nodes /\ tried \subseteq 1..MaxVersion
          /\ calls \in 0..MaxCalls

Init == /\ file = NoFile
        /\ node = [n \in Nodes |-> Bare]
        /\ secret = 0
        /\ op = NoOp
        /\ excused = {} /\ tried = {}
        /\ calls = 0

Up(n) == node[n].runs # 0

-------------------------------------------------------------------------------
(* The verbs: what each checks, and its phases.                            *)

Seq1(do, on) == [do |-> do, on |-> on, parallel |-> FALSE]
Par(do, on) == [do |-> do, on |-> on, parallel |-> TRUE]

\* The next call, or, refused before it touched anything, none.
Start(verb, version, token, phases) ==
    /\ op = NoOp
    /\ calls < MaxCalls
    /\ calls' = calls + 1
    /\ op' = [NoOp EXCEPT !.verb = verb, !.version = version, !.token = token,
                          !.phases = phases, !.todo = Head(phases).on]
    /\ UNCHANGED <<file, node, secret, excused>>

\* create() refuses a name that has state; a file it cannot parse raises.
Create(want, version) ==
    /\ file.there = "no"
    /\ Start("create", version, calls + 1,
             <<Seq1("join", {First}),
               Seq1("join", (want \cap Servers) \ {First}),
               Par("join", want \cap Agents)>>)
    /\ tried' = {}

\* update() refuses to lose the first server.  Servers leave before agents,
\* join before agents, and are upgraded after them, the first one last.
Update(want, version) ==
    /\ file.there = "whole"
    /\ First \in want
    /\ LET added == want \ file.nodes
           removed == file.nodes \ want
           kept == IF version # file.version THEN want \cap file.nodes ELSE {}
       IN  Start("update", version, file.token,
                 <<Seq1("remove", removed \cap Servers),
                   Par("remove", removed \cap Agents),
                   Seq1("join", added \cap Servers),
                   Par("join", added \cap Agents),
                   Par("upgrade", kept \cap Agents),
                   Seq1("upgrade", (kept \cap Servers) \ {First}),
                   Seq1("upgrade", kept \cap {First})>>)
    /\ tried' = tried \cup {version}

\* Mutant: the first server goes with the other servers, before the agents.
Delete_ServersFirst ==
    /\ file.there = "whole"
    /\ Start("delete", 0, 0, <<Seq1("tear", file.nodes \cap Servers),
                               Par("tear", file.nodes \cap Agents)>>)
    /\ UNCHANGED tried

Delete ==
    /\ file.there = "whole"
    /\ Start("delete", 0, 0,
             <<Par("tear", file.nodes \cap Agents),
               Seq1("tear", (file.nodes \cap Servers) \ {First}),
               Seq1("tear", file.nodes \cap {First})>>)
    /\ UNCHANGED tried

-------------------------------------------------------------------------------
(* One node's part of a phase.                                             *)

Now == Head(op.phases)
Busy(n, does) == /\ op.phases # <<>>
                 /\ Now.do \in does
                 /\ n \in op.todo
                 /\ Now.parallel \/ op.ran = {}
Ran(n) == op' = [op EXCEPT !.todo = @ \ {n}, !.ran = @ \cup {n}]
Keep == UNCHANGED <<file, tried, calls>>

\* A sequential phase raises at once; a parallel one when all have ended.
Failed(n) == op' = IF Now.parallel
                   THEN [op EXCEPT !.todo = @ \ {n}, !.failed = TRUE]
                   ELSE NoOp

\* Whether a service that is down comes up: a node's first server has to let
\* it in.
Admits(n) == n = First \/ (Up(First) /\ op.token = secret)

Installed(n) == [node EXCEPT ![n].installed = op.version]
Down(n) == [node EXCEPT ![n] = [installed |-> op.version, runs |-> 0]]
Restarted(n) == [node EXCEPT ![n] = [installed |-> op.version, runs |-> op.version]]

\* systemctl start: a service that runs goes on as it was, with its version
\* and, on the first server, with its token.
Started(n) ==
    \/ Up(n) /\ node' = Installed(n) /\ UNCHANGED secret
    \/ /\ ~Up(n) /\ Admits(n)
       /\ node' = Restarted(n)
       /\ secret' = IF n = First THEN op.token ELSE secret

\* _bootstrap_server, _bootstrap_agent: install, configure, start, wait.
Bootstrap(n) ==
    /\ Busy(n, {"join"})
    /\ Started(n)
    /\ excused' = IF Up(n) THEN excused \cup {n} ELSE excused \ {n}
    /\ Ran(n)
    /\ Keep

\* It fails with RKE2 installed or not, or, the deadline having passed, with
\* a service that comes up after all.
BootstrapFails(n) ==
    /\ Busy(n, {"join"})
    /\ Failed(n)
    /\ \/ node' \in {node, Installed(n)} /\ UNCHANGED secret
       \/ Started(n)
    /\ excused' = excused \cup {n}
    /\ Keep

\* _teardown_node runs the uninstall script.
Teardown(n) ==
    /\ Busy(n, {"remove", "tear"})
    /\ node' = [node EXCEPT ![n] = Bare]
    /\ secret' = IF n = First THEN 0 ELSE secret
    /\ Ran(n)
    /\ Keep /\ UNCHANGED excused

\* A node out of reach does not hold up the others, and the exit status of
\* the script is not looked at: it counts as torn down.
TeardownUnreachable(n) ==
    /\ Busy(n, {"remove", "tear"})
    /\ Ran(n)
    /\ excused' = excused \cup {n}
    /\ Keep /\ UNCHANGED <<node, secret>>

\* RKE2 is there and its uninstall script is not.
TeardownRefused(n) ==
    /\ Busy(n, {"remove", "tear"})
    /\ node[n] # Bare
    /\ Failed(n)
    /\ Keep /\ UNCHANGED <<node, secret, excused>>

\* Mutant: the install script is run without the version, and takes the latest.
Upgrade_Latest(n) ==
    /\ Busy(n, {"upgrade"})
    /\ node' = [node EXCEPT ![n] = [installed |-> MaxVersion + 1, runs |-> MaxVersion + 1]]
    /\ Ran(n)
    /\ Keep /\ UNCHANGED <<secret, excused>>

\* _upgrade_node: install the version, restart, wait.  It does so on whatever
\* node is recorded.  One that an unfinished delete() has uninstalled has no
\* configuration: an agent does not start, and a server begins a cluster of
\* its own.
Upgrade(n) ==
    /\ Busy(n, {"upgrade"})
    /\ node[n] = Bare => n \in Servers
    /\ node' = Restarted(n)
    /\ excused' = IF node[n] = Bare THEN excused \cup {n} ELSE excused
    /\ Ran(n)
    /\ Keep /\ UNCHANGED secret

\* It fails before or after the installation, with the service left down by
\* the restart, or up when the deadline had passed.
UpgradeFails(n) ==
    /\ Busy(n, {"upgrade"})
    /\ node' \in {node, Installed(n), Down(n), Restarted(n)}
    /\ excused' = IF node[n] = Bare THEN excused \cup {n} ELSE excused
    /\ Failed(n)
    /\ Keep /\ UNCHANGED secret

-------------------------------------------------------------------------------
(* The process's own steps.                                                *)

\* Mutant: the file is written once, at the end.
Upsert_Late(n) ==
    file' = IF Len(op.phases) > 1 \/ op.todo # {} THEN file
            ELSE [there |-> "whole", nodes |-> file.nodes \cup {n},
                  version |-> op.version, token |-> op.token]

\* Mutant: every save writes the version that was asked for.
Upsert_Version(n) ==
    file' = [there |-> "whole", nodes |-> file.nodes \cup {n}, version |-> op.version,
             token |-> IF op.verb = "create" THEN op.token ELSE file.token]

\* _upsert_node_in_state: the first one of a create also makes the file.
Upsert(n) ==
    file' = [there |-> "whole", nodes |-> file.nodes \cup {n},
             version |-> IF op.verb = "create" THEN op.version ELSE file.version,
             token |-> IF op.verb = "create" THEN op.token ELSE file.token]

\* on_success, as each node's result is collected.
Collect(n) ==
    /\ op.phases # <<>>
    /\ n \in op.ran
    /\ op' = [op EXCEPT !.ran = @ \ {n}]
    /\ \/ Now.do = "join" /\ Upsert(n)
       \/ Now.do = "remove" /\ file' = [file EXCEPT !.nodes = @ \ {n}]
       \/ Now.do \in {"tear", "upgrade"} /\ UNCHANGED file
    /\ UNCHANGED <<node, secret, excused, tried, calls>>

\* The phase is over: the next one, or the errors of this one.
PhaseEnds ==
    /\ op.phases # <<>>
    /\ op.todo = {} /\ op.ran = {}
    /\ LET rest == Tail(op.phases)
       IN  op' = IF op.failed THEN NoOp
                 ELSE [op EXCEPT !.phases = rest,
                           !.todo = IF rest = <<>> THEN {} ELSE Head(rest).on]
    /\ UNCHANGED <<file, node, secret, excused, tried, calls>>

\* The last save: the version an update brought every kept node to; nothing
\* more after a create; no file after a delete.
Finish ==
    /\ op # NoOp
    /\ op.phases = <<>>
    /\ file' = CASE op.verb = "delete" -> NoFile
                 [] op.verb = "update" -> [file EXCEPT !.version = op.version]
                 [] op.verb = "create" -> file
    /\ tried' = IF op.verb = "update" /\ op.version # file.version THEN {} ELSE tried
    /\ op' = NoOp
    /\ UNCHANGED <<node, secret, excused, calls>>

Unsaved == IF op.phases # <<>> /\ Now.do = "join" THEN op.ran ELSE {}

\* The process dies, or raises between two phases where it reads the
\* kubeconfig: what its threads had done and not saved is unrecorded.
Crash ==
    /\ op # NoOp
    /\ op' = NoOp
    /\ \/ file' = file /\ excused' = excused \cup Unsaved
       \/ /\ op.verb # "delete" \* open(path, "w") truncates before it writes
          /\ file' = Torn
          /\ excused' = Nodes
    /\ UNCHANGED <<node, secret, tried, calls>>

Next == \/ \E want \in SUBSET Nodes, v \in 1..MaxVersion :
              Create(want, v) \/ Update(want, v)
        \/ Delete
        \/ \E n \in Nodes : \/ Bootstrap(n) \/ BootstrapFails(n)
                            \/ Teardown(n) \/ TeardownUnreachable(n)
                            \/ TeardownRefused(n)
                            \/ Upgrade(n) \/ UpgradeFails(n)
                            \/ Collect(n)
        \/ PhaseEnds \/ Finish \/ Crash

Spec == Init /\ [][Next]_vars

-------------------------------------------------------------------------------
(* Properties.                                                             *)
(*                                                                         *)
(* The excuses are the ones the code documents or cannot have: a node      *)
(* whose service came up after its deadline, or that ran already when it   *)
(* was joined, one that was out of reach when it was torn down, one that   *)
(* was torn down and then upgraded, and what a dying process had not saved.*)

\* A node that joined is in the state file, whichever of its siblings failed
\* after it: otherwise update() cannot reach it and delete() refuses to run.
JoinedIsRecorded ==
    \A n \in Nodes : Up(n) => n \in file.nodes \cup op.ran \cup excused

\* The first server, which the others need to reach the cluster at all, is
\* uninstalled when every node that is still recorded has been, across failed
\* and repeated updates and deletes.
FirstServerLast ==
    node[First] = Bare => \A n \in file.nodes : node[n] = Bare \/ n \in excused

\* Once an update to another version has finished, every recorded node runs
\* the recorded version.  From then on a recorded node runs that one, or one
\* that an unfinished update asked for, and that update can be repeated: the
\* file keeps the old version until every node has left it.
VersionIsTrue ==
    \A n \in file.nodes \ excused : Up(n) => node[n].runs \in {file.version} \cup tried

\* What the state file says of the nodes is so.
FileIsTrue == JoinedIsRecorded /\ VersionIsTrue

\* `join token is fixed at cluster creation': the recorded token is the one
\* the first server admits nodes with.
RecordedTokenAdmits ==
    file.there = "whole" /\ Up(First) => file.token = secret

\* `once every kept node is confirmed upgraded': the version on record, when
\* no call is in progress, is the one that the recorded nodes run.
RecordedVersionRuns ==
    file.there = "whole" /\ op = NoOp => \A n \in file.nodes : Up(n) => node[n].runs = file.version
===============================================================================
