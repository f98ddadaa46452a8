------------------------ MODULE CapabilityDriversProofs ------------------------
(***************************************************************************)
(* The drivers implement Deployments, and whatever implements Deployments  *)
(* keeps the record true (DeploymentsProofs proves it of any).  Together:  *)
(* the record of the shipped drivers is true.                              *)
(*                                                                         *)
(* The argument is in three parts.  PlansFit says what the table of plans  *)
(* must be like; its rows are gone through at the end.  DInv says what a   *)
(* process in the middle of its plan has done and has yet to do; it is     *)
(* kept, under PlansFit, together with the invariant of Deployments, which *)
(* it needs: a verb's plan starts from what the row says.  And a step of   *)
(* such a process is a step of Deployments, or changes nothing there.      *)
(*                                                                         *)
(* D and P are the same module seen through the same mapping, P with the   *)
(* theorems about it: every action of the one is an action of the other.   *)
(***************************************************************************)
EXTENDS CapabilityDrivers, SequenceTheorems, TLAPS

P == INSTANCE DeploymentsProofs WITH made <- [s \in Specs |-> Made(s)],
                                     Upserting <- Upserts

\* The two begin alike,
LEMMA SameInit == D!Init => P!Init
BY DEF P!Init, D!Init, P!LayerInit, D!LayerInit, P!RecordedProvisioned,
       D!RecordedProvisioned, P!Idle, D!Idle

\* a verb is called alike,
LEMMA SameCalls ==
    ASSUME NEW p \in Procs, NEW s \in Specs,
           D!CallCreate(p, s) \/ D!CallDelete(p, s) \/ D!CallUpdate(p, s)
    PROVE  P!CallCreate(p, s) \/ P!CallDelete(p, s) \/ P!CallUpdate(p, s)
BY DEF D!CallCreate, P!CallCreate, D!CallDelete, P!CallDelete, D!CallUpdate,
       P!CallUpdate, D!Begin, P!Begin, D!Idle, P!Idle

\* recorded alike (state/tracking.py),
LEMMA SameBookkeeping ==
    ASSUME NEW p \in Procs PROVE D!Bookkeeping(p) => P!Bookkeeping(p)
<1> USE DEF D!NameIn, P!NameIn, D!Recorded, P!Recorded, D!GoTo, P!GoTo,
            D!Return, P!Return, D!Idle, P!Idle, D!NoRow, P!NoRow, D!SetStatus, P!SetStatus
<1>1. D!RequireHealthyDependencies(p) => P!RequireHealthyDependencies(p)
  BY DEF D!RequireHealthyDependencies, P!RequireHealthyDependencies,
         D!HasHealthy, P!HasHealthy, D!Names, P!Names
<1>2. D!StartRow(p) => P!StartRow(p)
  BY DEF D!StartRow, P!StartRow
<1>3. D!Mark(p) => P!Mark(p)
  BY DEF D!Mark, P!Mark
<1>4. D!Settle(p) => P!Settle(p)
  BY DEF D!Settle, P!Settle
<1>5. D!MarkFailed(p) => P!MarkFailed(p)
  BY DEF D!MarkFailed, P!MarkFailed
<1>6. D!RestorePrevious(p) => P!RestorePrevious(p)
  BY DEF D!RestorePrevious, P!RestorePrevious
<1> QED
  BY <1>1, <1>2, <1>3, <1>4, <1>5, <1>6 DEF D!Bookkeeping, P!Bookkeeping

\* at work, and dead, alike:
LEMMA SameWork ==
    ASSUME NEW p \in Procs
    PROVE  /\ D!Work(p) => P!Work(p)
           /\ D!WorkDone(p) => P!WorkDone(p)
           /\ D!WorkRaises(p) => P!WorkRaises(p)
           /\ D!WorkRefused(p) => P!WorkRefused(p)
           /\ D!Crash(p) => P!Crash(p)
BY DEF D!Work, P!Work, D!WorkDone, P!WorkDone, D!WorkRaises, P!WorkRaises,
       D!WorkRefused, P!WorkRefused, D!Crash, P!Crash, D!Working, P!Working,
       D!GoTo, P!GoTo, D!Return, P!Return, D!Idle, P!Idle, D!Conditions, P!Conditions,
       D!BringsNothing, P!BringsNothing

\* so every step of the one is a step of the other,
LEMMA SameNext == [D!Next]_D!vars => [P!Next]_P!vars
<1> SUFFICES ASSUME D!Next PROVE P!Next
  BY DEF D!vars, P!vars, D!layer, P!layer
<1>1. PICK p \in Procs : D!Step(p)
  BY DEF D!Next
<1>2. P!Step(p)
  BY <1>1, SameCalls, SameBookkeeping, SameWork DEF D!Step, P!Step
<1> QED
  BY <1>2 DEF P!Next

\* and every behaviour a behaviour.
LEMMA Same == ImplementsDeployments => P!Spec
BY SameInit, SameNext, PTL DEF ImplementsDeployments, D!Spec, P!Spec

\* The assumptions of the theorems are those of the drivers' constants.
LEMMA Assumed == P!MaxCallsIsNat /\ P!FoundAssumption
BY MaxCallsIsNat, FoundAssumption DEF P!MaxCallsIsNat, P!FoundAssumption,
   Names, P!Names, Types, P!Types, NoRow, P!NoRow

\* Serial and UniqueNames are about the constants only.
LEMMA SameConditions ==
    ASSUME D!Serial, D!UniqueNames PROVE P!Serial /\ P!UniqueNames
BY DEF P!Serial, P!UniqueNames, D!Serial, D!UniqueNames

-------------------------------------------------------------------------------
(* What a verb's step brings to the cluster, and what it takes from it.    *)

IsPlan(plan) == plan \in Seq(Steps(plan))

Brings(st, o) ==
  \/ st.do = "install" /\ o \in st.gives
  \/ st.do = "apply" /\ st.on = o
Clears(st, o) == st.do = "clear_failed" /\ o \in st.gives
Waits(st, o) == st.do = "await" /\ st.on = o
Uninstalls(st) == st.do \in {"uninstall", "uninstall_if_any"}
Deletes(st) == st.do \in {"delete", "delete_quietly", "delete_if_found"}
Takes(st, o) ==
  \/ Uninstalls(st) /\ o \in st.gives
  \/ st.do \in {"delete", "delete_if_found"} /\ st.on = o

Driving(p) == op[p].pc \in {"require", "start", "mark", "work", "busy"}
InPlan(p) == Working(p) /\ at[p] \in DOMAIN Plan(p)
Builds(p) == op[p].verb = "create" \/ (op[p].verb = "update" /\ op[p].existing = "provisioned")

-------------------------------------------------------------------------------
(* What the proof needs of the table of plans.                             *)

\* The release whose uninstall takes the object.
OwnedBy(s, r, o) ==
  \E st \in Steps(Plans[s].delete) : Uninstalls(st) /\ st.on = r /\ o \in st.gives

\* A plan that builds: its steps, each for itself,
BuildSteps(s, plan) ==
  \A st \in Steps(plan) :
    /\ ~Uninstalls(st) /\ ~Deletes(st)
    /\ st.do = "done_if" => s = "postgres" /\ st.on = "postgres cluster"
    /\ st.do = "done_if_release" => s = "cnpg" /\ st.on = "cnpg"
    /\ st.do \in {"install", "install_once"} => st.on \in AllReleases /\ st.gives \subseteq AllObjects
    /\ st.do = "apply" => st.on \in AllObjects
    /\ st.do = "install_once" => st.gives \cap Promised(s) = {}
    /\ \A r \in Releases(s), o \in Promised(s) : OwnedBy(s, r, o) =>
         /\ st.do = "install" /\ o \in st.gives => st.on = r
         /\ st.do = "clear_failed" /\ st.on = r => o \in st.gives

\* and their order: what is cleared away is brought again, by a release that
\* is cleared before it is installed, and waited for again; what belongs to a
\* release is applied after it; and an update is refused before it does
\* anything.
BuildOrder(s, plan) ==
  \A j \in DOMAIN plan :
    /\ \A o \in Promised(s) :
         Clears(plan[j], o) => \E i \in DOMAIN plan : i > j /\ Brings(plan[i], o)
    /\ plan[j].do = "clear_failed" =>
         \A o \in Awaited(s) : \E i \in DOMAIN plan : i > j /\ Waits(plan[i], o)
    /\ plan[j].do = "clear_failed" =>
         \A i \in DOMAIN plan : plan[i].do = "install" /\ plan[i].on = plan[j].on => j < i
    /\ plan[j].do = "apply" =>
         \A r \in Releases(s) : plan[j].on \in Promised(s) /\ OwnedBy(s, r, plan[j].on) =>
           \E i \in DOMAIN plan : i < j /\ plan[i].do = "install" /\ plan[i].on = r
    /\ plan[j].do = "refuse" =>
         \A i \in DOMAIN plan : i < j => plan[i].do \in {"check", "refuse"}

BuildFits(s, plan) == IsPlan(plan) /\ BuildSteps(s, plan) /\ BuildOrder(s, plan)

\* A create brings all that is promised, and refuses nothing;
CreateFits(s, plan) ==
  /\ BuildFits(s, plan)
  /\ \A st \in Steps(plan) : st.do # "refuse"
  /\ Removable(s) # {} /\ Promised(s) \subseteq AllObjects
  /\ \A o \in Promised(s) : \E st \in Steps(plan) : Brings(st, o)

\* an update goes through all of its plan, and where it installs nothing it
\* applies nothing that is not there;
UpdateFits(s, plan) ==
  /\ BuildFits(s, plan)
  /\ \A st \in Steps(plan) :
       /\ st.do \notin {"done_if", "done_if_release"}
       /\ st.do = "apply" /\ st.on \in Promised(s) =>
            s \in Upserts \/ (s = "postgres" /\ st.on = "postgres cluster")

\* a delete takes all that is to be removed.
DeleteFits(s, plan) ==
  /\ IsPlan(plan)
  /\ \A st \in Steps(plan) :
       /\ st.do = "check" \/ Uninstalls(st) \/ Deletes(st)
       /\ st.do = "delete_if_found" => s = "postgres"
       /\ Uninstalls(st) => st.on \in Releases(s)
       /\ Uninstalls(st) => \A o \in Promised(s) : OwnedBy(s, st.on, o) => o \in st.gives
  /\ \A o \in Removable(s) : \E st \in Steps(plan) : Takes(st, o)

\* The two plans that return from the middle may: what they look at is made
\* last and taken first, or comes with all there is.
ClusterLast(plan) ==
  \A i, j \in DOMAIN plan :
    Brings(plan[i], "postgres cluster") /\ Brings(plan[j], "app secret") => j < i
ClusterRefused(plan) ==
  \A i \in DOMAIN plan : Brings(plan[i], "postgres cluster") =>
    \E j \in DOMAIN plan : j < i /\ plan[j].do = "refuse" /\ plan[j].on = "postgres cluster"
ClusterFirst(plan) ==
  \A i, j \in DOMAIN plan :
    Takes(plan[i], "postgres cluster") /\ Takes(plan[j], "app secret") => i < j

PostgresFits ==
  /\ Promised("postgres") = {"app secret", "postgres cluster"}
  /\ \A v \in Verbs : \A st \in Steps(Plans["postgres"][v]) :
       st.do \notin {"install", "install_once", "clear_failed", "uninstall", "uninstall_if_any"}
  /\ ClusterLast(Plans["postgres"].create)
  /\ ClusterRefused(Plans["postgres"].update)
  /\ ClusterFirst(Plans["postgres"].delete)
  /\ \A st \in Steps(Plans["postgres"].delete) :
       st.do # "check" /\ st.on = "app secret" => st.do = "delete"

CnpgFits ==
  /\ Promised("cnpg") = {"operator pods"} /\ Releases("cnpg") = {"cnpg"}
  /\ Awaited("cnpg") = {}
  /\ \A v \in Verbs : \A st \in Steps(Plans["cnpg"][v]) :
       /\ st.do \notin {"install_once", "clear_failed"}
       /\ st.do = "install" => st.on = "cnpg" /\ "operator pods" \in st.gives
       /\ Uninstalls(st) => st.on = "cnpg"
       /\ st.do # "check" => st.on # "operator pods"

\* Credentials are asked for before they are made or changed.
Remakes(st) == st.do \in {"install", "install_once"} /\ "credentials" \in st.gives
Asks(st) == st.do \in {"adopt", "adopt_or_generate"}
Keepers == {"minio", "kps"}
Holder(s) == IF s = "minio" THEN "tenant" ELSE "kps"

CarefulSteps(s, plan) ==
  \A st \in Steps(plan) :
    /\ st.do = "apply" => st.on # "credentials"
    /\ Remakes(st) \/ Asks(st) => s \in Keepers /\ st.on = Holder(s)
    /\ st.do = "adopt_or_generate" => s = "kps"
    /\ st.do \in {"uninstall", "uninstall_if_any", "clear_failed"} /\ s \in Keepers
         /\ st.on = Holder(s) => "credentials" \in st.gives

Careful(s, plan) ==
  /\ CarefulSteps(s, plan)
  /\ \A i \in DOMAIN plan : Remakes(plan[i]) => \E j \in DOMAIN plan : j < i /\ Asks(plan[j])

KeepersFit ==
  /\ \A s \in DOMAIN Plans : "credentials" \in Promised(s) => s \in Keepers
  /\ \A s \in Keepers : Holder(s) \in Releases(s)

PlanFits(s) ==
  /\ CreateFits(s, Plans[s].create)
  /\ UpdateFits(s, Plans[s].update)
  /\ DeleteFits(s, Plans[s].delete)
  /\ \A v \in Verbs : Careful(s, Plans[s][v])

PlansFit == (\A s \in DOMAIN Plans : PlanFits(s)) /\ PostgresFits /\ CnpgFits /\ KeepersFit

-------------------------------------------------------------------------------
(* What a process knows of the cluster in the middle of its plan.          *)

\* It is about the deployment in focus, and has not begun before the mark.
OnFocus(p) ==
  /\ op[p] # Idle => op[p].spec = focus
  /\ op[p].pc \in {"require", "start", "mark"} => at[p] = 1

\* What is to be there when the plan ends is there, or to come; what is to
\* be gone is gone, or to go;
Due(p) ==
  \A o \in Promised(focus) :
    /\ Builds(p) => o \in objs
         \/ \E i \in DOMAIN Plan(p) : i >= at[p] /\ Brings(Plan(p)[i], o)
    /\ op[p].verb = "delete" /\ o \in Removable(focus) => o \notin objs
         \/ \E i \in DOMAIN Plan(p) : i >= at[p] /\ Takes(Plan(p)[i], o)

\* what is to be ready then has been found ready, or is to be waited for,
Rising(p) ==
  Builds(p) /\ ~TakenAsFound(focus) =>
    \A o \in Awaited(focus) : o \in up
      \/ \E i \in DOMAIN Plan(p) : i >= at[p] /\ Waits(Plan(p)[i], o)

Ahead(p) == Driving(p) /\ at[p] # 0 => Due(p) /\ Rising(p)

\* what it installed has a release, and what it would have refused is there,
Behind(p) ==
  InPlan(p) /\ op[p].verb # "delete" =>
    \A i \in DOMAIN Plan(p) : i < at[p] =>
      /\ Plan(p)[i].do = "install" => rels[Plan(p)[i].on] # "none"
      /\ focus = "postgres" /\ Plan(p)[i].do = "refuse" /\ Plan(p)[i].on = "postgres cluster"
            => "postgres cluster" \in objs

\* and it has touched the cluster only past the checks.
Touched(p) ==
  op[p].pc = "busy" /\ InPlan(p) =>
    \E i \in DOMAIN Plan(p) : i < at[p] /\ Plan(p)[i].do \notin {"check", "refuse"}

\* Where there is no release, there is nothing of what it owns.
Owned == \A r \in Releases(focus), o \in Promised(focus) :
           OwnedBy(focus, r, o) /\ rels[r] = "none" => o \notin objs

\* What the two plans look at that return from the middle.
Whole ==
  /\ focus = "postgres" /\ "postgres cluster" \in objs => "app secret" \in objs
  /\ focus = "cnpg" /\ rels["cnpg"] # "none" => "operator pods" \in objs

\* Where there is no release that holds credentials, there are none;
NoneHeld == focus \in Keepers /\ rels[Holder(focus)] = "none" => "credentials" \notin objs

\* a process that has asked for those in use holds them.
Asked(p) == InPlan(p) /\ \E i \in DOMAIN Plan(p) : i < at[p] /\ Asks(Plan(p)[i])
Holds(p) == Asked(p) /\ "credentials" \in objs => held = live

DInv ==
  /\ TypeOK
  /\ \A p \in Procs : OnFocus(p) /\ Ahead(p) /\ Behind(p) /\ Touched(p) /\ Holds(p)
  /\ Owned /\ Whole /\ NoneHeld
-------------------------------------------------------------------------------
LEMMA CallMoves ==
  ASSUME LayerTypeOK, NEW p \in Procs, op[p] # Idle, NEW pc \in Pcs \ {"idle"}, GoTo(p, pc)
  PROVE  /\ op'[p].pc = pc /\ op'[p].verb = op[p].verb /\ op'[p].spec = op[p].spec
         /\ op'[p].existing = op[p].existing
         /\ op'[p] # Idle
         /\ op' \in [Procs -> Call \cup {Idle}]
<1>1. op[p] \in Call
  BY DEF LayerTypeOK
<1>2. op' = [op EXCEPT ![p] = [op[p] EXCEPT !.pc = pc]]
  BY DEF GoTo
<1>3. op'[p] = [op[p] EXCEPT !.pc = pc]
  BY <1>2 DEF LayerTypeOK
<1>4. op'[p] \in Call /\ op'[p].pc = pc /\ op'[p].verb = op[p].verb /\ op'[p].spec = op[p].spec
      /\ op'[p].existing = op[p].existing
  BY <1>1, <1>3 DEF Call
<1>5. op'[p] # Idle
  BY <1>4 DEF Idle, Pcs
<1> QED
  BY <1>2, <1>3, <1>4, <1>5 DEF LayerTypeOK

\* What is known of a process at work: its call, and its plan.
LEMMA AtWork ==
  ASSUME TypeOK, PlansFit, NEW p \in Procs, OnFocus(p), Working(p)
  PROVE  /\ op[p] # Idle /\ op[p] \in Call /\ op[p].spec = focus
         /\ focus \in DOMAIN Plans /\ focus \in Specs
         /\ op[p].verb \in Verbs /\ op[p].pc \in {"work", "busy"}
         /\ Plan(p) = Plans[focus][op[p].verb]
         /\ op[p].verb = "create" => CreateFits(focus, Plan(p))
         /\ op[p].verb = "update" => UpdateFits(focus, Plan(p))
         /\ op[p].verb = "delete" => DeleteFits(focus, Plan(p))
         /\ op[p].verb # "delete" => BuildFits(focus, Plan(p))
         /\ Careful(focus, Plan(p))
         /\ IsPlan(Plan(p)) /\ DOMAIN Plan(p) = 1 .. Len(Plan(p)) /\ Len(Plan(p)) \in Nat
         /\ at[p] \in Nat /\ at[p] <= Len(Plan(p)) + 1
<1>1. op[p] # Idle /\ op[p].pc \in {"work", "busy"}
  BY DEF Working, Idle
<1>2. op[p] \in Call
  BY <1>1 DEF TypeOK, LayerTypeOK
<1>3. op[p].spec = focus /\ focus \in DOMAIN Plans /\ focus \in Specs
  BY <1>1, FocusAssumption DEF OnFocus, TypeOK
<1>4. op[p].verb \in Verbs
  BY <1>2 DEF Call
<1>5. Plan(p) = Plans[focus][op[p].verb]
  BY <1>3 DEF Plan
<1>6. PlanFits(focus)
  BY <1>3 DEF PlansFit
<1>7. /\ op[p].verb = "create" => CreateFits(focus, Plan(p))
      /\ op[p].verb = "update" => UpdateFits(focus, Plan(p))
      /\ op[p].verb = "delete" => DeleteFits(focus, Plan(p))
      /\ Careful(focus, Plan(p))
  BY <1>4, <1>5, <1>6 DEF PlanFits
<1>8. op[p].verb # "delete" => BuildFits(focus, Plan(p))
  BY <1>4, <1>7 DEF Verbs, CreateFits, UpdateFits
<1>9. IsPlan(Plan(p))
  BY <1>4, <1>7, <1>8 DEF Verbs, BuildFits, DeleteFits
<1>10. DOMAIN Plan(p) = 1 .. Len(Plan(p)) /\ Len(Plan(p)) \in Nat
  BY <1>9, LenProperties DEF IsPlan
<1>11. at[p] \in Nat /\ at[p] <= Len(Plan(p)) + 1
  BY <1>1 DEF TypeOK
<1> QED
  BY <1>1, <1>2, <1>3, <1>4, <1>5, <1>7, <1>8, <1>9, <1>10, <1>11

LEMMA StepIn ==
  ASSUME NEW plan, NEW i \in DOMAIN plan PROVE plan[i] \in Steps(plan)
BY DEF Steps

-------------------------------------------------------------------------------
(* How each part of the invariant goes on when the process goes on by one. *)

\* The process goes on in the same call, at the next step of the same plan.
GoesOn(p) ==
  /\ InPlan(p) /\ focus' = focus
  /\ op'[p].pc \in {"work", "busy"} /\ op'[p].verb = op[p].verb
  /\ op'[p].spec = op[p].spec /\ op'[p].existing = op[p].existing
  /\ op' \in [Procs -> Call \cup {Idle}] /\ UNCHANGED <<rows, calls>>
  /\ at' \in [Procs -> Nat] /\ at'[p] = at[p] + 1

\* A step that builds takes nothing down but what it clears away.
StaysUp(st) ==
  \A o \in Awaited(focus) :
    /\ o \in up => o \in up' \/ st.do = "clear_failed"
    /\ Waits(st, o) => o \in up'

LEMMA AheadGoesOn ==
  ASSUME TypeOK, PlansFit, NEW p \in Procs, OnFocus(p), Ahead(p), GoesOn(p),
         \A o \in Promised(focus) :
           /\ op[p].verb # "delete" =>
                /\ o \in objs => o \in objs' \/ Clears(Plan(p)[at[p]], o)
                /\ Brings(Plan(p)[at[p]], o) => o \in objs'
           /\ op[p].verb = "delete" =>
                /\ o \in objs' => o \in objs
                /\ Takes(Plan(p)[at[p]], o) => o \notin objs',
         op[p].verb # "delete" => StaysUp(Plan(p)[at[p]])
  PROVE  Ahead(p)'
<1>1. Working(p) /\ at[p] \in DOMAIN Plan(p)
  BY DEF GoesOn, InPlan
<1>2. Plan(p)' = Plan(p) /\ (Builds(p)' <=> Builds(p)) /\ Promised(focus)' = Promised(focus)
  BY DEF GoesOn, Plan, Builds
<1>3. /\ op[p].verb # "delete" => BuildFits(focus, Plan(p))
      /\ at[p] \in Nat /\ DOMAIN Plan(p) = 1 .. Len(Plan(p))
  BY <1>1, AtWork
<1>4. Driving(p) /\ at[p] # 0
  BY <1>1, <1>3 DEF Working, Driving
<1>5. ASSUME NEW o \in Promised(focus), Builds(p)
      PROVE  o \in objs' \/ \E i \in DOMAIN Plan(p) : i >= at[p] + 1 /\ Brings(Plan(p)[i], o)
  <2>1. op[p].verb # "delete"
    BY <1>5 DEF Builds
  <2>2. CASE o \in objs
    <3>1. Clears(Plan(p)[at[p]], o) =>
             \E i \in DOMAIN Plan(p) : i > at[p] /\ Brings(Plan(p)[i], o)
      BY <1>1, <1>3, <2>1 DEF BuildFits, BuildOrder
    <3> QED
      BY <1>3, <2>1, <2>2, <3>1
  <2>3. CASE o \notin objs
    <3>1. PICK i \in DOMAIN Plan(p) : i >= at[p] /\ Brings(Plan(p)[i], o)
      BY <1>4, <1>5, <2>3 DEF Ahead, Due
    <3>2. CASE i = at[p]
      BY <2>1, <3>1, <3>2
    <3>3. CASE i # at[p]
      <4>1. i >= at[p] + 1
        BY <1>3, <3>1, <3>3
      <4> QED
        BY <3>1, <4>1
    <3> QED
      BY <3>2, <3>3
  <2> QED
    BY <2>2, <2>3
<1>6. ASSUME NEW o \in Promised(focus), op[p].verb = "delete", o \in Removable(focus)
      PROVE  o \notin objs' \/ \E i \in DOMAIN Plan(p) : i >= at[p] + 1 /\ Takes(Plan(p)[i], o)
  <2>1. CASE o \notin objs
    BY <1>6, <2>1
  <2>2. CASE o \in objs
    <3>1. PICK i \in DOMAIN Plan(p) : i >= at[p] /\ Takes(Plan(p)[i], o)
      BY <1>4, <1>6, <2>2 DEF Ahead, Due
    <3>2. CASE i = at[p]
      BY <1>6, <3>1, <3>2
    <3>3. CASE i # at[p]
      <4>1. i >= at[p] + 1
        BY <1>3, <3>1, <3>3
      <4> QED
        BY <3>1, <4>1
    <3> QED
      BY <3>2, <3>3
  <2> QED
    BY <2>1, <2>2
<1>7. at'[p] = at[p] + 1 /\ op'[p].verb = op[p].verb
  BY DEF GoesOn
<1>8. Removable(focus)' = Removable(focus) /\ Awaited(focus)' = Awaited(focus)
      /\ (TakenAsFound(focus)' <=> TakenAsFound(focus))
  BY DEF GoesOn
<1>9. Due(p)'
  BY <1>2, <1>5, <1>6, <1>7, <1>8 DEF Due
<1>10. ASSUME NEW o \in Awaited(focus), Builds(p), ~TakenAsFound(focus)
       PROVE  o \in up' \/ \E i \in DOMAIN Plan(p) : i >= at[p] + 1 /\ Waits(Plan(p)[i], o)
  <2>1. op[p].verb # "delete"
    BY <1>10 DEF Builds
  <2>2. CASE o \in up
    <3>1. CASE Plan(p)[at[p]].do = "clear_failed"
      <4>1. PICK i \in DOMAIN Plan(p) : i > at[p] /\ Waits(Plan(p)[i], o)
        BY <1>1, <1>3, <1>10, <2>1, <3>1 DEF BuildFits, BuildOrder
      <4>2. i >= at[p] + 1
        BY <1>3, <4>1
      <4> QED
        BY <4>1, <4>2
    <3>2. CASE Plan(p)[at[p]].do # "clear_failed"
      BY <1>10, <2>1, <2>2, <3>2 DEF StaysUp
    <3> QED
      BY <3>1, <3>2
  <2>3. CASE o \notin up
    <3>1. PICK i \in DOMAIN Plan(p) : i >= at[p] /\ Waits(Plan(p)[i], o)
      BY <1>4, <1>10, <2>3 DEF Ahead, Rising
    <3>2. CASE i = at[p]
      BY <1>10, <2>1, <3>1, <3>2 DEF StaysUp
    <3>3. CASE i # at[p]
      <4>1. i >= at[p] + 1
        BY <1>3, <3>1, <3>3
      <4> QED
        BY <3>1, <4>1
    <3> QED
      BY <3>2, <3>3
  <2> QED
    BY <2>2, <2>3
<1>11. Rising(p)'
  BY <1>2, <1>7, <1>8, <1>10 DEF Rising
<1> QED
  BY <1>9, <1>11 DEF Ahead

KeepsPostgres(p) ==
  focus = "postgres" /\ op[p].verb # "delete" =>
    /\ "postgres cluster" \in objs => "postgres cluster" \in objs'
    /\ Plan(p)[at[p]].do = "refuse" /\ Plan(p)[at[p]].on = "postgres cluster" =>
          "postgres cluster" \in objs'

LEMMA BehindGoesOn ==
  ASSUME TypeOK, PlansFit, NEW p \in Procs, OnFocus(p), Behind(p), GoesOn(p),
         op[p].verb # "delete" =>
           /\ \A r \in AllReleases : rels'[r] = "none" =>
                rels[r] = "none" \/ (Plan(p)[at[p]].do = "clear_failed" /\ Plan(p)[at[p]].on = r)
           /\ Plan(p)[at[p]].do = "install" => rels'[Plan(p)[at[p]].on] # "none",
         KeepsPostgres(p)
  PROVE  Behind(p)'
<1>1. Working(p) /\ at[p] \in DOMAIN Plan(p) /\ InPlan(p)
  BY DEF GoesOn, InPlan
<1>2. Plan(p)' = Plan(p) /\ focus' = focus /\ op'[p].verb = op[p].verb /\ at'[p] = at[p] + 1
  BY DEF GoesOn, Plan
<1>3. /\ at[p] \in Nat /\ DOMAIN Plan(p) = 1 .. Len(Plan(p)) /\ Len(Plan(p)) \in Nat
      /\ op[p].verb # "delete" => BuildFits(focus, Plan(p))
  BY <1>1, AtWork
<1>4. ASSUME op[p].verb # "delete", NEW i \in DOMAIN Plan(p), i < at[p] + 1
      PROVE  /\ Plan(p)[i].do = "install" => rels'[Plan(p)[i].on] # "none"
             /\ focus = "postgres" /\ Plan(p)[i].do = "refuse" /\ Plan(p)[i].on = "postgres cluster"
                   => "postgres cluster" \in objs'
  <2>1. CASE i = at[p]
    BY <1>4, <2>1 DEF KeepsPostgres
  <2>2. CASE i # at[p]
    <3>1. i < at[p] /\ ~(at[p] < i)
      BY <1>3, <1>4, <2>2
    <3>2. ASSUME Plan(p)[i].do = "install" PROVE rels'[Plan(p)[i].on] # "none"
      <4>1. rels[Plan(p)[i].on] # "none"
        BY <1>1, <1>4, <3>1, <3>2 DEF Behind
      <4>2. Plan(p)[i].on \in AllReleases
        BY <1>3, <1>4, <3>2, StepIn DEF BuildFits, BuildSteps
      <4>3. ~(Plan(p)[at[p]].do = "clear_failed" /\ Plan(p)[at[p]].on = Plan(p)[i].on)
        BY <1>1, <1>3, <1>4, <3>1, <3>2 DEF BuildFits, BuildOrder
      <4> QED
        BY <1>4, <4>1, <4>2, <4>3
    <3>3. ASSUME focus = "postgres", Plan(p)[i].do = "refuse", Plan(p)[i].on = "postgres cluster"
          PROVE  "postgres cluster" \in objs'
      <4>1. "postgres cluster" \in objs
        BY <1>1, <1>4, <3>1, <3>3 DEF Behind
      <4> QED
        BY <1>4, <3>3, <4>1 DEF KeepsPostgres
    <3> QED
      BY <3>2, <3>3
  <2> QED
    BY <2>1, <2>2
<1> QED
  BY <1>2, <1>4 DEF Behind

LEMMA TouchedGoesOn ==
  ASSUME TypeOK, PlansFit, NEW p \in Procs, OnFocus(p), Touched(p), GoesOn(p),
         op'[p].pc = op[p].pc \/ Plan(p)[at[p]].do \notin {"check", "refuse"}
  PROVE  Touched(p)'
<1>1. Working(p) /\ at[p] \in DOMAIN Plan(p) /\ InPlan(p)
  BY DEF GoesOn, InPlan
<1>2. Plan(p)' = Plan(p) /\ at'[p] = at[p] + 1
  BY DEF GoesOn, Plan
<1>3. at[p] \in Nat /\ DOMAIN Plan(p) = 1 .. Len(Plan(p))
  BY <1>1, AtWork
<1>4. SUFFICES ASSUME op'[p].pc = "busy"
      PROVE  \E i \in DOMAIN Plan(p) : i < at[p] + 1 /\ Plan(p)[i].do \notin {"check", "refuse"}
  BY <1>2 DEF Touched
<1>5. CASE Plan(p)[at[p]].do \notin {"check", "refuse"}
  BY <1>1, <1>3, <1>5
<1>6. CASE op'[p].pc = op[p].pc
  <2>1. PICK i \in DOMAIN Plan(p) : i < at[p] /\ Plan(p)[i].do \notin {"check", "refuse"}
    BY <1>1, <1>4, <1>6 DEF Touched
  <2>2. i < at[p] + 1
    BY <1>3, <2>1
  <2> QED
    BY <2>1, <2>2
<1> QED
  BY <1>5, <1>6

LEMMA HoldsGoesOn ==
  ASSUME TypeOK, PlansFit, NEW p \in Procs, OnFocus(p), Holds(p), GoesOn(p),
         Asked(p) \/ Asks(Plan(p)[at[p]]) =>
           ("credentials" \in objs' => held' = live' \/
               (~Asks(Plan(p)[at[p]]) /\ "credentials" \in objs /\ held' = held /\ live' = live))
  PROVE  Holds(p)'
<1>1. Working(p) /\ at[p] \in DOMAIN Plan(p) /\ InPlan(p)
  BY DEF GoesOn, InPlan
<1>2. Plan(p)' = Plan(p) /\ at'[p] = at[p] + 1
  BY DEF GoesOn, Plan
<1>3. at[p] \in Nat /\ DOMAIN Plan(p) = 1 .. Len(Plan(p))
  BY <1>1, AtWork
<1>4. SUFFICES ASSUME Asked(p)', "credentials" \in objs' PROVE held' = live'
  BY DEF Holds
<1>5. PICK i \in DOMAIN Plan(p) : i < at[p] + 1 /\ Asks(Plan(p)[i])
  BY <1>2, <1>4 DEF Asked
<1>6. Asked(p) \/ Asks(Plan(p)[at[p]])
  <2>1. CASE i = at[p]
    BY <1>5, <2>1
  <2>2. CASE i # at[p]
    <3>1. i < at[p]
      BY <1>3, <1>5, <2>2
    <3> QED
      BY <1>1, <1>5, <3>1 DEF Asked
  <2> QED
    BY <2>1, <2>2
<1>7. CASE held' = live'
  BY <1>7
<1>8. CASE ~Asks(Plan(p)[at[p]]) /\ "credentials" \in objs /\ held' = held /\ live' = live
  BY <1>6, <1>8 DEF Holds
<1> QED
  BY <1>4, <1>6, <1>7, <1>8

LEMMA ProcessGoesOn ==
  ASSUME TypeOK, PlansFit, NEW p \in Procs, OnFocus(p), GoesOn(p)
  PROVE  OnFocus(p)' /\ at'[p] <= Len(Plan(p)') + 1 /\ op'[p] # Idle
<1>1. Working(p) /\ at[p] \in DOMAIN Plan(p) /\ InPlan(p)
  BY DEF GoesOn, InPlan
<1>2. Plan(p)' = Plan(p) /\ at'[p] = at[p] + 1
  BY DEF GoesOn, Plan
<1>3. at[p] \in Nat /\ Len(Plan(p)) \in Nat /\ DOMAIN Plan(p) = 1 .. Len(Plan(p)) /\ op[p].spec = focus
  BY <1>1, AtWork
<1>4. op'[p] # Idle
  BY DEF GoesOn, Idle
<1>5. OnFocus(p)'
  BY <1>3 DEF GoesOn, OnFocus
<1> QED
  BY <1>1, <1>2, <1>3, <1>4, <1>5
-------------------------------------------------------------------------------
(* A driver's step, as Deployments sees it.                                *)

made == [s \in Specs |-> Made(s)]

LEMMA SameMade ==
  ASSUME UNCHANGED <<rows, objs, up, focus>> PROVE made' = made
<1>1. \A s \in Specs : Made(s)' = Made(s)
  BY DEF Made, Stands, RecordedProvisioned
<1> QED
  BY <1>1 DEF made

\* There is always something promised, and something of it to remove.
LEMMA SomethingPromised ==
  ASSUME TypeOK, PlansFit
  PROVE  /\ Removable(focus) # {} /\ Removable(focus) \subseteq Promised(focus)
         /\ Promised(focus) \subseteq AllObjects
BY FocusAssumption DEF TypeOK, PlansFit, PlanFits, CreateFits, Removable

\* What touches the cluster is work, as long as a delete, and an update that
\* installs nothing, bring nothing to where nothing was.
LEMMA TouchIsWork ==
  ASSUME TypeOK, PlansFit, NEW p \in Procs, OnFocus(p), Working(p), Touch(p), focus' = focus,
         \/ objs' \subseteq objs
         \/ D!BringsNothing(p) /\ Removable(focus) \cap objs = {} => Removable(focus) \cap objs' = {}
  PROVE  D!Work(p)
<1>1. /\ op[p].spec = focus /\ focus \in Specs
      /\ Removable(focus) # {} /\ Removable(focus) \subseteq Promised(focus)
  BY AtWork, SomethingPromised
<1>2. \A s \in Specs : Made(s) \in D!Conditions /\ Made(s)' \in D!Conditions
  BY DEF Made, D!Conditions
<1>3. \A s \in Specs : s # focus => Made(s)' = Made(s)
  BY DEF Made, RecordedProvisioned, Touch
<1>4. made' = [made EXCEPT ![focus] = Made(focus)']
  BY <1>1, <1>3 DEF made
<1>5. Made(focus) = "absent" <=> Removable(focus) \cap objs = {}
  BY <1>1 DEF Made, Stands
<1>6. Made(focus)' = "absent" <=> Removable(focus) \cap objs' = {}
  BY <1>1 DEF Made, Stands
<1>7. D!BringsNothing(p) /\ made[focus] = "absent" => Made(focus)' = "absent"
  BY <1>1, <1>5, <1>6 DEF made
<1> QED
  BY <1>1, <1>2, <1>4, <1>7 DEF D!Work, Touch, Working, D!Working, GoTo, D!GoTo, made

-------------------------------------------------------------------------------
(* Going on.                                                               *)

LEMMA Quietly ==
  ASSUME TypeOK, PlansFit, NEW p \in Procs, OnFocus(p), InPlan(p), Advance(p), UNCHANGED layer,
         focus' = focus
  PROVE  GoesOn(p) /\ op'[p].pc = op[p].pc
<1>1. op[p] \in Call /\ at[p] \in Nat /\ op[p].pc \in {"work", "busy"}
  BY AtWork DEF InPlan
<1>2. at' \in [Procs -> Nat] /\ at'[p] = at[p] + 1
  BY <1>1 DEF Advance, TypeOK
<1> QED
  BY <1>1, <1>2 DEF GoesOn, layer, TypeOK, LayerTypeOK

LEMMA Touching ==
  ASSUME TypeOK, PlansFit, NEW p \in Procs, OnFocus(p), InPlan(p), Advance(p), Touch(p),
         focus' = focus
  PROVE  GoesOn(p) /\ op'[p].pc = "busy"
<1>1. op[p] \in Call /\ op[p] # Idle /\ at[p] \in Nat /\ op[p].pc \in {"work", "busy"}
  BY AtWork DEF InPlan
<1>2. at' \in [Procs -> Nat] /\ at'[p] = at[p] + 1
  BY <1>1 DEF Advance, TypeOK
<1>3. "busy" \in Pcs \ {"idle"}
  BY DEF Pcs
<1>4. LayerTypeOK
  BY DEF TypeOK
<1>5. /\ op'[p].pc = "busy" /\ op'[p].verb = op[p].verb /\ op'[p].spec = op[p].spec
      /\ op'[p].existing = op[p].existing /\ op' \in [Procs -> Call \cup {Idle}]
  BY <1>1, <1>3, <1>4, CallMoves DEF Touch
<1> QED
  BY <1>2, <1>5 DEF GoesOn, Touch

\* With one process, what it knows is all there is to know.
LEMMA StepKeeps ==
  ASSUME DInv, PlansFit, D!Serial, NEW p \in Procs, GoesOn(p),
         objs' \subseteq AllObjects, rels' \in [AllReleases -> {"none", "deployed", "failed", "pending"}],
         live' \in 0 .. MaxCalls, held' \in 0 .. MaxCalls, box' \in {"none", "running", "completed"},
         up' \subseteq objs', Ahead(p)', Behind(p)', Touched(p)', Holds(p)', Owned', Whole', NoneHeld'
  PROVE  DInv'
<1>1. \A q \in Procs : q = p
  BY DEF D!Serial
<1>2. OnFocus(p)' /\ at'[p] <= Len(Plan(p)') + 1
  BY ProcessGoesOn DEF DInv
<1>3. LayerTypeOK' /\ focus' \in Focus /\ at' \in [Procs -> Nat]
  BY DEF DInv, TypeOK, LayerTypeOK, GoesOn
<1>4. TypeOK'
  BY <1>1, <1>2, <1>3 DEF TypeOK
<1> QED
  BY <1>1, <1>2, <1>4 DEF DInv

\* A step that leaves the cluster alone.
LEMMA ClusterStays ==
  ASSUME DInv, UNCHANGED <<objs, rels, focus>> PROVE Owned' /\ Whole' /\ NoneHeld'
<1>1. Owned'
  BY DEF DInv, Owned
<1>2. Whole'
  BY DEF DInv, Whole
<1>3. NoneHeld'
  BY DEF DInv, NoneHeld
<1> QED
  BY <1>1, <1>2, <1>3
-------------------------------------------------------------------------------
(* The steps that change nothing Deployments sees.                         *)

LEMMA LookKeeps ==
  ASSUME DInv, PlansFit, D!Serial, "postgres" \notin Misread, NEW p \in Procs,
         Look(p), focus' = focus
  PROVE  DInv'
<1> DEFINE st == Plan(p)[at[p]]
<1>1. InPlan(p) /\ Working(p) /\ at[p] \in DOMAIN Plan(p)
  BY DEF Look, Looks, Doing, InPlan
<1>2. TypeOK /\ OnFocus(p) /\ Ahead(p) /\ Behind(p) /\ Touched(p) /\ Holds(p)
  BY DEF DInv
<1>3. GoesOn(p) /\ op'[p].pc = op[p].pc
  BY <1>1, <1>2, Quietly DEF Look
<1>4. UNCHANGED <<objs, rels, live, held, box, up>>
  BY DEF Look, cluster
<1>5. st \in Steps(Plan(p))
  BY <1>1, StepIn
<1>6. ~Asks(st) /\ st.do \notin {"install", "apply", "delete", "await"}
  BY DEF Look, Looks, Doing, Asks
<1>7. ASSUME op[p].verb = "delete", NEW o \in Promised(focus), Takes(st, o) PROVE o \notin objs
  <2>1. DeleteFits(focus, Plan(p)) /\ Plan(p) = Plans[focus]["delete"]
    BY <1>1, <1>2, <1>7, AtWork
  <2>2. CASE Uninstalls(st)
    <3>1. st.on \in Releases(focus) /\ o \in st.gives
      BY <1>5, <1>7, <2>1, <2>2 DEF DeleteFits, Takes, Uninstalls
    <3>2. OwnedBy(focus, st.on, o)
      BY <1>5, <2>1, <2>2, <3>1 DEF OwnedBy
    <3>3. rels[st.on] = "none"
      BY <2>2 DEF Look, Looks, Doing, On, Uninstalls
    <3> QED
      BY <1>7, <3>1, <3>2, <3>3 DEF DInv, Owned
  <2>3. CASE ~Uninstalls(st)
    <3>1. st.do = "delete_if_found" /\ st.on = o
      BY <1>6, <1>7, <2>3 DEF Takes
    <3>2. focus = "postgres"
      BY <1>5, <2>1, <3>1 DEF DeleteFits
    <3>3. On(p) \notin objs \/ focus \in Misread
      BY <3>1 DEF Look, Looks, Doing
    <3> QED
      BY <3>1, <3>2, <3>3 DEF On
  <2> QED
    BY <2>2, <2>3
<1>8. Ahead(p)'
  <2>1. \A o \in Promised(focus) : op[p].verb # "delete" =>
                /\ o \in objs => o \in objs' \/ Clears(st, o)
                /\ Brings(st, o) => o \in objs'
    BY <1>4, <1>6 DEF Brings
  <2>2. \A o \in Promised(focus) : op[p].verb = "delete" =>
                /\ o \in objs' => o \in objs
                /\ Takes(st, o) => o \notin objs'
    BY <1>4, <1>7
  <2>3. StaysUp(st)
    BY <1>4, <1>6 DEF StaysUp, Waits
  <2> QED
    BY <1>2, <1>3, <2>1, <2>2, <2>3, AheadGoesOn
<1>9. Behind(p)'
  <2>1. KeepsPostgres(p)
    <3> SUFFICES ASSUME focus = "postgres", st.do = "refuse", st.on = "postgres cluster"
                 PROVE  "postgres cluster" \in objs'
      BY <1>4 DEF KeepsPostgres
    <3>1. "postgres cluster" \in Promised(focus)
      BY DEF PlansFit, PostgresFits
    <3>2. On(p) \in Promised(focus) => On(p) \in objs
      BY DEF Look, Looks, Doing
    <3> QED
      BY <1>4, <3>1, <3>2 DEF On
  <2> QED
    BY <1>2, <1>3, <1>4, <1>6, <2>1, BehindGoesOn
<1>10. Touched(p)' /\ Holds(p)'
  BY <1>2, <1>3, <1>4, <1>6, TouchedGoesOn, HoldsGoesOn DEF Holds
<1> QED
  BY <1>2, <1>3, <1>4, <1>8, <1>9, <1>10, ClusterStays, StepKeeps DEF TypeOK

\* A step of the credentials, or a delete that fails unseen.
LEMMA QuietKeeps ==
  ASSUME DInv, PlansFit, D!Serial, NEW p \in Procs, InPlan(p), Advance(p),
         UNCHANGED <<layer, cluster, focus>>, held' \in 0 .. MaxCalls,
         Plan(p)[at[p]].do \in {"delete_quietly", "adopt", "adopt_or_generate"},
         Holds(p)'
  PROVE  DInv'
<1> DEFINE st == Plan(p)[at[p]]
<1>1. Working(p) /\ at[p] \in DOMAIN Plan(p)
  BY DEF InPlan
<1>2. TypeOK /\ OnFocus(p) /\ Ahead(p) /\ Behind(p) /\ Touched(p)
  BY DEF DInv
<1>3. GoesOn(p) /\ op'[p].pc = op[p].pc
  BY <1>2, Quietly
<1>4. UNCHANGED <<objs, rels, live, box, up>>
  BY DEF cluster
<1>5. Ahead(p)'
  <2>1. \A o \in Promised(focus) : ~Brings(st, o) /\ ~Takes(st, o)
    BY DEF Brings, Takes, Uninstalls
  <2>2. StaysUp(st)
    BY <1>4 DEF StaysUp, Waits
  <2> QED
    BY <1>2, <1>3, <1>4, <2>1, <2>2, AheadGoesOn
<1>6. Behind(p)'
  <2>1. KeepsPostgres(p)
    BY <1>4 DEF KeepsPostgres
  <2> QED
    BY <1>2, <1>3, <1>4, <2>1, BehindGoesOn
<1>7. Touched(p)'
  BY <1>2, <1>3, TouchedGoesOn
<1> QED
  BY <1>2, <1>3, <1>4, <1>5, <1>6, <1>7, ClusterStays, StepKeeps DEF TypeOK

LEMMA FailsQuietlyKeeps ==
  ASSUME DInv, PlansFit, D!Serial, NEW p \in Procs, KubectlFailsQuietly(p), focus' = focus
  PROVE  DInv'
<1>1. InPlan(p) /\ Plan(p)[at[p]].do = "delete_quietly"
  BY DEF KubectlFailsQuietly, Doing, InPlan
<1>2. TypeOK /\ OnFocus(p) /\ Holds(p)
  BY DEF DInv
<1>3. Advance(p) /\ UNCHANGED <<layer, cluster, focus, held, objs, live>>
  BY DEF KubectlFailsQuietly, cluster
<1>4. GoesOn(p)
  BY <1>1, <1>2, <1>3, Quietly
<1>5. Holds(p)'
  BY <1>1, <1>2, <1>3, <1>4, HoldsGoesOn DEF Asks
<1>6. held' \in 0 .. MaxCalls
  BY <1>2, <1>3 DEF TypeOK
<1> QED
  BY <1>1, <1>3, <1>5, <1>6, QuietKeeps

LEMMA ReadBackKeeps ==
  ASSUME DInv, PlansFit, D!Serial, NEW p \in Procs, ReadBack(p), focus' = focus
  PROVE  DInv'
<1>1. InPlan(p) /\ Plan(p)[at[p]].do \in {"adopt", "adopt_or_generate"}
  BY DEF ReadBack, Doing, InPlan
<1>2. TypeOK /\ OnFocus(p) /\ Holds(p)
  BY DEF DInv
<1>3. Advance(p) /\ UNCHANGED <<layer, cluster, focus>>
  BY DEF ReadBack
<1>4. GoesOn(p)
  BY <1>1, <1>2, <1>3, Quietly
<1>5. held' = live /\ live' = live
  BY DEF ReadBack, cluster
<1>6. Holds(p)'
  BY <1>2, <1>4, <1>5, HoldsGoesOn
<1>7. held' \in 0 .. MaxCalls
  BY <1>2, <1>5 DEF TypeOK
<1> QED
  BY <1>1, <1>3, <1>6, <1>7, QuietKeeps

\* New credentials are made up only where there are none.
LEMMA GenerateKeeps ==
  ASSUME DInv, PlansFit, D!Serial, "kps" \notin Misread, NEW p \in Procs,
         Generate(p), focus' = focus
  PROVE  DInv'
<1> DEFINE st == Plan(p)[at[p]]
<1>1. InPlan(p) /\ Working(p) /\ st.do \in {"adopt", "adopt_or_generate"} /\ at[p] \in DOMAIN Plan(p)
  BY DEF Generate, Doing, InPlan
<1>2. TypeOK /\ OnFocus(p) /\ Holds(p)
  BY DEF DInv
<1>3. Advance(p) /\ UNCHANGED <<layer, cluster, focus, objs, live>>
  BY DEF Generate, cluster
<1>4. GoesOn(p)
  BY <1>1, <1>2, <1>3, Quietly
<1>5. "credentials" \notin objs
  <2>1. CarefulSteps(focus, Plan(p)) /\ st \in Steps(Plan(p))
    BY <1>1, <1>2, AtWork, StepIn DEF Careful
  <2>2. focus \in Keepers /\ st.on = Holder(focus)
    BY <1>1, <2>1 DEF CarefulSteps, Asks
  <2>3. CASE st.do = "adopt"
    <3>1. rels[Holder(focus)] = "none"
      BY <2>2, <2>3 DEF Generate, Doing, On
    <3> QED
      BY <2>2, <3>1 DEF DInv, NoneHeld
  <2>4. CASE st.do = "adopt_or_generate"
    <3>1. focus = "kps"
      BY <2>1, <2>4 DEF CarefulSteps
    <3>2. "credentials" \notin objs \/ focus \in Misread
      BY <2>4 DEF Generate, Doing
    <3> QED
      BY <3>1, <3>2
  <2> QED
    BY <1>1, <2>3, <2>4
<1>6. Holds(p)'
  BY <1>3, <1>5 DEF Holds
<1>7. held' \in 0 .. MaxCalls
  BY <1>2 DEF Generate, TypeOK, LayerTypeOK
<1> QED
  BY <1>1, <1>3, <1>6, <1>7, QuietKeeps
-------------------------------------------------------------------------------
(* Out of the plan.                                                        *)

LEMMA OutOfPlan ==
  ASSUME DInv, D!Serial, NEW p \in Procs, TypeOK', OnFocus(p)', ~InPlan(p)', Ahead(p)',
         Owned', Whole', NoneHeld'
  PROVE  DInv'
<1>1. \A q \in Procs : q = p
  BY DEF D!Serial
<1>2. Behind(p)' /\ Touched(p)' /\ Holds(p)'
  BY DEF Behind, Touched, Holds, Asked
<1> QED
  BY <1>1, <1>2 DEF DInv

\* What the two drivers look at that return early is made last.
LEMMA ReturnEarlyKeeps ==
  ASSUME DInv, PlansFit, D!Serial, NEW p \in Procs, ReturnEarly(p), focus' = focus
  PROVE  DInv'
<1> DEFINE st == Plan(p)[at[p]]
<1>1. InPlan(p) /\ Working(p) /\ at[p] \in DOMAIN Plan(p)
  BY DEF ReturnEarly, Doing, InPlan
<1>2. TypeOK /\ OnFocus(p)
  BY DEF DInv
<1>3. /\ Len(Plan(p)) \in Nat /\ DOMAIN Plan(p) = 1 .. Len(Plan(p))
      /\ op[p].spec = focus /\ op[p].verb \in Verbs
      /\ op[p].verb # "delete" => BuildFits(focus, Plan(p))
      /\ op[p].verb = "delete" => DeleteFits(focus, Plan(p))
      /\ op[p] # Idle /\ op[p].pc \in {"work", "busy"}
  BY <1>1, <1>2, AtWork
<1>4. UNCHANGED <<rows, op, calls, objs, rels, live, held, box, up, focus>>
  BY DEF ReturnEarly, layer, cluster
<1>5. Plan(p)' = Plan(p)
  BY <1>4 DEF Plan
<1>6. at' = [at EXCEPT ![p] = Len(Plan(p)) + 1] /\ at'[p] = Len(Plan(p)) + 1
  BY <1>2 DEF ReturnEarly, TypeOK
<1>7. TypeOK'
  <2>1. at' \in [Procs -> Nat]
    BY <1>2, <1>3, <1>6 DEF TypeOK
  <2>2. \A q \in Procs : q = p
    BY DEF D!Serial
  <2>3. \A q \in Procs : op'[q] # Idle => at'[q] <= Len(Plan(q)') + 1
    BY <1>3, <1>5, <1>6, <2>2
  <2> QED
    BY <1>2, <1>4, <2>1, <2>3 DEF TypeOK, LayerTypeOK
<1>8. OnFocus(p)'
  BY <1>2, <1>3, <1>4 DEF OnFocus
<1>9. ~InPlan(p)'
  BY <1>3, <1>5, <1>6 DEF InPlan
<1>10. op[p].verb # "delete" /\ st \in Steps(Plan(p)) /\ st.do \in {"done_if", "done_if_release"}
  <2>1. st \in Steps(Plan(p))
    BY <1>1, StepIn
  <2>2. st.do \in {"done_if", "done_if_release"}
    BY DEF ReturnEarly, Doing
  <2>3. ASSUME op[p].verb = "delete" PROVE FALSE
    BY <1>3, <2>1, <2>2, <2>3 DEF DeleteFits, Uninstalls, Deletes
  <2> QED
    BY <2>1, <2>2, <2>3
<1>11. BuildSteps(focus, Plan(p))
  BY <1>3, <1>10 DEF BuildFits
<1>12. Promised(focus) \subseteq objs
  <2>1. CASE st.do = "done_if"
    <3>1. focus = "postgres" /\ st.on = "postgres cluster"
      BY <1>10, <1>11, <2>1 DEF BuildSteps
    <3>2. On(p) \in objs
      BY <2>1 DEF ReturnEarly, Doing
    <3>3. Promised("postgres") = {"app secret", "postgres cluster"}
      BY DEF PlansFit, PostgresFits
    <3> QED
      BY <3>1, <3>2, <3>3 DEF On, DInv, Whole
  <2>2. CASE st.do = "done_if_release"
    <3>1. focus = "cnpg" /\ st.on = "cnpg"
      BY <1>10, <1>11, <2>2 DEF BuildSteps
    <3>2. rels[On(p)] # "none"
      BY <2>2 DEF ReturnEarly, Doing
    <3>3. Promised("cnpg") = {"operator pods"}
      BY DEF PlansFit, CnpgFits
    <3> QED
      BY <3>1, <3>2, <3>3 DEF On, DInv, Whole
  <2> QED
    BY <1>10, <2>1, <2>2
<1>13. op[p].verb = "create"
  <2>1. op[p].verb # "update"
    BY <1>1, <1>2, <1>10, AtWork DEF UpdateFits
  <2> QED
    BY <1>3, <1>10, <2>1 DEF Verbs
<1>14. TakenAsFound(focus) \/ Awaited(focus) = {}
  <2>1. CASE st.do = "done_if"
    <3>1. Plan(p) = Plans[focus].create
      BY <1>1, <1>2, <1>13, AtWork
    <3> QED
      BY <1>10, <2>1, <3>1 DEF TakenAsFound
  <2>2. CASE st.do = "done_if_release"
    <3>1. focus = "cnpg"
      BY <1>10, <1>11, <2>2 DEF BuildSteps
    <3> QED
      BY <3>1 DEF PlansFit, CnpgFits
  <2> QED
    BY <1>10, <2>1, <2>2
<1>15. Ahead(p)'
  <2>1. Due(p)'
    BY <1>4, <1>10, <1>12 DEF Due
  <2>2. Rising(p)'
    BY <1>4, <1>14 DEF Rising
  <2> QED
    BY <2>1, <2>2 DEF Ahead
<1> QED
  BY <1>4, <1>7, <1>8, <1>9, <1>15, ClusterStays, OutOfPlan

\* The verb is given up: what the cluster is left with is still sound.
LEMMA GivenUp ==
  ASSUME DInv, PlansFit, D!Serial, NEW p \in Procs, InPlan(p), GiveUp(p), focus' = focus,
         UNCHANGED layer \/ Touch(p),
         objs' \subseteq AllObjects, rels' \in [AllReleases -> {"none", "deployed", "failed", "pending"}],
         live' \in 0 .. MaxCalls, held' = held, box' = box, up' \subseteq objs',
         Owned', Whole', NoneHeld'
  PROVE  DInv'
<1>1. TypeOK /\ OnFocus(p) /\ Working(p)
  BY DEF DInv, InPlan
<1>2. /\ op[p].spec = focus /\ op[p] # Idle /\ op[p].pc \in {"work", "busy"}
      /\ Len(Plan(p)) \in Nat
  BY <1>1, AtWork
<1>3. /\ op' \in [Procs -> Call \cup {Idle}] /\ op'[p].pc \in {"work", "busy"}
      /\ op'[p].spec = op[p].spec /\ op'[p].verb = op[p].verb /\ UNCHANGED <<rows, calls>>
  <2>1. CASE UNCHANGED layer
    BY <1>1, <1>2, <2>1 DEF layer, TypeOK, LayerTypeOK
  <2>2. CASE Touch(p)
    <3>1. "busy" \in Pcs \ {"idle"} /\ LayerTypeOK
      BY <1>1 DEF Pcs, TypeOK
    <3> QED
      BY <1>2, <2>2, <3>1, CallMoves DEF Touch
  <2> QED
    BY <2>1, <2>2
<1>4. at' \in [Procs -> Nat] /\ at'[p] = 0
  BY <1>1 DEF GiveUp, TypeOK
<1>5. Plan(p)' = Plan(p)
  BY <1>3 DEF Plan
<1>6. \A q \in Procs : q = p
  BY DEF D!Serial
<1>7. TypeOK'
  <2>1. \A q \in Procs : op'[q] # Idle => at'[q] <= Len(Plan(q)') + 1
    BY <1>2, <1>4, <1>5, <1>6
  <2> QED
    BY <1>1, <1>3, <1>4, <2>1 DEF TypeOK, LayerTypeOK
<1>8. OnFocus(p)'
  BY <1>2, <1>3 DEF OnFocus
<1>9. ~InPlan(p)'
  <2>1. DOMAIN Plan(p) = 1 .. Len(Plan(p))
    BY <1>1, AtWork
  <2> QED
    BY <1>2, <1>4, <1>5, <2>1 DEF InPlan
<1>10. Ahead(p)'
  BY <1>4 DEF Ahead
<1> QED
  BY <1>7, <1>8, <1>9, <1>10, OutOfPlan

LEMMA FailKeeps ==
  ASSUME DInv, PlansFit, D!Serial, NEW p \in Procs, Fail(p), focus' = focus
  PROVE  DInv'
<1>1. InPlan(p)
  BY DEF Fail, InPlan
<1>2. UNCHANGED <<objs, rels, live, held, box, up>> /\ UNCHANGED layer /\ GiveUp(p)
  BY DEF Fail, cluster
<1>3. TypeOK
  BY DEF DInv
<1>4. Owned' /\ Whole' /\ NoneHeld'
  BY <1>2, ClusterStays
<1>5. /\ objs' \subseteq AllObjects /\ rels' \in [AllReleases -> {"none", "deployed", "failed", "pending"}]
      /\ live' \in 0 .. MaxCalls /\ up' \subseteq objs'
  BY <1>2, <1>3 DEF TypeOK
<1> QED
  BY <1>1, <1>2, <1>4, <1>5, GivenUp

-------------------------------------------------------------------------------
(* How the verb ends: the process leaves its plan for the wrapper.         *)
LEMMA EndKeeps ==
  ASSUME DInv, PlansFit, D!Serial, NEW p \in Procs, Working(p), focus' = focus,
         NEW pc \in {"fail", "restore", "settle"}, GoTo(p, pc),
         UNCHANGED <<rows, calls, at, cluster, held>>
  PROVE  DInv'
<1>1. TypeOK /\ OnFocus(p)
  BY DEF DInv
<1>2. op[p].spec = focus /\ op[p] # Idle
  BY <1>1, AtWork
<1>3. /\ op' \in [Procs -> Call \cup {Idle}] /\ op'[p].pc = pc
      /\ op'[p].spec = op[p].spec /\ op'[p].verb = op[p].verb
  <2>1. pc \in Pcs \ {"idle"} /\ LayerTypeOK
    BY <1>1 DEF Pcs, TypeOK
  <2> QED
    BY <1>2, <2>1, CallMoves
<1>4. Plan(p)' = Plan(p)
  BY <1>3 DEF Plan
<1>5. \A q \in Procs : q = p
  BY DEF D!Serial
<1>6. UNCHANGED <<objs, rels, live, box, up>>
  BY DEF cluster
<1>7. TypeOK'
  <2>1. \A q \in Procs : op'[q] # Idle => at'[q] <= Len(Plan(q)') + 1
    BY <1>1, <1>2, <1>4, <1>5 DEF TypeOK
  <2> QED
    BY <1>1, <1>3, <1>6, <2>1 DEF TypeOK, LayerTypeOK
<1>8. OnFocus(p)'
  BY <1>2, <1>3 DEF OnFocus
<1>9. ~InPlan(p)'
  BY <1>3 DEF InPlan, Working
<1>10. Ahead(p)'
  BY <1>3 DEF Ahead, Driving
<1>11. Owned' /\ Whole' /\ NoneHeld'
  BY <1>6, ClusterStays
<1> QED
  BY <1>7, <1>8, <1>9, <1>10, <1>11, OutOfPlan
-------------------------------------------------------------------------------
(* What helm and kubectl do to the cluster keeps it sound.                 *)

LEMMA KnownReleases ==
  ASSUME NEW s \in DOMAIN Plans, NEW r \in Releases(s) PROVE r \in AllReleases
BY DEF AllReleases

LEMMA HolderKnown ==
  ASSUME TypeOK, PlansFit, focus \in Keepers PROVE Holder(focus) \in AllReleases
<1>1. focus \in DOMAIN Plans
  BY FocusAssumption DEF TypeOK
<1>2. Holder(focus) \in Releases(focus)
  BY DEF PlansFit, KeepersFit
<1> QED
  BY <1>1, <1>2, KnownReleases

\* The release of a step is another, or is left as the step leaves it.
LEMMA OneRelease ==
  ASSUME TypeOK, NEW r0, NEW status, rels' = [rels EXCEPT ![r0] = status],
         NEW r \in AllReleases
  PROVE  IF r = r0 THEN rels'[r] = status ELSE rels'[r] = rels[r]
BY DEF TypeOK

\* PostgreSQL is made of manifests.
LEMMA NoChartOfPostgres ==
  ASSUME TypeOK, PlansFit, NEW p \in Procs, OnFocus(p), InPlan(p),
         Plan(p)[at[p]].do \in {"install", "install_once", "clear_failed", "uninstall",
                                "uninstall_if_any"}
  PROVE  focus # "postgres"
<1> SUFFICES ASSUME focus = "postgres" PROVE FALSE
  OBVIOUS
<1>1. Plan(p) = Plans["postgres"][op[p].verb] /\ op[p].verb \in Verbs
  BY AtWork DEF InPlan
<1>2. Plan(p)[at[p]] \in Steps(Plan(p))
  BY StepIn DEF InPlan
<1> QED
  BY <1>1, <1>2 DEF PlansFit, PostgresFits

\* The steps of the operator of PostgreSQL.
LEMMA StepsOfCnpg ==
  ASSUME TypeOK, PlansFit, NEW p \in Procs, OnFocus(p), InPlan(p), focus = "cnpg"
  PROVE  LET st == Plan(p)[at[p]]
         IN /\ st.do \notin {"install_once", "clear_failed"}
            /\ st.do = "install" => st.on = "cnpg" /\ "operator pods" \in st.gives
            /\ Uninstalls(st) => st.on = "cnpg"
            /\ st.do # "check" => st.on # "operator pods"
            /\ "cnpg" \in AllReleases
<1>1. Plan(p) = Plans["cnpg"][op[p].verb] /\ op[p].verb \in Verbs
  BY AtWork DEF InPlan
<1>2. Plan(p)[at[p]] \in Steps(Plan(p))
  BY StepIn DEF InPlan
<1>3. "cnpg" \in AllReleases
  BY FocusAssumption, KnownReleases DEF TypeOK, PlansFit, CnpgFits
<1> QED
  BY <1>1, <1>2, <1>3 DEF PlansFit, CnpgFits

\* Whether it dies half way or not, an install is of a plan that builds, and
\* what it brings belongs to its release.
LEMMA Installing ==
  ASSUME DInv, PlansFit, NEW p \in Procs, InPlan(p), focus' = focus,
         Plan(p)[at[p]].do \in {"install", "install_once"},
         NEW part \in SUBSET Gives(p), NEW status \in {"deployed", "failed", "pending"},
         objs' = objs \cup part, rels' = [rels EXCEPT ![On(p)] = status],
         focus = "cnpg" => part = Gives(p)
  PROVE  /\ Owned' /\ Whole' /\ NoneHeld' /\ objs' \subseteq AllObjects
         /\ rels' \in [AllReleases -> {"none", "deployed", "failed", "pending"}]
         /\ op[p].verb # "delete"
         /\ Plan(p)[at[p]].on \in AllReleases
<1> DEFINE st == Plan(p)[at[p]]
<1>1. TypeOK /\ OnFocus(p) /\ Owned /\ Whole /\ NoneHeld /\ Working(p) /\ at[p] \in DOMAIN Plan(p)
  BY DEF DInv, InPlan
<1>2. st \in Steps(Plan(p)) /\ focus \in DOMAIN Plans
  BY <1>1, StepIn, AtWork
<1>3. op[p].verb # "delete"
  <2> SUFFICES ASSUME op[p].verb = "delete" PROVE FALSE
    OBVIOUS
  <2>1. DeleteFits(focus, Plan(p))
    BY <1>1, AtWork
  <2> QED
    BY <1>2, <2>1 DEF DeleteFits, Uninstalls, Deletes
<1>4. BuildSteps(focus, Plan(p)) /\ CarefulSteps(focus, Plan(p))
  BY <1>1, <1>3, AtWork DEF BuildFits, Careful
<1>5. st.on \in AllReleases /\ st.gives \subseteq AllObjects /\ On(p) = st.on /\ Gives(p) = st.gives
  BY <1>2, <1>4 DEF BuildSteps, On, Gives
<1>6. objs' \subseteq AllObjects /\ rels' \in [AllReleases -> {"none", "deployed", "failed", "pending"}]
  BY <1>1, <1>5 DEF TypeOK
<1>7. \A r \in AllReleases : rels'[r] = "none" => r # st.on /\ rels[r] = "none"
  <2>1. rels \in [AllReleases -> {"none", "deployed", "failed", "pending"}] /\ On(p) = st.on
    BY <1>1, <1>5 DEF TypeOK
  <2> HIDE DEF st
  <2> QED
    BY <2>1
<1>8. Owned'
  <2> SUFFICES ASSUME NEW r \in Releases(focus), NEW o \in Promised(focus), OwnedBy(focus, r, o),
                      rels'[r] = "none"
               PROVE  o \notin objs'
    BY DEF Owned
  <2>1. r # st.on /\ rels[r] = "none"
    BY <1>2, <1>7, KnownReleases
  <2>2. o \notin objs
    BY <1>1, <2>1 DEF Owned
  <2>3. o \notin st.gives
    BY <1>2, <1>4, <2>1 DEF BuildSteps
  <2> QED
    BY <1>5, <2>2, <2>3
<1>9. Whole'
  <2>1. focus # "postgres"
    BY <1>1, NoChartOfPostgres
  <2>2. focus = "cnpg" => "operator pods" \in objs'
    BY <1>1, <1>5, StepsOfCnpg
  <2> QED
    BY <2>1, <2>2 DEF Whole
<1>10. NoneHeld'
  <2> SUFFICES ASSUME focus \in Keepers, rels'[Holder(focus)] = "none" PROVE "credentials" \notin objs'
    BY DEF NoneHeld
  <2>1. Holder(focus) # st.on /\ rels[Holder(focus)] = "none"
    BY <1>1, <1>7, HolderKnown
  <2>2. "credentials" \notin objs
    BY <1>1, <2>1 DEF NoneHeld
  <2>3. "credentials" \notin st.gives
    BY <1>2, <1>4, <2>1 DEF CarefulSteps, Remakes
  <2> QED
    BY <1>5, <2>2, <2>3
<1> QED
  BY <1>3, <1>5, <1>6, <1>8, <1>9, <1>10

\* An uninstall that ends takes all that belongs to its release.
LEMMA Uninstalling ==
  ASSUME DInv, PlansFit, NEW p \in Procs, InPlan(p), focus' = focus,
         Plan(p)[at[p]].do \in {"uninstall", "uninstall_if_any", "clear_failed"},
         NEW part \in SUBSET Gives(p), NEW status \in {"none", "pending"},
         objs' = objs \ part, rels' = [rels EXCEPT ![On(p)] = status],
         status = "none" => part = Gives(p),
         focus = "cnpg" => status = "none"
  PROVE  /\ Owned' /\ Whole' /\ NoneHeld' /\ objs' \subseteq AllObjects
         /\ rels' \in [AllReleases -> {"none", "deployed", "failed", "pending"}]
<1> DEFINE st == Plan(p)[at[p]]
<1>1. TypeOK /\ OnFocus(p) /\ Owned /\ Whole /\ NoneHeld /\ Working(p) /\ at[p] \in DOMAIN Plan(p)
  BY DEF DInv, InPlan
<1>2. st \in Steps(Plan(p)) /\ focus \in DOMAIN Plans /\ On(p) = st.on /\ Gives(p) = st.gives
  BY <1>1, StepIn, AtWork DEF On, Gives
<1>3. objs' \subseteq AllObjects /\ rels' \in [AllReleases -> {"none", "deployed", "failed", "pending"}]
  BY <1>1 DEF TypeOK
<1>4. CarefulSteps(focus, Plan(p))
  BY <1>1, AtWork DEF Careful
<1>5. \A r \in AllReleases : rels'[r] = "none" =>
         \/ r = st.on /\ status = "none" /\ part = st.gives
         \/ r # st.on /\ rels[r] = "none"
  <2>1. /\ rels \in [AllReleases -> {"none", "deployed", "failed", "pending"}]
        /\ On(p) = st.on /\ Gives(p) = st.gives
    BY <1>1, <1>2 DEF TypeOK
  <2> HIDE DEF st
  <2> QED
    BY <2>1
<1>6. ASSUME NEW o \in Promised(focus), st.on \in Releases(focus), OwnedBy(focus, st.on, o)
      PROVE  o \in st.gives
  <2>1. CASE st.do = "clear_failed"
    <3>1. op[p].verb # "delete"
      <4> SUFFICES ASSUME op[p].verb = "delete" PROVE FALSE
        OBVIOUS
      <4>1. DeleteFits(focus, Plan(p))
        BY <1>1, AtWork
      <4> QED
        BY <1>2, <2>1, <4>1 DEF DeleteFits, Uninstalls, Deletes
    <3>2. BuildSteps(focus, Plan(p))
      BY <1>1, <3>1, AtWork DEF BuildFits
    <3> QED
      BY <1>2, <1>6, <2>1, <3>2 DEF BuildSteps
  <2>2. CASE Uninstalls(st)
    <3>1. op[p].verb = "delete"
      <4> SUFFICES ASSUME op[p].verb # "delete" PROVE FALSE
        OBVIOUS
      <4>1. BuildSteps(focus, Plan(p))
        BY <1>1, AtWork DEF BuildFits
      <4> QED
        BY <1>2, <2>2, <4>1 DEF BuildSteps
    <3>2. DeleteFits(focus, Plan(p))
      BY <1>1, <3>1, AtWork
    <3> QED
      BY <1>2, <1>6, <2>2, <3>2 DEF DeleteFits
  <2> QED
    BY <2>1, <2>2 DEF Uninstalls
<1>7. Owned'
  <2> SUFFICES ASSUME NEW r \in Releases(focus), NEW o \in Promised(focus), OwnedBy(focus, r, o),
                      rels'[r] = "none"
               PROVE  o \notin objs'
    BY DEF Owned
  <2>1. r \in AllReleases
    BY <1>2, KnownReleases
  <2>2. CASE r = st.on /\ part = st.gives
    BY <1>6, <2>2
  <2>3. CASE r # st.on /\ rels[r] = "none"
    BY <1>1, <2>3 DEF Owned
  <2> QED
    BY <1>5, <2>1, <2>2, <2>3
<1>8. Whole'
  <2>1. focus # "postgres"
    BY <1>1, NoChartOfPostgres
  <2>2. ASSUME focus = "cnpg" PROVE rels'["cnpg"] = "none"
    <3>1. st.do # "clear_failed" /\ (Uninstalls(st) => st.on = "cnpg") /\ "cnpg" \in AllReleases
      BY <1>1, <2>2, StepsOfCnpg
    <3>2. On(p) = "cnpg"
      BY <1>2, <3>1 DEF Uninstalls
    <3>3. status = "none"
      BY <2>2
    <3> QED
      BY <1>1, <3>1, <3>2, <3>3, OneRelease
  <2> QED
    BY <2>1, <2>2 DEF Whole
<1>9. NoneHeld'
  <2> SUFFICES ASSUME focus \in Keepers, rels'[Holder(focus)] = "none" PROVE "credentials" \notin objs'
    BY DEF NoneHeld
  <2>1. Holder(focus) \in AllReleases
    BY <1>1, HolderKnown
  <2>2. CASE Holder(focus) = st.on /\ part = st.gives
    BY <1>2, <1>4, <2>2 DEF CarefulSteps
  <2>3. CASE rels[Holder(focus)] = "none"
    BY <1>1, <2>3 DEF NoneHeld
  <2> QED
    BY <1>5, <2>1, <2>2, <2>3
<1> QED
  BY <1>3, <1>7, <1>8, <1>9
-------------------------------------------------------------------------------
(* The steps that touch the cluster.                                       *)

\* What an install brings in an update that installs no chart is kept by all.
LEMMA InstallsOfUpdate ==
  ASSUME TypeOK, PlansFit, NEW p \in Procs, OnFocus(p), InPlan(p), D!BringsNothing(p),
         op[p].verb # "delete", Plan(p)[at[p]].do \in {"install", "install_once"}
  PROVE  Gives(p) \cap Removable(focus) = {}
<1> DEFINE st == Plan(p)[at[p]]
<1>1. /\ op[p].verb = "update" /\ op[p].spec \notin Upserts
  BY DEF D!BringsNothing
<1>2. /\ op[p].spec = focus /\ Plan(p) = Plans[focus].update /\ focus \in DOMAIN Plans
      /\ BuildSteps(focus, Plan(p))
  BY <1>1, AtWork DEF InPlan, BuildFits
<1>3. st \in Steps(Plan(p))
  BY StepIn DEF InPlan
<1>4. st.do # "install"
  BY <1>1, <1>2, <1>3 DEF Upserts
<1>5. st.gives \cap Promised(focus) = {}
  BY <1>2, <1>3, <1>4 DEF BuildSteps
<1> QED
  BY <1>5 DEF Removable, Gives

LEMMA HelmInstallKeeps ==
  ASSUME DInv, PlansFit, D!Serial, NEW p \in Procs, HelmInstall(p), focus' = focus
  PROVE  DInv' /\ D!Work(p)
<1> DEFINE st == Plan(p)[at[p]]
<1>1. /\ InPlan(p) /\ Working(p) /\ st.do \in {"install", "install_once"} /\ at[p] \in DOMAIN Plan(p)
      /\ Touch(p) /\ Advance(p) /\ box' = box /\ held' = held
      /\ objs' = objs \cup Gives(p) /\ rels' = [rels EXCEPT ![On(p)] = "deployed"]
      /\ live' = IF "credentials" \in Gives(p) THEN held ELSE live
      /\ up' = up \cap objs'
  BY DEF HelmInstall, Doing, InPlan, StayUp
<1>2. TypeOK /\ OnFocus(p) /\ Ahead(p) /\ Behind(p) /\ Touched(p) /\ Holds(p)
  BY DEF DInv
<1>3. GoesOn(p)
  BY <1>1, <1>2, Touching
<1>4. /\ Owned' /\ Whole' /\ NoneHeld' /\ objs' \subseteq AllObjects
      /\ rels' \in [AllReleases -> {"none", "deployed", "failed", "pending"}]
      /\ op[p].verb # "delete" /\ st.on \in AllReleases
  BY <1>1, Installing
<1>5. On(p) = st.on /\ Gives(p) = st.gives
  BY DEF On, Gives
<1>6. Ahead(p)'
  <2>1. \A o \in Promised(focus) :
                /\ o \in objs => o \in objs'
                /\ Brings(st, o) => o \in objs'
    BY <1>1, <1>5 DEF Brings
  <2>2. StaysUp(st)
    BY <1>1, <1>2 DEF StaysUp, Waits, TypeOK
  <2> QED
    BY <1>2, <1>3, <1>4, <2>1, <2>2, AheadGoesOn
<1>7. Behind(p)'
  <2>1. focus # "postgres"
    BY <1>1, <1>2, NoChartOfPostgres
  <2>2. KeepsPostgres(p)
    BY <2>1 DEF KeepsPostgres
  <2>3. \A r \in AllReleases : rels'[r] = "none" => rels[r] = "none"
    BY <1>1, <1>2, OneRelease
  <2>4. rels'[st.on] # "none"
    BY <1>1, <1>2, <1>4, <1>5, OneRelease
  <2> QED
    BY <1>2, <1>3, <2>2, <2>3, <2>4, BehindGoesOn
<1>8. Touched(p)'
  <2>1. st.do \notin {"check", "refuse"}
    BY <1>1
  <2> QED
    BY <1>2, <1>3, <2>1, TouchedGoesOn
<1>9. Holds(p)'
  <2>1. ~Asks(st)
    BY <1>1 DEF Asks
  <2>2. CASE "credentials" \in Gives(p)
    BY <1>1, <1>2, <1>3, <2>2, HoldsGoesOn
  <2>3. CASE "credentials" \notin Gives(p)
    <3>1. "credentials" \in objs' => "credentials" \in objs
      BY <1>1, <2>3
    <3>2. live' = live
      BY <1>1, <2>3
    <3> QED
      BY <1>1, <1>2, <1>3, <2>1, <3>1, <3>2, HoldsGoesOn
  <2> QED
    BY <2>2, <2>3
<1>10. /\ live' \in 0 .. MaxCalls /\ held' \in 0 .. MaxCalls /\ box' \in {"none", "running", "completed"}
       /\ up' \subseteq objs'
  BY <1>1, <1>2 DEF TypeOK
<1>11. D!Work(p)
  <2>1. D!BringsNothing(p) => Gives(p) \cap Removable(focus) = {}
    BY <1>1, <1>2, <1>4, InstallsOfUpdate
  <2> QED
    BY <1>1, <1>2, <2>1, TouchIsWork
<1> QED
  BY <1>3, <1>4, <1>6, <1>7, <1>8, <1>9, <1>10, <1>11, StepKeeps

LEMMA HelmUninstallKeeps ==
  ASSUME DInv, PlansFit, D!Serial, NEW p \in Procs, HelmUninstall(p), focus' = focus
  PROVE  DInv' /\ D!Work(p)
<1> DEFINE st == Plan(p)[at[p]]
<1>1. /\ InPlan(p) /\ Working(p) /\ at[p] \in DOMAIN Plan(p)
      /\ st.do \in {"uninstall", "uninstall_if_any", "clear_failed"}
      /\ Touch(p) /\ Advance(p) /\ box' = box /\ held' = held /\ live' = live
      /\ objs' = objs \ Gives(p) /\ rels' = [rels EXCEPT ![On(p)] = "none"]
      /\ up' = up \cap objs'
  BY DEF HelmUninstall, Doing, InPlan, StayUp
<1>2. TypeOK /\ OnFocus(p) /\ Ahead(p) /\ Behind(p) /\ Touched(p) /\ Holds(p)
  BY DEF DInv
<1>3. GoesOn(p)
  BY <1>1, <1>2, Touching
<1>4. /\ Owned' /\ Whole' /\ NoneHeld' /\ objs' \subseteq AllObjects
      /\ rels' \in [AllReleases -> {"none", "deployed", "failed", "pending"}]
  BY <1>1, Uninstalling
<1>5. On(p) = st.on /\ Gives(p) = st.gives /\ st \in Steps(Plan(p))
  BY <1>1, StepIn DEF On, Gives
<1>6. op[p].verb # "delete" => st.do = "clear_failed"
  <2> SUFFICES ASSUME op[p].verb # "delete", st.do # "clear_failed" PROVE FALSE
    OBVIOUS
  <2>1. BuildSteps(focus, Plan(p))
    BY <1>1, <1>2, AtWork DEF BuildFits
  <2> QED
    BY <1>1, <1>5, <2>1 DEF BuildSteps, Uninstalls
<1>7. Ahead(p)'
  <2>1. \A o \in Promised(focus) : op[p].verb # "delete" =>
                /\ o \in objs => o \in objs' \/ Clears(st, o)
                /\ Brings(st, o) => o \in objs'
    BY <1>1, <1>5, <1>6 DEF Brings, Clears
  <2>2. \A o \in Promised(focus) : op[p].verb = "delete" =>
                /\ o \in objs' => o \in objs
                /\ Takes(st, o) => o \notin objs'
    BY <1>1, <1>5 DEF Takes
  <2>3. op[p].verb # "delete" => StaysUp(st)
    BY <1>6 DEF StaysUp, Waits
  <2> QED
    BY <1>2, <1>3, <2>1, <2>2, <2>3, AheadGoesOn
<1>8. Behind(p)'
  <2>1. focus # "postgres"
    BY <1>1, <1>2, NoChartOfPostgres
  <2>2. KeepsPostgres(p)
    BY <2>1 DEF KeepsPostgres
  <2>3. \A r \in AllReleases : rels'[r] = "none" => rels[r] = "none" \/ st.on = r
    BY <1>1, <1>2, <1>5, OneRelease
  <2>4. op[p].verb # "delete" =>
           /\ \A r \in AllReleases : rels'[r] = "none" =>
                rels[r] = "none" \/ (Plan(p)[at[p]].do = "clear_failed" /\ Plan(p)[at[p]].on = r)
           /\ Plan(p)[at[p]].do = "install" => rels'[Plan(p)[at[p]].on] # "none"
    BY <1>1, <1>6, <2>3
  <2> QED
    BY <1>2, <1>3, <2>2, <2>4, BehindGoesOn
<1>9. Touched(p)'
  <2>1. st.do \notin {"check", "refuse"}
    BY <1>1
  <2> QED
    BY <1>2, <1>3, <2>1, TouchedGoesOn
<1>10. Holds(p)'
  <2>1. ~Asks(st)
    BY <1>1 DEF Asks
  <2>2. "credentials" \in objs' => "credentials" \in objs
    BY <1>1
  <2> QED
    BY <1>1, <1>2, <1>3, <2>1, <2>2, HoldsGoesOn
<1>11. /\ live' \in 0 .. MaxCalls /\ held' \in 0 .. MaxCalls /\ box' \in {"none", "running", "completed"}
       /\ up' \subseteq objs'
  BY <1>1, <1>2 DEF TypeOK
<1>12. D!Work(p)
  <2>1. objs' \subseteq objs
    BY <1>1
  <2> QED
    BY <1>1, <1>2, <2>1, TouchIsWork
<1> QED
  BY <1>3, <1>4, <1>7, <1>8, <1>9, <1>10, <1>11, <1>12, StepKeeps

LEMMA HelmDiesKeeps ==
  ASSUME DInv, PlansFit, D!Serial, "cnpg" \notin Killable, NEW p \in Procs, HelmDies(p),
         focus' = focus
  PROVE  DInv' /\ D!Work(p)
<1> DEFINE st == Plan(p)[at[p]]
<1>1. /\ InPlan(p) /\ Working(p) /\ at[p] \in DOMAIN Plan(p) /\ focus # "cnpg"
      /\ Touch(p) /\ GiveUp(p) /\ box' = box /\ held' = held /\ up' \subseteq objs'
  BY DEF HelmDies, Doing, InPlan, StayUp
<1>2. TypeOK /\ OnFocus(p)
  BY DEF DInv
<1>3. CASE st.do \in {"install", "install_once"}
  <2>1. PICK part \in SUBSET Gives(p) :
           objs' = objs \cup part /\ live' = IF "credentials" \in part THEN held ELSE live
    BY <1>3 DEF HelmDies, Doing
  <2>2. PICK status \in {"failed", "pending"} : rels' = [rels EXCEPT ![On(p)] = status]
    BY <1>3 DEF HelmDies, Doing
  <2>3. /\ Owned' /\ Whole' /\ NoneHeld' /\ objs' \subseteq AllObjects
        /\ rels' \in [AllReleases -> {"none", "deployed", "failed", "pending"}]
        /\ op[p].verb # "delete"
    BY <1>1, <1>3, <2>1, <2>2, Installing
  <2>4. live' \in 0 .. MaxCalls
    BY <1>2, <2>1 DEF TypeOK
  <2>5. D!Work(p)
    <3>1. D!BringsNothing(p) => Gives(p) \cap Removable(focus) = {}
      BY <1>1, <1>2, <1>3, <2>3, InstallsOfUpdate
    <3>2. D!BringsNothing(p) /\ Removable(focus) \cap objs = {} => Removable(focus) \cap objs' = {}
      BY <2>1, <3>1
    <3> QED
      BY <1>1, <1>2, <3>2, TouchIsWork
  <2> QED
    BY <1>1, <2>3, <2>4, <2>5, GivenUp
<1>4. CASE st.do \in {"uninstall", "uninstall_if_any"}
  <2>1. PICK part \in SUBSET Gives(p) : objs' = objs \ part
    BY <1>4 DEF HelmDies, Doing
  <2>2. rels' = [rels EXCEPT ![On(p)] = "pending"] /\ live' = live
    BY <1>4 DEF HelmDies, Doing
  <2>3. /\ Owned' /\ Whole' /\ NoneHeld' /\ objs' \subseteq AllObjects
        /\ rels' \in [AllReleases -> {"none", "deployed", "failed", "pending"}]
    BY <1>1, <1>4, <2>1, <2>2, Uninstalling
  <2>4. live' \in 0 .. MaxCalls
    BY <1>2, <2>2 DEF TypeOK
  <2>5. objs' \subseteq objs
    BY <2>1
  <2>6. D!Work(p)
    BY <1>1, <1>2, <2>5, TouchIsWork
  <2> QED
    BY <1>1, <2>3, <2>4, <2>6, GivenUp
<1>5. st.do \in {"install", "install_once", "uninstall", "uninstall_if_any"}
  BY DEF HelmDies, Doing
<1> QED
  BY <1>3, <1>4, <1>5

\* Nor does such an update apply anything of its own but what it found there.
LEMMA AppliesOfUpdate ==
  ASSUME TypeOK, PlansFit, NEW p \in Procs, OnFocus(p), Behind(p), InPlan(p),
         D!BringsNothing(p), op[p].verb # "delete", Plan(p)[at[p]].do = "apply"
  PROVE  Plan(p)[at[p]].on \in objs \/ Plan(p)[at[p]].on \notin Removable(focus)
<1> DEFINE st == Plan(p)[at[p]]
<1>1. op[p].verb = "update" /\ op[p].spec \notin Upserts
  BY DEF D!BringsNothing
<1>2. /\ op[p].spec = focus /\ Plan(p) = Plans[focus].update /\ at[p] \in DOMAIN Plan(p)
      /\ UpdateFits(focus, Plan(p))
  BY <1>1, AtWork DEF InPlan
<1>3. st \in Steps(Plan(p))
  BY <1>2, StepIn
<1> SUFFICES ASSUME st.on \in Removable(focus) PROVE st.on \in objs
  OBVIOUS
<1>4. st.on \in Promised(focus)
  BY DEF Removable
<1>5. focus = "postgres" /\ st.on = "postgres cluster"
  BY <1>1, <1>2, <1>3, <1>4 DEF UpdateFits
<1>6. ClusterRefused(Plan(p))
  BY <1>2, <1>5 DEF PlansFit, PostgresFits
<1>7. Brings(st, "postgres cluster")
  BY <1>5 DEF Brings
<1>8. PICK j \in DOMAIN Plan(p) :
         j < at[p] /\ Plan(p)[j].do = "refuse" /\ Plan(p)[j].on = "postgres cluster"
  BY <1>2, <1>6, <1>7 DEF ClusterRefused
<1> QED
  BY <1>1, <1>5, <1>8 DEF Behind

LEMMA KubectlApplyKeeps ==
  ASSUME DInv, PlansFit, D!Serial, NEW p \in Procs, KubectlApply(p), focus' = focus
  PROVE  DInv' /\ D!Work(p)
<1> DEFINE st == Plan(p)[at[p]]
<1>1. /\ InPlan(p) /\ Working(p) /\ st.do = "apply" /\ at[p] \in DOMAIN Plan(p)
      /\ Touch(p) /\ Advance(p) /\ box' = box /\ held' = held /\ live' = live /\ rels' = rels
      /\ objs' = objs \cup {st.on} /\ up' = up \cap objs'
  BY DEF KubectlApply, Doing, InPlan, On, StayUp
<1>2. TypeOK /\ OnFocus(p) /\ Ahead(p) /\ Behind(p) /\ Touched(p) /\ Holds(p)
  BY DEF DInv
<1>3. GoesOn(p)
  BY <1>1, <1>2, Touching
<1>0. /\ at[p] # 0
      /\ \A i \in DOMAIN Plan(p) : ~(i >= at[p] /\ i < at[p])
  <2>1. at[p] \in Nat /\ DOMAIN Plan(p) = 1 .. Len(Plan(p))
    BY <1>1, <1>2, AtWork
  <2> QED
    BY <1>1, <2>1
<1>4. /\ st \in Steps(Plan(p))
      /\ op[p].verb \in Verbs /\ CarefulSteps(focus, Plan(p))
      /\ Plan(p) = Plans[focus][op[p].verb]
  BY <1>1, <1>2, StepIn, AtWork DEF Careful
<1>5. op[p].verb # "delete"
  <2> SUFFICES ASSUME op[p].verb = "delete" PROVE FALSE
    OBVIOUS
  <2>1. DeleteFits(focus, Plan(p))
    BY <1>1, <1>2, AtWork
  <2> QED
    BY <1>1, <1>4, <2>1 DEF DeleteFits, Uninstalls, Deletes
<1>6. BuildSteps(focus, Plan(p)) /\ BuildOrder(focus, Plan(p))
  BY <1>1, <1>2, <1>5, AtWork DEF BuildFits
<1>7. objs' \subseteq AllObjects
  <2>1. st.on \in AllObjects
    BY <1>1, <1>4, <1>6 DEF BuildSteps
  <2> QED
    BY <1>1, <1>2, <2>1 DEF TypeOK
<1>8. Owned'
  <2> SUFFICES ASSUME NEW r \in Releases(focus), NEW o \in Promised(focus), OwnedBy(focus, r, o),
                      rels[r] = "none"
               PROVE  o \notin objs'
    BY <1>1 DEF Owned
  <2>1. o \notin objs
    BY DEF DInv, Owned
  <2>2. o # st.on
    <3> SUFFICES ASSUME o = st.on PROVE FALSE
      OBVIOUS
    <3>1. PICK i \in DOMAIN Plan(p) :
             i < at[p] /\ Plan(p)[i].do = "install" /\ Plan(p)[i].on = r
      BY <1>1, <1>6 DEF BuildOrder
    <3>2. rels[r] # "none"
      BY <1>1, <1>2, <1>5, <3>1 DEF Behind
    <3> QED
      BY <3>2
  <2> QED
    BY <1>1, <2>1, <2>2
<1>9. Whole'
  <2>1. ASSUME focus = "postgres", st.on = "postgres cluster" PROVE "app secret" \in objs
    <3>0. Brings(st, "postgres cluster")
      BY <1>1, <2>1 DEF Brings
    <3>1. CASE op[p].verb = "create"
      <4>1. Plan(p) = Plans["postgres"].create
        BY <1>4, <2>1, <3>1
      <4>2. "app secret" \in Promised(focus)
        BY <2>1 DEF PlansFit, PostgresFits
      <4>3. CASE "app secret" \notin objs
        <5>1. PICK i \in DOMAIN Plan(p) : i >= at[p] /\ Brings(Plan(p)[i], "app secret")
          BY <1>0, <1>1, <1>2, <3>1, <4>2, <4>3 DEF Ahead, Due, Driving, Working, Builds
        <5>2. ClusterLast(Plan(p))
          BY <4>1 DEF PlansFit, PostgresFits
        <5>3. i < at[p]
          BY <1>1, <3>0, <5>1, <5>2 DEF ClusterLast
        <5> QED
          BY <1>0, <5>1, <5>3
      <4> QED
        BY <4>3
    <3>2. CASE op[p].verb = "update"
      <4>1. Plan(p) = Plans["postgres"].update
        BY <1>4, <2>1, <3>2
      <4>2. ClusterRefused(Plan(p))
        BY <4>1 DEF PlansFit, PostgresFits
      <4>3. PICK j \in DOMAIN Plan(p) :
               j < at[p] /\ Plan(p)[j].do = "refuse" /\ Plan(p)[j].on = "postgres cluster"
        BY <1>1, <3>0, <4>2 DEF ClusterRefused
      <4>4. "postgres cluster" \in objs
        BY <1>1, <1>2, <1>5, <2>1, <4>3 DEF Behind
      <4> QED
        BY <2>1, <4>4 DEF DInv, Whole
    <3> QED
      BY <1>4, <1>5, <3>1, <3>2 DEF Verbs
  <2>2. focus = "postgres" /\ "postgres cluster" \in objs' => "app secret" \in objs'
    <3> SUFFICES ASSUME focus = "postgres", "postgres cluster" \in objs' PROVE "app secret" \in objs
      BY <1>1
    <3>1. CASE st.on = "postgres cluster"
      BY <2>1, <3>1
    <3>2. CASE "postgres cluster" \in objs
      BY <3>2 DEF DInv, Whole
    <3> QED
      BY <1>1, <3>1, <3>2
  <2>3. focus = "cnpg" /\ rels["cnpg"] # "none" => "operator pods" \in objs'
    BY <1>1 DEF DInv, Whole
  <2> QED
    BY <1>1, <2>2, <2>3 DEF Whole
<1>10. st.on # "credentials"
  BY <1>1, <1>4 DEF CarefulSteps
<1>11. NoneHeld'
  <2>1. NoneHeld
    BY DEF DInv
  <2>2. "credentials" \in objs' => "credentials" \in objs
    BY <1>1, <1>10
  <2> QED
    BY <1>1, <2>1, <2>2 DEF NoneHeld
<1>12. Ahead(p)'
  <2>1. \A o \in Promised(focus) :
                /\ o \in objs => o \in objs'
                /\ Brings(st, o) => o \in objs'
    BY <1>1 DEF Brings
  <2>2. StaysUp(st)
    BY <1>1, <1>2 DEF StaysUp, Waits, TypeOK
  <2> QED
    BY <1>2, <1>3, <1>5, <2>1, <2>2, AheadGoesOn
<1>13. Behind(p)'
  <2>1. KeepsPostgres(p)
    BY <1>1 DEF KeepsPostgres
  <2> QED
    BY <1>1, <1>2, <1>3, <2>1, BehindGoesOn
<1>14. Touched(p)'
  <2>1. st.do \notin {"check", "refuse"}
    BY <1>1
  <2> QED
    BY <1>2, <1>3, <2>1, TouchedGoesOn
<1>15. Holds(p)'
  <2>1. ~Asks(st)
    BY <1>1 DEF Asks
  <2>2. "credentials" \in objs' => "credentials" \in objs
    BY <1>1, <1>10
  <2> QED
    BY <1>1, <1>2, <1>3, <2>1, <2>2, HoldsGoesOn
<1>16. /\ live' \in 0 .. MaxCalls /\ held' \in 0 .. MaxCalls /\ box' \in {"none", "running", "completed"}
       /\ rels' \in [AllReleases -> {"none", "deployed", "failed", "pending"}]
       /\ up' \subseteq objs'
  BY <1>1, <1>2 DEF TypeOK
<1>17. D!Work(p)
  <2>1. D!BringsNothing(p) => st.on \in objs \/ st.on \notin Removable(focus)
    BY <1>1, <1>2, <1>5, AppliesOfUpdate
  <2> QED
    BY <1>1, <1>2, <2>1, TouchIsWork
<1> QED
  BY <1>3, <1>7, <1>8, <1>9, <1>11, <1>12, <1>13, <1>14, <1>15, <1>16, <1>17, StepKeeps

LEMMA KubectlDeleteKeeps ==
  ASSUME DInv, PlansFit, D!Serial, NEW p \in Procs, KubectlDelete(p), focus' = focus
  PROVE  DInv' /\ D!Work(p)
<1> DEFINE st == Plan(p)[at[p]]
<1>1. /\ InPlan(p) /\ Working(p) /\ at[p] \in DOMAIN Plan(p)
      /\ st.do \in {"delete", "delete_quietly", "delete_if_found"}
      /\ Touch(p) /\ Advance(p) /\ box' = box /\ held' = held /\ live' = live /\ rels' = rels
      /\ objs' = objs \ {st.on} /\ up' = up \cap objs'
  BY DEF KubectlDelete, Doing, InPlan, On, StayUp
<1>2. TypeOK /\ OnFocus(p) /\ Ahead(p) /\ Behind(p) /\ Touched(p) /\ Holds(p)
  BY DEF DInv
<1>3. GoesOn(p)
  BY <1>1, <1>2, Touching
<1>0. /\ at[p] # 0
      /\ \A i \in DOMAIN Plan(p) : ~(i >= at[p] /\ i < at[p])
  <2>1. at[p] \in Nat /\ DOMAIN Plan(p) = 1 .. Len(Plan(p))
    BY <1>1, <1>2, AtWork
  <2> QED
    BY <1>1, <2>1
<1>4. st \in Steps(Plan(p)) /\ Plan(p) = Plans[focus][op[p].verb]
  BY <1>1, <1>2, StepIn, AtWork
<1>5. op[p].verb = "delete"
  <2> SUFFICES ASSUME op[p].verb # "delete" PROVE FALSE
    OBVIOUS
  <2>1. BuildSteps(focus, Plan(p))
    BY <1>1, <1>2, AtWork DEF BuildFits
  <2> QED
    BY <1>1, <1>4, <2>1 DEF BuildSteps, Deletes
<1>6. Owned'
  BY <1>1 DEF DInv, Owned
<1>7. Whole'
  <2>1. ASSUME focus = "postgres", st.on = "app secret" PROVE "postgres cluster" \notin objs
    <3>1. Plan(p) = Plans["postgres"].delete
      BY <1>4, <1>5, <2>1
    <3>2. Takes(st, "app secret")
      BY <1>1, <1>4, <2>1, <3>1 DEF PlansFit, PostgresFits, Takes, Deletes
    <3>3. "postgres cluster" \in Promised(focus) /\ "postgres cluster" \in Removable(focus)
      BY <2>1 DEF PlansFit, PostgresFits, Removable, LeftBehind
    <3>4. CASE "postgres cluster" \in objs
      <4>1. PICK i \in DOMAIN Plan(p) : i >= at[p] /\ Takes(Plan(p)[i], "postgres cluster")
        BY <1>0, <1>1, <1>2, <1>5, <3>3, <3>4 DEF Ahead, Due, Driving, Working
      <4>2. ClusterFirst(Plan(p))
        BY <3>1 DEF PlansFit, PostgresFits
      <4>3. i < at[p]
        BY <1>1, <3>2, <4>1, <4>2 DEF ClusterFirst
      <4> QED
        BY <1>0, <4>1, <4>3
    <3> QED
      BY <3>4
  <2>2. focus = "postgres" /\ "postgres cluster" \in objs' => "app secret" \in objs'
    <3> SUFFICES ASSUME focus = "postgres", "postgres cluster" \in objs' PROVE "app secret" \in objs'
      OBVIOUS
    <3>1. "postgres cluster" \in objs
      BY <1>1
    <3>2. "app secret" \in objs
      BY <3>1 DEF DInv, Whole
    <3>3. st.on # "app secret"
      BY <2>1, <3>1
    <3> QED
      BY <1>1, <3>2, <3>3
  <2>3. focus = "cnpg" /\ rels["cnpg"] # "none" => "operator pods" \in objs'
    <3> SUFFICES ASSUME focus = "cnpg", rels["cnpg"] # "none" PROVE "operator pods" \in objs'
      OBVIOUS
    <3>1. st.on # "operator pods"
      BY <1>1, <1>2, StepsOfCnpg
    <3> QED
      BY <1>1, <3>1 DEF DInv, Whole
  <2> QED
    BY <1>1, <2>2, <2>3 DEF Whole
<1>8. NoneHeld'
  BY <1>1 DEF DInv, NoneHeld
<1>9. Ahead(p)'
  <2>1. \A o \in Promised(focus) :
                /\ o \in objs' => o \in objs
                /\ Takes(st, o) => o \notin objs'
    BY <1>1 DEF Takes, Uninstalls
  <2> QED
    BY <1>2, <1>3, <1>5, <2>1, AheadGoesOn
<1>10. Behind(p)'
  <2>1. KeepsPostgres(p)
    BY <1>5 DEF KeepsPostgres
  <2> QED
    BY <1>1, <1>2, <1>3, <1>5, <2>1, BehindGoesOn
<1>11. Touched(p)'
  <2>1. st.do \notin {"check", "refuse"}
    BY <1>1
  <2> QED
    BY <1>2, <1>3, <2>1, TouchedGoesOn
<1>12. Holds(p)'
  <2>1. ~Asks(st)
    BY <1>1 DEF Asks
  <2>2. "credentials" \in objs' => "credentials" \in objs
    BY <1>1
  <2> QED
    BY <1>1, <1>2, <1>3, <2>1, <2>2, HoldsGoesOn
<1>13. /\ live' \in 0 .. MaxCalls /\ held' \in 0 .. MaxCalls /\ box' \in {"none", "running", "completed"}
       /\ rels' \in [AllReleases -> {"none", "deployed", "failed", "pending"}]
       /\ objs' \subseteq AllObjects /\ up' \subseteq objs'
  BY <1>1, <1>2 DEF TypeOK
<1>14. D!Work(p)
  <2>1. objs' \subseteq objs
    BY <1>1
  <2> QED
    BY <1>1, <1>2, <2>1, TouchIsWork
<1> QED
  BY <1>3, <1>6, <1>7, <1>8, <1>9, <1>10, <1>11, <1>12, <1>13, <1>14, StepKeeps

LEMMA PodAppliedKeeps ==
  ASSUME DInv, PlansFit, D!Serial, NEW p \in Procs, PodApplied(p), focus' = focus
  PROVE  DInv' /\ D!Work(p)
<1> DEFINE st == Plan(p)[at[p]]
<1>1. /\ InPlan(p) /\ Working(p) /\ at[p] \in DOMAIN Plan(p) /\ st.do = "pod"
      /\ Touch(p) /\ Advance(p) /\ box' = "running"
      /\ UNCHANGED <<objs, rels, live, up, held>>
  BY DEF PodApplied, Doing, InPlan
<1>2. TypeOK /\ OnFocus(p) /\ Ahead(p) /\ Behind(p) /\ Touched(p) /\ Holds(p)
  BY DEF DInv
<1>3. GoesOn(p)
  BY <1>1, <1>2, Touching
<1>4. Ahead(p)'
  <2>1. \A o : ~Brings(st, o) /\ ~Takes(st, o)
    BY <1>1 DEF Brings, Takes, Uninstalls
  <2>2. StaysUp(st)
    BY <1>1 DEF StaysUp, Waits
  <2> QED
    BY <1>1, <1>2, <1>3, <2>1, <2>2, AheadGoesOn
<1>5. Behind(p)'
  <2>1. KeepsPostgres(p)
    BY <1>1 DEF KeepsPostgres
  <2> QED
    BY <1>1, <1>2, <1>3, <2>1, BehindGoesOn
<1>6. Touched(p)'
  <2>1. st.do \notin {"check", "refuse"}
    BY <1>1
  <2> QED
    BY <1>2, <1>3, <2>1, TouchedGoesOn
<1>7. Holds(p)'
  <2>1. ~Asks(st)
    BY <1>1 DEF Asks
  <2> QED
    BY <1>1, <1>2, <1>3, <2>1, HoldsGoesOn
<1>8. D!Work(p)
  BY <1>1, <1>2, TouchIsWork
<1> QED
  BY <1>1, <1>2, <1>3, <1>4, <1>5, <1>6, <1>7, <1>8, ClusterStays, StepKeeps DEF TypeOK

LEMMA ComesUpKeeps ==
  ASSUME DInv, PlansFit, D!Serial, NEW p \in Procs, ComesUp(p), focus' = focus
  PROVE  DInv' /\ D!Work(p)
<1> DEFINE st == Plan(p)[at[p]]
<1>1. /\ InPlan(p) /\ Working(p) /\ at[p] \in DOMAIN Plan(p) /\ st.do = "await"
      /\ Touch(p) /\ Advance(p) /\ st.on \in objs /\ up' = up \cup {st.on}
      /\ UNCHANGED <<objs, rels, live, box, held>>
  BY DEF ComesUp, Doing, InPlan, On
<1>2. TypeOK /\ OnFocus(p) /\ Ahead(p) /\ Behind(p) /\ Touched(p) /\ Holds(p)
  BY DEF DInv
<1>3. GoesOn(p)
  BY <1>1, <1>2, Touching
<1>4. Ahead(p)'
  <2>1. \A o : ~Brings(st, o) /\ ~Takes(st, o)
    BY <1>1 DEF Brings, Takes, Uninstalls
  <2>2. StaysUp(st)
    BY <1>1 DEF StaysUp, Waits
  <2> QED
    BY <1>1, <1>2, <1>3, <2>1, <2>2, AheadGoesOn
<1>5. Behind(p)'
  <2>1. KeepsPostgres(p)
    BY <1>1 DEF KeepsPostgres
  <2> QED
    BY <1>1, <1>2, <1>3, <2>1, BehindGoesOn
<1>6. Touched(p)'
  <2>1. st.do \notin {"check", "refuse"}
    BY <1>1
  <2> QED
    BY <1>2, <1>3, <2>1, TouchedGoesOn
<1>7. Holds(p)'
  <2>1. ~Asks(st)
    BY <1>1 DEF Asks
  <2> QED
    BY <1>1, <1>2, <1>3, <2>1, HoldsGoesOn
<1>8. D!Work(p)
  BY <1>1, <1>2, TouchIsWork
<1>9. up' \subseteq objs'
  BY <1>1, <1>2 DEF TypeOK
<1> QED
  BY <1>1, <1>2, <1>3, <1>4, <1>5, <1>6, <1>7, <1>8, <1>9, ClusterStays, StepKeeps DEF TypeOK
-------------------------------------------------------------------------------
(* How the verb ends, as Deployments sees it.                              *)

LEMMA RaiseKeeps ==
  ASSUME DInv, PlansFit, D!Serial, NEW p \in Procs, Raise(p), focus' = focus
  PROVE  DInv' /\ D!WorkRaises(p)
<1>1. made' = made
  BY SameMade DEF Raise, cluster
<1>2. D!WorkRaises(p)
  BY <1>1 DEF Raise, D!WorkRaises, Working, D!Working, GoTo, D!GoTo, made
<1> QED
  BY <1>2, EndKeeps DEF Raise

\* A refusal comes before anything is touched, and to an update only.
LEMMA RefusedKeeps ==
  ASSUME DInv, PlansFit, D!Serial, NEW p \in Procs, Refused(p), focus' = focus
  PROVE  DInv' /\ D!WorkRefused(p)
<1> DEFINE st == Plan(p)[at[p]]
<1>1. /\ InPlan(p) /\ Working(p) /\ at[p] \in DOMAIN Plan(p) /\ st.do = "refuse"
      /\ GoTo(p, "restore") /\ UNCHANGED <<rows, calls, at, cluster, held>>
  BY DEF Refused, Doing, InPlan
<1>2. TypeOK /\ OnFocus(p) /\ Touched(p) /\ st \in Steps(Plan(p))
  BY <1>1, StepIn DEF DInv
<1>3. /\ op[p].verb \in Verbs /\ op[p].pc \in {"work", "busy"}
      /\ op[p].verb = "create" => CreateFits(focus, Plan(p))
      /\ op[p].verb = "delete" => DeleteFits(focus, Plan(p))
      /\ op[p].verb # "delete" => BuildFits(focus, Plan(p))
  BY <1>1, <1>2, AtWork
<1>4. op[p].verb # "delete"
  BY <1>1, <1>2, <1>3 DEF DeleteFits, Uninstalls, Deletes
<1>5. op[p].verb # "create"
  BY <1>1, <1>2, <1>3 DEF CreateFits
<1>6. op[p].verb = "update"
  BY <1>3, <1>4, <1>5 DEF Verbs
<1>7. op[p].pc = "work"
  <2> SUFFICES ASSUME op[p].pc = "busy" PROVE FALSE
    BY <1>3
  <2>1. PICK i \in DOMAIN Plan(p) : i < at[p] /\ Plan(p)[i].do \notin {"check", "refuse"}
    BY <1>1, <1>2 DEF Touched
  <2>2. BuildOrder(focus, Plan(p))
    BY <1>3, <1>4 DEF BuildFits
  <2> QED
    BY <1>1, <2>1, <2>2 DEF BuildOrder
<1>8. made' = made
  BY <1>1, SameMade DEF cluster
<1>9. D!WorkRefused(p)
  BY <1>1, <1>6, <1>7, <1>8 DEF D!WorkRefused, GoTo, D!GoTo, made
<1> QED
  BY <1>1, <1>9, EndKeeps

\* A plan that came to its end did what it was for.
LEMMA FinishKeeps ==
  ASSUME DInv, PlansFit, D!Serial, NEW p \in Procs, Finish(p), focus' = focus
  PROVE  DInv' /\ D!WorkDone(p)
<1>1. /\ Working(p) /\ at[p] = Len(Plan(p)) + 1
      /\ GoTo(p, "settle") /\ UNCHANGED <<rows, calls, at, cluster, held>>
  BY DEF Finish
<1>2. TypeOK /\ OnFocus(p) /\ Ahead(p)
  BY DEF DInv
<1>3. /\ op[p].spec = focus /\ focus \in Specs /\ Driving(p) /\ at[p] # 0
      /\ \A i \in DOMAIN Plan(p) : ~(i >= at[p])
  <2>1. /\ op[p].spec = focus /\ focus \in Specs /\ op[p].pc \in {"work", "busy"}
        /\ Len(Plan(p)) \in Nat /\ DOMAIN Plan(p) = 1 .. Len(Plan(p))
    BY <1>1, <1>2, AtWork
  <2>2. \A i \in DOMAIN Plan(p) : ~(i >= at[p])
    BY <1>1, <2>1
  <2>3. at[p] # 0
    BY <1>1, <2>1
  <2> QED
    BY <2>1, <2>2, <2>3 DEF Driving
<1>4. Removable(focus) # {} /\ Removable(focus) \subseteq Promised(focus)
  BY <1>2, SomethingPromised
<1>5. Builds(p) => made[focus] = "present"
  <2>1. Builds(p) => Promised(focus) \subseteq objs
    BY <1>2, <1>3 DEF Ahead, Due
  <2>2. Builds(p) /\ ~TakenAsFound(focus) => Awaited(focus) \subseteq up
    BY <1>2, <1>3 DEF Ahead, Rising
  <2> QED
    BY <1>3, <2>1, <2>2 DEF made, Made, Stands
<1>6. op[p].verb = "delete" => made[focus] = "absent"
  <2>1. op[p].verb = "delete" => Removable(focus) \cap objs = {}
    BY <1>2, <1>3, <1>4 DEF Ahead, Due
  <2>2. op[p].verb = "delete" => ~(Promised(focus) \subseteq objs)
    BY <1>4, <2>1
  <2> QED
    BY <1>3, <2>1, <2>2 DEF made, Made, Stands
<1>7. made' = made
  BY <1>1, SameMade DEF cluster
<1>8. D!WorkDone(p)
  BY <1>1, <1>3, <1>5, <1>6, <1>7 DEF D!WorkDone, Working, D!Working, GoTo, D!GoTo, made, Builds
<1> QED
  BY <1>1, <1>8, EndKeeps

-------------------------------------------------------------------------------
(* The wrapper's own steps.                                                *)

\* What it writes is the row of its own deployment.
LEMMA OnlyItsRow ==
  ASSUME LayerTypeOK, D!UniqueNames, focus \in Specs, focus' = focus, objs' = objs, up' = up,
         \A n \in Names : n # NameOf[focus] => rows'[n] = rows[n]
  PROVE  made' = made
<1>1. ASSUME NEW s \in Specs PROVE Made(s)' = Made(s)
  <2>1. CASE s = focus
    BY <2>1 DEF Made, Stands
  <2>2. CASE s # focus
    <3>1. NameOf[s] \in Names /\ NameOf[s] # NameOf[focus]
      BY <2>2 DEF Names, D!UniqueNames
    <3> QED
      BY <2>2, <3>1 DEF Made, RecordedProvisioned
  <2> QED
    BY <2>1, <2>2
<1> QED
  BY <1>1 DEF made

LEMMA LayerMoves ==
  ASSUME LayerTypeOK, NEW p \in Procs, Bookkeeping(p) \/ Crash(p)
  PROVE  /\ op[p] # Idle
         /\ \A n \in Names : n # NameIn(p) => rows'[n] = rows[n]
         /\ \/ op'[p] = Idle
            \/ /\ op[p].pc \in {"require", "start", "mark"}
               /\ op'[p].pc \in {"start", "mark", "work"}
               /\ op'[p].verb = op[p].verb /\ op'[p].spec = op[p].spec
               /\ op'[p].existing = op[p].existing
<1> USE DEF GoTo, Return
<1>1. op[p] # Idle
  BY DEF Bookkeeping, Crash, RequireHealthyDependencies, StartRow, Mark, Settle, MarkFailed,
         RestorePrevious, Idle
<1>2. op[p] \in Call
  BY <1>1 DEF LayerTypeOK
<1>3. CASE RequireHealthyDependencies(p)
  BY <1>1, <1>2, <1>3 DEF RequireHealthyDependencies, LayerTypeOK, Call
<1>4. CASE StartRow(p)
  BY <1>1, <1>2, <1>4 DEF StartRow, LayerTypeOK, Call
<1>5. CASE Mark(p)
  <2>1. \A n \in Names : n # NameIn(p) => rows'[n] = rows[n]
    BY <1>5 DEF Mark, SetStatus, LayerTypeOK
  <2>2. op' = [op EXCEPT ![p].pc = "work"] \/ op' = [op EXCEPT ![p] = Idle]
    BY <1>5 DEF Mark
  <2>3. op[p].pc = "mark"
    BY <1>5 DEF Mark
  <2> QED
    BY <1>1, <1>2, <2>1, <2>2, <2>3 DEF LayerTypeOK, Call
<1>6. CASE Settle(p)
  BY <1>1, <1>6 DEF Settle, LayerTypeOK
<1>7. CASE MarkFailed(p)
  BY <1>1, <1>7 DEF MarkFailed, LayerTypeOK
<1>8. CASE RestorePrevious(p)
  BY <1>1, <1>8 DEF RestorePrevious, LayerTypeOK
<1>9. CASE Crash(p)
  BY <1>1, <1>9 DEF Crash, LayerTypeOK
<1> QED
  BY <1>3, <1>4, <1>5, <1>6, <1>7, <1>8, <1>9 DEF Bookkeeping

\* The wrapper's steps are those of Deployments.
LEMMA LayerStepMaps ==
  ASSUME NEW p \in Procs
  PROVE  /\ Bookkeeping(p) => D!Bookkeeping(p)
         /\ Crash(p) => D!Crash(p)
         /\ CallCreate(p, focus) => D!CallCreate(p, focus)
         /\ CallDelete(p, focus) => D!CallDelete(p, focus)
         /\ CallUpdate(p, focus) => D!CallUpdate(p, focus)
<1> USE DEF NameIn, D!NameIn, Recorded, D!Recorded, GoTo, D!GoTo, Return, D!Return, Idle, D!Idle,
            NoRow, D!NoRow, SetStatus, D!SetStatus
<1>1. RequireHealthyDependencies(p) => D!RequireHealthyDependencies(p)
  BY DEF RequireHealthyDependencies, D!RequireHealthyDependencies, HasHealthy, D!HasHealthy,
         Names, D!Names
<1>2. StartRow(p) => D!StartRow(p)
  BY DEF StartRow, D!StartRow
<1>3. Mark(p) => D!Mark(p)
  BY DEF Mark, D!Mark
<1>4. Settle(p) => D!Settle(p)
  BY DEF Settle, D!Settle
<1>5. MarkFailed(p) => D!MarkFailed(p)
  BY DEF MarkFailed, D!MarkFailed
<1>6. RestorePrevious(p) => D!RestorePrevious(p)
  BY DEF RestorePrevious, D!RestorePrevious
<1>7. Bookkeeping(p) => D!Bookkeeping(p)
  BY <1>1, <1>2, <1>3, <1>4, <1>5, <1>6 DEF Bookkeeping, D!Bookkeeping
<1>8. Crash(p) => D!Crash(p)
  BY DEF Crash, D!Crash
<1>9. /\ CallCreate(p, focus) => D!CallCreate(p, focus)
      /\ CallDelete(p, focus) => D!CallDelete(p, focus)
      /\ CallUpdate(p, focus) => D!CallUpdate(p, focus)
  BY DEF CallCreate, D!CallCreate, CallDelete, D!CallDelete, CallUpdate, D!CallUpdate, Begin, D!Begin
<1> QED
  BY <1>7, <1>8, <1>9

LEMMA LayerStepIsStep ==
  ASSUME DInv, D!UniqueNames, NEW p \in Procs, LayerStep(p), focus' = focus
  PROVE  D!Step(p)
<1>1. LayerTypeOK /\ OnFocus(p) /\ focus \in Specs
  BY FocusAssumption DEF DInv, TypeOK
<1>2. Bookkeeping(p) \/ Crash(p)
  BY DEF LayerStep
<1>3. op[p] # Idle /\ \A n \in Names : n # NameIn(p) => rows'[n] = rows[n]
  BY <1>1, <1>2, LayerMoves
<1>4. NameIn(p) = NameOf[focus]
  BY <1>1, <1>3 DEF NameIn, OnFocus
<1>5. objs' = objs /\ up' = up
  BY DEF LayerStep, cluster
<1>6. made' = made
  BY <1>1, <1>3, <1>4, <1>5, OnlyItsRow
<1> QED
  BY <1>2, <1>6, LayerStepMaps DEF D!Step, made

\* The plan of a call, whether it has begun or not.
LEMMA PlanOf ==
  ASSUME TypeOK, PlansFit, NEW p \in Procs, OnFocus(p), op[p] # Idle
  PROVE  DOMAIN Plan(p) = 1 .. Len(Plan(p)) /\ Len(Plan(p)) \in Nat
<1>1. op[p] \in Call /\ op[p].spec = focus
  BY DEF TypeOK, LayerTypeOK, OnFocus
<1>2. focus \in DOMAIN Plans /\ op[p].verb \in Verbs
  BY <1>1, FocusAssumption DEF TypeOK, Call
<1>3. PlanFits(focus)
  BY <1>2 DEF PlansFit
<1>4. IsPlan(Plans[focus][op[p].verb])
  BY <1>2, <1>3 DEF PlanFits, CreateFits, UpdateFits, DeleteFits, BuildFits, Verbs
<1>5. IsPlan(Plan(p))
  BY <1>1, <1>4 DEF Plan
<1> QED
  BY <1>5, LenProperties DEF IsPlan

LEMMA LayerStepKeeps ==
  ASSUME DInv, PlansFit, D!Serial, NEW p \in Procs, LayerStep(p), focus' = focus, LayerTypeOK'
  PROVE  DInv'
<1>1. TypeOK /\ OnFocus(p) /\ Ahead(p)
  BY DEF DInv
<1>2. UNCHANGED <<at, objs, rels, live, box, up, held, focus>>
  BY DEF LayerStep, cluster
<1>3. Owned' /\ Whole' /\ NoneHeld'
  BY <1>2, ClusterStays
<1>4. \A q \in Procs : q = p
  BY DEF D!Serial
<1>5. op[p] # Idle
  BY <1>1, LayerMoves DEF LayerStep, TypeOK
<1>6. CASE op'[p] = Idle
  <2>1. TypeOK'
    BY <1>1, <1>2, <1>4, <1>6 DEF TypeOK
  <2>2. OnFocus(p)'
    BY <1>6 DEF OnFocus, Idle
  <2>3. ~InPlan(p)'
    BY <1>6 DEF InPlan, Working, Idle
  <2>4. Ahead(p)'
    BY <1>6 DEF Ahead, Driving, Idle
  <2> QED
    BY <1>3, <2>1, <2>2, <2>3, <2>4, OutOfPlan
<1>7. CASE op'[p] # Idle
  <2>1. /\ op[p].pc \in {"require", "start", "mark"}
        /\ op'[p].pc \in {"start", "mark", "work"}
        /\ op'[p].verb = op[p].verb /\ op'[p].spec = op[p].spec
        /\ op'[p].existing = op[p].existing
    BY <1>1, <1>7, LayerMoves DEF LayerStep, TypeOK
  <2>2. Plan(p)' = Plan(p) /\ (Builds(p)' <=> Builds(p)) /\ at[p] = 1
    BY <1>1, <2>1 DEF Plan, Builds, OnFocus
  <2>3. TypeOK'
    BY <1>1, <1>2, <1>4, <1>5, <2>2 DEF TypeOK
  <2>4. OnFocus(p)'
    BY <1>1, <1>2, <1>5, <2>1, <2>2 DEF OnFocus
  <2>5. Ahead(p)'
    <3>1. Driving(p) /\ Due(p) /\ Rising(p)
      BY <1>1, <2>1, <2>2 DEF Driving, Ahead
    <3>2. Due(p)'
      BY <1>2, <2>1, <2>2, <3>1 DEF Due
    <3>3. Rising(p)'
      BY <1>2, <2>1, <2>2, <3>1 DEF Rising
    <3> QED
      BY <3>2, <3>3 DEF Ahead
  <2>6. CASE op'[p].pc # "work"
    <3>1. ~InPlan(p)'
      BY <2>1, <2>6 DEF InPlan, Working
    <3> QED
      BY <1>3, <2>3, <2>4, <2>5, <3>1, OutOfPlan
  <2>7. CASE op'[p].pc = "work"
    <3>1. ~\E i \in DOMAIN Plan(p)' : i < at'[p]
      <4>1. DOMAIN Plan(p) = 1 .. Len(Plan(p))
        BY <1>1, <1>5, PlanOf
      <4> QED
        BY <1>2, <2>2, <4>1
    <3>2. Behind(p)' /\ Touched(p)' /\ Holds(p)'
      BY <2>7, <3>1 DEF Behind, Touched, Holds, Asked
    <3> QED
      BY <1>3, <1>4, <2>3, <2>4, <2>5, <3>2 DEF DInv
  <2> QED
    BY <2>6, <2>7
<1> QED
  BY <1>6, <1>7
-------------------------------------------------------------------------------
(* A verb is called.                                                       *)

LEMMA PlanStartsAtOne ==
  ASSUME NEW plan, IsPlan(plan), NEW st \in Steps(plan)
  PROVE  \E i \in DOMAIN plan : i >= 1 /\ plan[i] = st
<1>1. DOMAIN plan = 1 .. Len(plan) /\ Len(plan) \in Nat
  BY LenProperties DEF IsPlan
<1>2. PICK i \in DOMAIN plan : plan[i] = st
  BY DEF Steps
<1>3. i >= 1
  BY <1>1
<1> QED
  BY <1>2, <1>3

LEMMA CallKeeps ==
  ASSUME DInv, PlansFit, D!Serial, NEW p \in Procs, CallVerb(p), focus' = focus, LayerTypeOK',
         rows[NameOf[focus]].status = "provisioned" => Stands
  PROVE  DInv'
<1> DEFINE plan == Plans[focus][op'[p].verb]
<1>1. /\ TypeOK /\ LayerTypeOK /\ focus \in DOMAIN Plans
      /\ UNCHANGED <<objs, rels, live, box, up, held, focus>>
  BY FocusAssumption DEF DInv, TypeOK, CallVerb, cluster
<1>2. at' \in [Procs -> Nat] /\ at'[p] = 1
  BY <1>1 DEF CallVerb, TypeOK
<1>3. /\ op'[p].spec = focus /\ op'[p].existing = rows[NameOf[focus]].status
      /\ op'[p].pc \in {"require", "mark"} /\ op'[p].verb \in Verbs
  BY <1>1 DEF CallVerb, CallCreate, CallDelete, CallUpdate, Begin, LayerTypeOK, Verbs
<1>4. Plan(p)' = plan
  BY <1>1, <1>3 DEF Plan
<1>5. PlanFits(focus)
  BY <1>1 DEF PlansFit
<1>6. IsPlan(plan) /\ Len(plan) \in Nat
  <2>1. IsPlan(plan)
    BY <1>3, <1>5 DEF PlanFits, CreateFits, UpdateFits, DeleteFits, BuildFits, Verbs
  <2> QED
    BY <2>1, LenProperties DEF IsPlan
<1>7. TypeOK'
  <2>1. at'[p] <= Len(Plan(p)') + 1
    BY <1>2, <1>4, <1>6
  <2>2. \A q \in Procs : q = p
    BY DEF D!Serial
  <2> QED
    BY <1>1, <1>2, <2>1, <2>2 DEF TypeOK
<1>8. OnFocus(p)'
  BY <1>1, <1>2, <1>3 DEF OnFocus
<1>9. ~InPlan(p)'
  BY <1>3 DEF InPlan, Working
<1>10. Ahead(p)'
  <2>1. ASSUME NEW o \in Promised(focus), op'[p].verb = "create"
        PROVE  \E i \in DOMAIN plan : i >= 1 /\ Brings(plan[i], o)
    <3>1. PICK st \in Steps(plan) : Brings(st, o)
      BY <1>5, <2>1 DEF PlanFits, CreateFits
    <3> QED
      BY <1>6, <3>1, PlanStartsAtOne
  <2>2. ASSUME NEW o \in Removable(focus), op'[p].verb = "delete"
        PROVE  \E i \in DOMAIN plan : i >= 1 /\ Takes(plan[i], o)
    <3>1. PICK st \in Steps(plan) : Takes(st, o)
      BY <1>5, <2>2 DEF PlanFits, DeleteFits
    <3> QED
      BY <1>6, <3>1, PlanStartsAtOne
  <2>3. ASSUME NEW o \in Promised(focus), op'[p].existing = "provisioned"
        PROVE  o \in objs
    BY <1>3, <2>3 DEF Stands
  <2>4. ASSUME NEW o \in Awaited(focus), op'[p].verb = "create"
        PROVE  \E i \in DOMAIN plan : i >= 1 /\ Waits(plan[i], o)
    <3>1. PICK st \in Steps(plan) : Waits(st, o)
      BY <2>4 DEF Awaited, Waits
    <3> QED
      BY <1>6, <3>1, PlanStartsAtOne
  <2>5. op'[p].existing = "provisioned" /\ ~TakenAsFound(focus) => Awaited(focus) \subseteq up
    BY <1>3 DEF Stands
  <2> HIDE DEF plan
  <2>6. Due(p)'
    BY <1>1, <1>2, <1>4, <2>1, <2>2, <2>3 DEF Due, Builds
  <2>7. Rising(p)'
    BY <1>1, <1>2, <1>4, <2>4, <2>5 DEF Rising, Builds
  <2> QED
    BY <2>6, <2>7 DEF Ahead
<1>11. Owned' /\ Whole' /\ NoneHeld'
  BY <1>1, ClusterStays
<1> QED
  BY <1>7, <1>8, <1>9, <1>10, <1>11, OutOfPlan

-------------------------------------------------------------------------------
(* Nothing happens, or the admin pod's day is over.                        *)
LEMMA BoxKeeps ==
  ASSUME DInv, UNCHANGED <<layer, focus, at, objs, rels, live, up, held>>,
         box' \in {"none", "running", "completed"}
  PROVE  DInv' /\ made' = made
<1>1. UNCHANGED <<rows, op, calls>>
  BY DEF layer
<1>2. TypeOK'
  BY <1>1 DEF DInv, TypeOK, LayerTypeOK, Plan
<1>3. ASSUME NEW p \in Procs PROVE OnFocus(p)' /\ Ahead(p)' /\ Behind(p)' /\ Touched(p)' /\ Holds(p)'
  <2>1. OnFocus(p) /\ Ahead(p) /\ Behind(p) /\ Touched(p) /\ Holds(p)
    BY DEF DInv
  <2>2. /\ Plan(p)' = Plan(p) /\ (InPlan(p)' <=> InPlan(p)) /\ (Builds(p)' <=> Builds(p))
        /\ (Driving(p)' <=> Driving(p))
    BY <1>1 DEF Plan, InPlan, Working, Builds, Driving
  <2>3. OnFocus(p)'
    BY <1>1, <2>1 DEF OnFocus
  <2>4. Ahead(p)'
    <3>1. Due(p) => Due(p)'
      BY <1>1, <2>2 DEF Due
    <3>2. Rising(p) => Rising(p)'
      BY <1>1, <2>2 DEF Rising
    <3> QED
      BY <2>1, <2>2, <3>1, <3>2 DEF Ahead
  <2>5. Behind(p)'
    BY <1>1, <2>1, <2>2 DEF Behind
  <2>6. Touched(p)'
    BY <1>1, <2>1, <2>2 DEF Touched
  <2>7. Holds(p)'
    BY <1>1, <2>1, <2>2 DEF Holds, Asked
  <2> QED
    BY <2>3, <2>4, <2>5, <2>6, <2>7
<1>4. Owned' /\ Whole' /\ NoneHeld'
  BY ClusterStays
<1>5. made' = made
  BY <1>1, SameMade
<1> QED
  BY <1>2, <1>3, <1>4, <1>5 DEF DInv

-------------------------------------------------------------------------------
(* The beginning.                                                          *)
LEMMA InitKeeps ==
  ASSUME Init, PlansFit PROVE DInv /\ D!Init
<1>1. focus \in Focus /\ focus \in DOMAIN Plans /\ focus \in Specs
  BY FocusAssumption DEF Init
<1>2. PlanFits(focus)
  BY <1>1 DEF PlansFit
<1>3. Promised(focus) \subseteq AllObjects /\ Promised(focus) # {}
  BY <1>2 DEF PlanFits, CreateFits, Removable
<1>4. LayerTypeOK
  <2>1. rows \in [Names -> Row \cup {NoRow}]
    BY FoundAssumption DEF Init, LayerInit, Row, DeploymentStatus
  <2> QED
    BY <2>1, MaxCallsIsNat DEF Init, LayerInit, LayerTypeOK, Idle
<1>5. \A p \in Procs : op[p] = Idle
  BY DEF Init, LayerInit
<1>6. TypeOK
  <2>1. objs \subseteq AllObjects
    BY <1>3 DEF Init
  <2>2. rels \in [AllReleases -> {"none", "deployed", "failed", "pending"}]
    BY DEF Init
  <2>3. at \in [Procs -> Nat] /\ live \in 0 .. MaxCalls /\ held \in 0 .. MaxCalls
    BY MaxCallsIsNat DEF Init
  <2>4. box \in {"none", "running", "completed"}
    BY DEF Init
  <2>5. up \subseteq objs
    BY DEF Init, Awaited
  <2> QED
    BY <1>1, <1>4, <1>5, <2>1, <2>2, <2>3, <2>4, <2>5 DEF TypeOK
<1>7. ASSUME NEW p \in Procs PROVE OnFocus(p) /\ Ahead(p) /\ Behind(p) /\ Touched(p) /\ Holds(p)
  <2>1. op[p] = Idle /\ op[p].pc = "idle"
    BY <1>5 DEF Idle
  <2>2. ~InPlan(p) /\ ~Driving(p)
    BY <2>1 DEF InPlan, Working, Driving
  <2> QED
    BY <2>1, <2>2 DEF OnFocus, Ahead, Behind, Touched, Holds, Asked
<1>8. D!Init
  <2>1. ASSUME NEW s \in Specs
        PROVE  Made(s) = IF RecordedProvisioned(s) THEN "present" ELSE "absent"
    <3>1. CASE s # focus
      BY <3>1 DEF Made
    <3>2. CASE s = focus
      BY <1>3, <3>2 DEF Made, Stands, Init
    <3> QED
      BY <3>1, <3>2
  <2>2. [s \in Specs |-> Made(s)] =
           [s \in Specs |-> IF D!RecordedProvisioned(s) THEN "present" ELSE "absent"]
    BY <2>1 DEF RecordedProvisioned, D!RecordedProvisioned
  <2> QED
    BY <2>2 DEF D!Init, Init, LayerInit, D!LayerInit, Idle, D!Idle
<1>9. CASE RecordedProvisioned(focus)
  <2>1. objs = Promised(focus)
    BY <1>9 DEF Init
  <2>2. \A r \in Releases(focus) : rels[r] = "deployed"
    BY <1>1, <1>9, KnownReleases DEF Init
  <2>3. Owned
    BY <2>2 DEF Owned
  <2>4. Whole
    BY <2>1 DEF Whole, PlansFit, PostgresFits, CnpgFits
  <2>5. NoneHeld
    BY <2>1, <2>2 DEF NoneHeld, PlansFit, KeepersFit
  <2> QED
    BY <1>6, <1>7, <1>8, <2>3, <2>4, <2>5 DEF DInv
<1>10. CASE ~RecordedProvisioned(focus)
  <2>1. objs = {} /\ \A r \in AllReleases : rels[r] = "none"
    BY <1>10 DEF Init
  <2>2. Owned /\ NoneHeld
    BY <2>1 DEF Owned, NoneHeld
  <2>3. focus = "cnpg" => "cnpg" \in AllReleases
    BY <1>1, KnownReleases DEF PlansFit, CnpgFits
  <2>4. Whole
    BY <2>1, <2>3 DEF Whole
  <2> QED
    BY <1>6, <1>7, <1>8, <2>2, <2>4 DEF DInv
<1> QED
  BY <1>9, <1>10
-------------------------------------------------------------------------------
(* The drivers implement Deployments.                                      *)

\* The conditions of the theorems: one process at a time, names of their own,
\* a release of the operator that is whole or is not there, and reads that
\* fail loudly where a driver decides by them.
Circumstances == /\ D!Serial /\ D!UniqueNames
              /\ "cnpg" \notin Killable
              /\ "postgres" \notin Misread /\ "kps" \notin Misread

LEMMA LayerOfP == P!IInv => LayerTypeOK
BY DEF P!IInv, P!TypeOK, P!LayerTypeOK, LayerTypeOK, P!Names, Names, P!Row, Row, P!NoRow, NoRow,
       P!DeploymentStatus, DeploymentStatus, P!Types, Types, P!Call, Call, P!Idle, Idle,
       P!Pcs, Pcs, P!Verbs, Verbs

\* A row that says provisioned is believed by the next update.
LEMMA RecordOfP ==
  ASSUME P!IInv, focus \in Specs, rows[NameOf[focus]].status = "provisioned"
  PROVE  Stands
<1>1. LayerTypeOK
  BY LayerOfP
<1>2. rows[NameOf[focus]] \in Row \cup {NoRow}
  BY <1>1, FoundAssumption DEF LayerTypeOK, Names
<1>3. rows[NameOf[focus]] # NoRow
  BY DEF NoRow
<1>4. rows[NameOf[focus]].type = TypeOf[focus]
  BY <1>3 DEF P!IInv, P!RowsOwned, P!NoRow, NoRow
<1>5. P!RecordedProvisioned(focus)
  BY <1>2, <1>3, <1>4 DEF P!RecordedProvisioned, Row
<1>6. [s \in Specs |-> Made(s)][focus] = "present"
  BY <1>5 DEF P!IInv, P!ProvisionedIsPresent
<1>7. Made(focus) = "present"
  BY <1>6
<1> QED
  BY <1>7 DEF Made

\* Every step of a driver is a step of Deployments, or one it does not see,
\* and keeps the invariant if it leaves the record typed.
LEMMA DriverStepMaps ==
  ASSUME DInv, PlansFit, Circumstances, NEW p \in Procs, DriverStep(p), focus' = focus
  PROVE  DInv' /\ (D!Step(p) \/ UNCHANGED D!vars)
<1> USE DEF Circumstances
<1>1. D!Work(p) \/ D!WorkDone(p) \/ D!WorkRaises(p) \/ D!WorkRefused(p) => D!Step(p)
  BY DEF D!Step
<1>2. UNCHANGED <<layer, objs, up>> => UNCHANGED D!vars
  <2> SUFFICES ASSUME UNCHANGED <<layer, objs, up>> PROVE UNCHANGED D!vars
    OBVIOUS
  <2>1. made' = made /\ UNCHANGED <<rows, op, calls>>
    BY SameMade DEF layer
  <2> QED
    BY <2>1 DEF D!vars, D!layer, made
<1>3. CASE Look(p)
  BY <1>2, <1>3, LookKeeps DEF Look, cluster
<1>4. CASE ReturnEarly(p)
  BY <1>2, <1>4, ReturnEarlyKeeps DEF ReturnEarly, cluster
<1>5. CASE HelmInstall(p)
  BY <1>1, <1>5, HelmInstallKeeps
<1>6. CASE HelmUninstall(p)
  BY <1>1, <1>6, HelmUninstallKeeps
<1>7. CASE HelmDies(p)
  BY <1>1, <1>7, HelmDiesKeeps
<1>8. CASE KubectlApply(p)
  BY <1>1, <1>8, KubectlApplyKeeps
<1>9. CASE KubectlDelete(p)
  BY <1>1, <1>9, KubectlDeleteKeeps
<1>10. CASE KubectlFailsQuietly(p)
  BY <1>2, <1>10, FailsQuietlyKeeps DEF KubectlFailsQuietly, cluster
<1>11. CASE PodApplied(p)
  BY <1>1, <1>11, PodAppliedKeeps
<1>12. CASE ReadBack(p)
  BY <1>2, <1>12, ReadBackKeeps DEF ReadBack, cluster
<1>13. CASE Generate(p)
  BY <1>2, <1>13, GenerateKeeps DEF Generate, cluster
<1>14. CASE Fail(p)
  BY <1>2, <1>14, FailKeeps DEF Fail, cluster
<1>15. CASE Raise(p)
  BY <1>1, <1>15, RaiseKeeps
<1>16. CASE Refused(p)
  BY <1>1, <1>16, RefusedKeeps
<1>17. CASE Finish(p)
  BY <1>1, <1>17, FinishKeeps
<1>18. CASE ComesUp(p)
  BY <1>1, <1>18, ComesUpKeeps
<1> QED
  BY <1>3, <1>4, <1>5, <1>6, <1>7, <1>8, <1>9, <1>10, <1>11, <1>12, <1>13, <1>14, <1>15, <1>16, <1>17,
     <1>18 DEF DriverStep

LEMMA CallMaps ==
  ASSUME DInv, NEW p \in Procs, CallVerb(p), focus' = focus PROVE D!Step(p)
<1>1. focus \in Specs
  BY FocusAssumption DEF DInv, TypeOK
<1>2. D!CallCreate(p, focus) \/ D!CallDelete(p, focus) \/ D!CallUpdate(p, focus)
  BY LayerStepMaps DEF CallVerb
<1>3. UNCHANGED <<rows, objs, up, focus>>
  BY DEF CallVerb, CallCreate, CallDelete, CallUpdate, Begin, cluster
<1>4. made' = made
  BY <1>3, SameMade
<1> QED
  BY <1>1, <1>2, <1>4 DEF D!Step, made

LEMMA StepMaps ==
  ASSUME DInv, PlansFit, Circumstances, [Next]_vars PROVE [D!Next]_D!vars
<1>1. CASE PodCompletes \/ UNCHANGED vars
  <2>1. UNCHANGED <<layer, focus, at, objs, rels, live, up, held>>
        /\ box' \in {"none", "running", "completed"}
    BY <1>1 DEF PodCompletes, vars, cluster, DInv, TypeOK
  <2>2. made' = made /\ UNCHANGED <<rows, op, calls>>
    BY <2>1, BoxKeeps DEF layer
  <2> QED
    BY <2>2 DEF D!vars, D!layer, made
<1>2. ASSUME NEW p \in Procs, CallVerb(p) \/ LayerStep(p) \/ DriverStep(p), UNCHANGED focus
      PROVE  [D!Next]_D!vars
  <2>1. D!Step(p) \/ UNCHANGED D!vars
    BY <1>2, CallMaps, LayerStepIsStep, DriverStepMaps DEF Circumstances
  <2> QED
    BY <2>1 DEF D!Next
<1> QED
  BY <1>1, <1>2 DEF Next

\* Both invariants are kept together: the driver's plan relies on what the
\* row said when it began, the row on what the plan left.
LEMMA BothKept ==
  ASSUME DInv, P!IInv, PlansFit, Circumstances, [Next]_vars PROVE DInv' /\ P!IInv'
<1>1. P!IInv'
  <2>1. [P!Next]_P!vars
    <3>1. [D!Next]_D!vars
      BY StepMaps
    <3> QED
      BY <3>1, SameNext, Zenon
  <2>2. P!Serial /\ P!UniqueNames
    BY SameConditions DEF Circumstances
  <2> QED
    BY <2>1, <2>2, Assumed, P!NextIInv, Zenon
<1>2. LayerTypeOK'
  BY <1>1, LayerOfP, PTL
<1>3. focus \in Specs
  BY FocusAssumption DEF DInv, TypeOK
<1>4. CASE PodCompletes \/ UNCHANGED vars
  <2>1. UNCHANGED <<layer, focus, at, objs, rels, live, up, held>>
        /\ box' \in {"none", "running", "completed"}
    BY <1>4 DEF PodCompletes, vars, cluster, DInv, TypeOK
  <2> QED
    BY <1>1, <2>1, BoxKeeps
<1>5. ASSUME NEW p \in Procs, CallVerb(p) \/ LayerStep(p) \/ DriverStep(p), UNCHANGED focus
      PROVE  DInv'
  <2>1. CASE CallVerb(p)
    BY <1>2, <1>3, <1>5, <2>1, RecordOfP, CallKeeps DEF Circumstances
  <2>2. CASE LayerStep(p)
    BY <1>2, <1>5, <2>2, LayerStepKeeps DEF Circumstances
  <2>3. CASE DriverStep(p)
    BY <1>5, <2>3, DriverStepMaps
  <2> QED
    BY <1>5, <2>1, <2>2, <2>3
<1> QED
  BY <1>1, <1>4, <1>5 DEF Next

LEMMA BothBegin ==
  ASSUME Init, PlansFit PROVE DInv /\ P!IInv /\ D!Init
<1>1. DInv /\ D!Init
  BY InitKeeps
<1>2. P!IInv
  BY <1>1, SameInit, Assumed, P!InitIInv
<1> QED
  BY <1>1, <1>2

\* Live credentials change only with a release that took up those it was given
\* while there were none, or that read them back.
LEMMA CredentialsStep ==
  ASSUME DInv, PlansFit, Circumstances, [Next]_vars,
         {"credentials"} \subseteq objs, {"credentials"} \subseteq objs'
  PROVE  live' = live
<1>1. "credentials" \in objs
  OBVIOUS
<1>2. ASSUME NEW p \in Procs, HelmInstall(p) \/ HelmDies(p)
      PROVE  live' = live
  <2> DEFINE st == Plan(p)[at[p]]
  <2>1. InPlan(p) /\ Working(p) /\ at[p] \in DOMAIN Plan(p)
    BY <1>2 DEF HelmInstall, HelmDies, Doing, InPlan
  <2>2. TypeOK /\ OnFocus(p) /\ Holds(p)
    BY DEF DInv
  <2>3. \/ live' = live
        \/ live' = held /\ st.do \in {"install", "install_once"} /\ "credentials" \in st.gives
    BY <1>2 DEF HelmInstall, HelmDies, Doing, Gives
  <2>4. ASSUME st.do \in {"install", "install_once"}, "credentials" \in st.gives
        PROVE  held = live
    <3>1. Careful(focus, Plan(p))
      BY <2>1, <2>2, AtWork
    <3>2. Remakes(st)
      BY <2>4 DEF Remakes
    <3>3. PICK j \in DOMAIN Plan(p) : j < at[p] /\ Asks(Plan(p)[j])
      BY <2>1, <3>1, <3>2 DEF Careful
    <3>4. Asked(p)
      BY <2>1, <3>3 DEF Asked
    <3> QED
      BY <1>1, <2>2, <3>4 DEF Holds
  <2> QED
    BY <2>3, <2>4
<1>3. ASSUME NEW p \in Procs, CallVerb(p) \/ LayerStep(p) \/ DriverStep(p)
      PROVE  live' = live
  BY <1>2, <1>3 DEF CallVerb, LayerStep, DriverStep, cluster, Look, ReturnEarly, HelmUninstall,
     KubectlApply, KubectlDelete, KubectlFailsQuietly, ComesUp, PodApplied, ReadBack, Generate, Fail, Raise,
     Refused, Finish
<1>4. PodCompletes \/ UNCHANGED vars => live' = live
  BY DEF PodCompletes, vars, cluster
<1> QED
  BY <1>3, <1>4 DEF Next
-------------------------------------------------------------------------------
(* The table of plans is fit: sequences of steps.                          *)

LEMMA Join ==
  ASSUME NEW p, NEW q, IsPlan(p), IsPlan(q)
  PROVE  /\ IsPlan(p \o q) /\ Steps(p \o q) = Steps(p) \cup Steps(q)
         /\ Len(p \o q) = Len(p) + Len(q)
<1> DEFINE S == Steps(p) \cup Steps(q)
<1>1. p \in Seq(S) /\ q \in Seq(S)
  BY SeqMonotonic DEF IsPlan
<1>2. /\ p \o q \in Seq(S) /\ Len(p \o q) = Len(p) + Len(q)
      /\ \A i \in 1 .. Len(p) + Len(q) : (p \o q)[i] = IF i <= Len(p) THEN p[i] ELSE q[i - Len(p)]
  BY <1>1, ConcatProperties
<1>3. /\ DOMAIN p = 1..Len(p) /\ DOMAIN q = 1..Len(q) /\ Len(p) \in Nat /\ Len(q) \in Nat
      /\ DOMAIN (p \o q) = 1..(Len(p) + Len(q))
  BY <1>1, <1>2, LenProperties
<1>4. Steps(p \o q) \subseteq S
  BY <1>2, <1>3 DEF Steps
<1>5. ASSUME NEW i \in DOMAIN p PROVE p[i] \in Steps(p \o q)
  BY <1>2, <1>3 DEF Steps
<1>6. ASSUME NEW i \in DOMAIN q PROVE q[i] \in Steps(p \o q)
  <2>1. i + Len(p) \in DOMAIN (p \o q) /\ (p \o q)[i + Len(p)] = q[i]
    BY <1>2, <1>3
  <2> QED
    BY <2>1 DEF Steps
<1>7. Steps(p \o q) = S
  BY <1>4, <1>5, <1>6 DEF Steps
<1> QED
  BY <1>2, <1>7 DEF IsPlan

LEMMA Fields ==
  ASSUME NEW x, NEW g
  PROVE  /\ Check(x).do = "check" /\ Need(x).do = "need" /\ NeedRelease(x).do = "need_release"
         /\ DoneIf(x).do = "done_if" /\ DoneIfRelease(x, g).do = "done_if_release"
         /\ Install(x, g).do = "install" /\ ClearFailed(x, g).do = "clear_failed"
         /\ InstallOnce(x, g).do = "install_once" /\ Uninstall(x, g).do = "uninstall"
         /\ UninstallIfAny(x, g).do = "uninstall_if_any" /\ Apply(x).do = "apply"
         /\ Await(x).do = "await" /\ Delete(x).do = "delete"
         /\ DeleteQuietly(x).do = "delete_quietly" /\ DeleteIfFound(x).do = "delete_if_found"
         /\ Adopt(x).do = "adopt" /\ AdoptOrGenerate(x).do = "adopt_or_generate"
         /\ Refuse(x).do = "refuse"
         /\ DoneIf(x).on = x /\ DoneIfRelease(x, g).on = x /\ Install(x, g).on = x
         /\ ClearFailed(x, g).on = x /\ InstallOnce(x, g).on = x /\ Uninstall(x, g).on = x
         /\ UninstallIfAny(x, g).on = x /\ Apply(x).on = x /\ Delete(x).on = x
         /\ DeleteQuietly(x).on = x /\ DeleteIfFound(x).on = x /\ Adopt(x).on = x
         /\ AdoptOrGenerate(x).on = x /\ Refuse(x).on = x /\ Await(x).on = x
         /\ Install(x, g).gives = g /\ ClearFailed(x, g).gives = g /\ InstallOnce(x, g).gives = g
         /\ Uninstall(x, g).gives = g /\ UninstallIfAny(x, g).gives = g
BY DEF Do, Check, Need, NeedRelease, DoneIf, Await, Refuse, Delete, DeleteQuietly, DeleteIfFound,
       Apply, DoneIfRelease, Install, InstallOnce, ClearFailed, Uninstall, UninstallIfAny,
       Adopt, AdoptOrGenerate

\* A plan whose steps, but for checks, are those of E.
Has(plan, E) ==
  IsPlan(plan) /\ E \subseteq Steps(plan) /\ \A st \in Steps(plan) : st.do = "check" \/ st \in E

LEMMA HasTuple ==
  ASSUME NEW a, NEW b, NEW c, NEW d, NEW e
  PROVE  /\ Has(<< >>, {}) /\ Has(<<a>>, {a}) /\ Has(<<a, b>>, {a, b})
         /\ Has(<<a, b, c>>, {a, b, c}) /\ Has(<<a, b, c, d>>, {a, b, c, d})
         /\ Has(<<a, b, c, d, e>>, {a, b, c, d, e})
<1>1. \A plan, E : IsPlan(plan) /\ Steps(plan) = E => Has(plan, E)
  BY DEF Has
<1>2. Has(<< >>, {})
  <2>1. Steps(<< >>) = {}
    BY DEF Steps
  <2>2. IsPlan(<< >>)
    BY <2>1 DEF IsPlan
  <2> QED
    BY <1>1, <2>1, <2>2, Zenon
<1>3. Has(<<a>>, {a})
  <2>1. Steps(<<a>>) = {a}
    BY DEF Steps
  <2>2. IsPlan(<<a>>)
    BY <2>1 DEF IsPlan
  <2> QED
    BY <1>1, <2>1, <2>2, Zenon
<1>4. Has(<<a, b>>, {a, b})
  <2>1. Steps(<<a, b>>) = {a, b}
    BY DEF Steps
  <2>2. IsPlan(<<a, b>>)
    BY <2>1 DEF IsPlan
  <2> QED
    BY <1>1, <2>1, <2>2, Zenon
<1>5. Has(<<a, b, c>>, {a, b, c})
  <2>1. Steps(<<a, b, c>>) = {a, b, c}
    BY DEF Steps
  <2>2. IsPlan(<<a, b, c>>)
    BY <2>1 DEF IsPlan
  <2> QED
    BY <1>1, <2>1, <2>2, Zenon
<1>6. Has(<<a, b, c, d>>, {a, b, c, d})
  <2>1. Steps(<<a, b, c, d>>) = {a, b, c, d}
    BY DEF Steps
  <2>2. IsPlan(<<a, b, c, d>>)
    BY <2>1 DEF IsPlan
  <2> QED
    BY <1>1, <2>1, <2>2, Zenon
<1>7. Has(<<a, b, c, d, e>>, {a, b, c, d, e})
  <2>1. Steps(<<a, b, c, d, e>>) = {a, b, c, d, e}
    BY DEF Steps
  <2>2. IsPlan(<<a, b, c, d, e>>)
    BY <2>1 DEF IsPlan
  <2> QED
    BY <1>1, <2>1, <2>2, Zenon
<1> QED
  BY <1>2, <1>3, <1>4, <1>5, <1>6, <1>7

\* Checks need not be named,
LEMMA HasLess ==
  ASSUME NEW plan, NEW E, NEW F, Has(plan, E), F \subseteq E,
         \A st \in E : st.do = "check" \/ st \in F
  PROVE  Has(plan, F)
BY DEF Has

LEMMA HasChecks ==
  ASSUME NEW a, NEW b, NEW c, NEW d, NEW e
  PROVE  /\ Has(<<Check(a)>>, {}) /\ Has(<<Check(a), Check(b)>>, {})
         /\ Has(<<Check(a), Check(b), Check(c)>>, {})
         /\ Has(<<Check(a), Check(b), Check(c), Check(d)>>, {})
         /\ Has(<<Check(a), Check(b), Check(c), Check(d), Check(e)>>, {})
<1>1. \A plan, E : Has(plan, E) /\ (\A st \in E : st.do = "check") => Has(plan, {})
  BY DEF Has
<1>2. \A x : Check(x).do = "check"
  BY Fields
<1>3. Has(<<Check(a)>>, {})
  <2>1. Has(<<Check(a)>>, {Check(a)})
    BY HasTuple
  <2>2. \A st \in {Check(a)} : st.do = "check"
    BY <1>2
  <2> QED
    BY <1>1, <2>1, <2>2, Zenon
<1>4. Has(<<Check(a), Check(b)>>, {})
  <2>1. Has(<<Check(a), Check(b)>>, {Check(a), Check(b)})
    BY HasTuple
  <2>2. \A st \in {Check(a), Check(b)} : st.do = "check"
    BY <1>2
  <2> QED
    BY <1>1, <2>1, <2>2, Zenon
<1>5. Has(<<Check(a), Check(b), Check(c)>>, {})
  <2>1. Has(<<Check(a), Check(b), Check(c)>>, {Check(a), Check(b), Check(c)})
    BY HasTuple
  <2>2. \A st \in {Check(a), Check(b), Check(c)} : st.do = "check"
    BY <1>2
  <2> QED
    BY <1>1, <2>1, <2>2, Zenon
<1>6. Has(<<Check(a), Check(b), Check(c), Check(d)>>, {})
  <2>1. Has(<<Check(a), Check(b), Check(c), Check(d)>>, {Check(a), Check(b), Check(c), Check(d)})
    BY HasTuple
  <2>2. \A st \in {Check(a), Check(b), Check(c), Check(d)} : st.do = "check"
    BY <1>2
  <2> QED
    BY <1>1, <2>1, <2>2, Zenon
<1>7. Has(<<Check(a), Check(b), Check(c), Check(d), Check(e)>>, {})
  <2>1. Has(<<Check(a), Check(b), Check(c), Check(d), Check(e)>>, {Check(a), Check(b), Check(c), Check(d), Check(e)})
    BY HasTuple
  <2>2. \A st \in {Check(a), Check(b), Check(c), Check(d), Check(e)} : st.do = "check"
    BY <1>2
  <2> QED
    BY <1>1, <2>1, <2>2, Zenon
<1> QED
  BY <1>3, <1>4, <1>5, <1>6, <1>7

LEMMA OneCheck == \A a : Has(<<Check(a)>>, {})
BY HasChecks

\* and a sequence of two has the steps of both.
LEMMA HasJoin ==
  ASSUME NEW p, NEW q, NEW E, NEW F, Has(p, E), Has(q, F)
  PROVE  Has(p \o q, E \cup F)
BY Join DEF Has

LEMMA HasAfter == \A p, q, E : Has(p, {}) /\ Has(q, E) => Has(p \o q, E)
<1> SUFFICES ASSUME NEW p, NEW q, NEW E, Has(p, {}), Has(q, E) PROVE Has(p \o q, E)
  BY Zenon
<1>1. {} \cup E = E
  OBVIOUS
<1> QED
  BY <1>1, HasJoin

LEMMA HasBefore == \A p, q, E : Has(p, E) /\ Has(q, {}) => Has(p \o q, E)
<1> SUFFICES ASSUME NEW p, NEW q, NEW E, Has(p, E), Has(q, {}) PROVE Has(p \o q, E)
  BY Zenon
<1>1. E \cup {} = E
  OBVIOUS
<1> QED
  BY <1>1, HasJoin

\* The checks the plans begin with.
LEMMA Prefixes ==
  /\ Has(DriverFor, {}) /\ Has(DriverForStored, {}) /\ Has(ChartPrerequisites, {})
  /\ Has(BillingPrerequisites, {}) /\ Has(ControlPlanePrerequisites, {})
  /\ Has(NatsPrerequisites, {}) /\ Has(OperatorPrerequisites, {})
  /\ Has(ClusterPrerequisites, {}) /\ Has(MinIOPrerequisites, {})
  /\ Has(LonghornPrerequisites, {}) /\ Has(ValkeyPrerequisites, {})
  /\ Has(AcceleratorPrerequisites, {}) /\ Has(VLLMPrerequisites, {}) /\ Has(LlamaPrerequisites, {})
<1>1. Has(DriverFor, {}) /\ Has(ChartPrerequisites, {})
  BY HasChecks DEF DriverFor, ChartPrerequisites
<1>2. Has(DriverForStored, {})
  BY <1>1, HasChecks, HasAfter DEF DriverForStored
<1>3. Has(BillingPrerequisites, {}) /\ Has(ControlPlanePrerequisites, {}) /\ Has(AcceleratorPrerequisites, {})
  BY <1>1, HasChecks, HasAfter DEF BillingPrerequisites, ControlPlanePrerequisites, AcceleratorPrerequisites
<1>4. /\ Has(NatsPrerequisites, {}) /\ Has(OperatorPrerequisites, {}) /\ Has(ClusterPrerequisites, {})
      /\ Has(MinIOPrerequisites, {}) /\ Has(ValkeyPrerequisites, {})
  BY HasChecks DEF NatsPrerequisites, OperatorPrerequisites, ClusterPrerequisites,
     MinIOPrerequisites, ValkeyPrerequisites
<1>5. Has(LonghornPrerequisites, {})
  <2>1. Has(NodeChecks, {})
    BY HasChecks DEF NodeChecks
  <2>2. Has(<<Check("spec"), Check("helm"), Check("kubectl"), Check("cluster")>>, {})
    BY HasChecks
  <2> QED
    BY <2>1, <2>2, HasAfter, Zenon DEF LonghornPrerequisites
<1>6. Has(VLLMPrerequisites, {}) /\ Has(LlamaPrerequisites, {})
  BY HasChecks DEF VLLMPrerequisites, LlamaPrerequisites
<1> QED
  BY <1>1, <1>2, <1>3, <1>4, <1>5, <1>6

LEMMA TokenizerHas ==
  /\ Has(TokenizerCreate, {Install("tokenizer", {"tokenizer pods"})})
  /\ Has(TokenizerDelete, {UninstallIfAny("tokenizer", {"tokenizer pods"})})
BY Prefixes, HasTuple, HasAfter, Zenon DEF TokenizerCreate, TokenizerDelete, TokenizerPrerequisites

LEMMA EnricherHas ==
  /\ Has(EnricherCreate, {Install("enricher", {"enricher pods"})})
  /\ Has(EnricherDelete, {UninstallIfAny("enricher", {"enricher pods"})})
BY Prefixes, HasTuple, HasAfter, Zenon DEF EnricherCreate, EnricherDelete, EnricherPrerequisites

LEMMA BillingHas ==
  /\ Has(BillingCreate, {Install("billing", {"billing pods"})})
  /\ Has(BillingDelete, {UninstallIfAny("billing", {"billing pods"})})
BY Prefixes, HasTuple, HasAfter, Zenon DEF BillingCreate, BillingDelete

LEMMA ControlPlaneHas ==
  /\ Has(ControlPlaneCreate, {Install("control-plane", {"control plane pods"})})
  /\ Has(ControlPlaneDelete, {UninstallIfAny("control-plane", {"control plane pods"})})
BY Prefixes, HasTuple, HasAfter, Zenon DEF ControlPlaneCreate, ControlPlaneDelete

LEMMA PortalHas ==
  /\ Has(PortalCreate, {Install("portal", {"portal pods"})})
  /\ Has(PortalDelete, {UninstallIfAny("portal", {"portal pods"})})
BY Prefixes, HasTuple, HasAfter, Zenon DEF PortalCreate, PortalDelete, PortalPrerequisites

LEMMA GatewayHas ==
  /\ Has(GatewayCreate, {Install("gateway", {"gateway pods"})})
  /\ Has(GatewayDelete, {UninstallIfAny("gateway", {"gateway pods"})})
BY Prefixes, HasTuple, HasAfter, Zenon DEF GatewayCreate, GatewayDelete

LEMMA LimitersHave ==
  /\ Has(RPMCreate, {Install("rpm", {"rpm pods"})})
  /\ Has(RPMDelete, {UninstallIfAny("rpm", {"rpm pods"})})
  /\ Has(TPMCreate, {Install("tpm", {"tpm pods"})})
  /\ Has(TPMDelete, {UninstallIfAny("tpm", {"tpm pods"})})
BY Prefixes, HasTuple, HasAfter, Zenon DEF RPMCreate, RPMDelete, TPMCreate, TPMDelete

LEMMA AcceleratorHas ==
  /\ Has(AcceleratorCreate, {Install("device-plugin", {"device plugin"})})
  /\ Has(AcceleratorDelete, {UninstallIfAny("device-plugin", {"device plugin"})})
<1> DEFINE i == Install("device-plugin", {"device plugin"})
           c == Check("desired pods")
<1>1. Has(<<i, c>>, {i})
  <2>1. Has(<<i, c>>, {i, c}) /\ c.do = "check"
    BY HasTuple, Fields
  <2> HIDE DEF i, c
  <2>2. {i} \subseteq {i, c} /\ \A st \in {i, c} : st.do = "check" \/ st \in {i}
    BY <2>1
  <2> QED
    BY <2>1, <2>2, HasLess
<1>2. Has(AcceleratorCreate, {i})
  BY <1>1, Prefixes, HasAfter, Zenon DEF AcceleratorCreate
<1>3. Has(AcceleratorDelete, {UninstallIfAny("device-plugin", {"device plugin"})})
  BY Prefixes, HasTuple, HasAfter, Zenon DEF AcceleratorDelete
<1> QED
  BY <1>2, <1>3

LEMMA LonghornHas ==
  /\ Has(LonghornCreate, {Install("longhorn", LonghornObjects)} \cup {Need("storage class")})
  /\ Has(LonghornDelete, {Uninstall("longhorn", LonghornObjects)})
<1> DEFINE u == Uninstall("longhorn", LonghornObjects)
           c == Check("spec")
           d == Check("helm")
<1>1. Has(<<c, d, u>>, {u})
  <2>1. Has(<<c, d, u>>, {c, d, u}) /\ c.do = "check" /\ d.do = "check"
    BY HasTuple, Fields
  <2> HIDE DEF u, c, d
  <2>2. {u} \subseteq {c, d, u} /\ \A st \in {c, d, u} : st.do = "check" \/ st \in {u}
    BY <2>1
  <2> QED
    BY <2>1, <2>2, HasLess
<1>2. Has(LonghornDelete, {u})
  BY <1>1, Prefixes, HasAfter, Zenon DEF LonghornDelete
<1>3. Has(DriverFor \o LonghornPrerequisites \o <<Install("longhorn", LonghornObjects)>>,
          {Install("longhorn", LonghornObjects)})
  BY Prefixes, HasTuple, HasAfter, Zenon
<1>4. Has(VerifyStorageClass, {Need("storage class")})
  BY HasTuple, Zenon DEF VerifyStorageClass
<1> QED
  BY <1>2, <1>3, <1>4, HasJoin, Zenon DEF LonghornCreate

LEMMA RoutesHave ==
  /\ Has(HTTPRouteCreate, {Apply("parent"), Apply("route")})
  /\ Has(HTTPRouteDelete, {Delete("route")})
  /\ Has(VirtualServiceCreate, {Apply("parent"), Apply("route")})
  /\ Has(VirtualServiceDelete, {Delete("route")})
<1> DEFINE c == Check("kubectl")
           a == Apply("parent")
           b == Apply("route")
<1>1. Has(<<c, a, b>>, {a, b})
  <2>1. Has(<<c, a, b>>, {c, a, b}) /\ c.do = "check"
    BY HasTuple, Fields
  <2> HIDE DEF a, b, c
  <2>2. {a, b} \subseteq {c, a, b} /\ \A st \in {c, a, b} : st.do = "check" \/ st \in {a, b}
    BY <2>1
  <2> QED
    BY <2>1, <2>2, HasLess
<1> QED
  BY <1>1, Prefixes, HasTuple, HasAfter, Zenon
     DEF HTTPRouteCreate, HTTPRouteDelete, VirtualServiceCreate, VirtualServiceDelete

LEMMA VLLMHas ==
  /\ Has(VLLMCreate, {Apply("namespace"), Apply("deployment"), Apply("service"),
                      Apply("model network policy"), Apply("service monitor")}
                     \cup {Await("deployment")})
  /\ Has(VLLMDelete, {Delete("deployment"), Delete("service")})
<1> DEFINE c == Check("spec")
           k == Check("kubectl")
           d == Delete("deployment")
           e == Delete("service")
<1>1. Has(<<c, k, d, e>>, {d, e})
  <2>1. Has(<<c, k, d, e>>, {c, k, d, e}) /\ c.do = "check" /\ k.do = "check"
    BY HasTuple, Fields
  <2> HIDE DEF c, k, d, e
  <2>2. {d, e} \subseteq {c, k, d, e} /\ \A st \in {c, k, d, e} : st.do = "check" \/ st \in {d, e}
    BY <2>1
  <2> QED
    BY <2>1, <2>2, HasLess
<1>2. Has(VLLMDelete, {d, e})
  BY <1>1, Prefixes, HasAfter, Zenon DEF VLLMDelete
<1>3. Has(VLLMManifests, {Apply("namespace"), Apply("deployment"), Apply("service"),
                          Apply("model network policy"), Apply("service monitor")})
  BY HasTuple DEF VLLMManifests
<1>4. Has(DriverFor \o <<Check("spec")>> \o VLLMPrerequisites, {})
  <2>1. Has(<<Check("spec")>>, {})
    BY OneCheck
  <2>2. Has(DriverFor \o <<Check("spec")>>, {})
    BY <2>1, Prefixes, HasAfter, Zenon
  <2> QED
    BY <2>2, Prefixes, HasAfter, Zenon
<1>5. Has(<<Await("deployment")>>, {Await("deployment")})
  BY HasTuple, Zenon
<1>6. Has(DriverFor \o <<Check("spec")>> \o VLLMPrerequisites \o VLLMManifests,
          {Apply("namespace"), Apply("deployment"), Apply("service"),
           Apply("model network policy"), Apply("service monitor")})
  BY <1>3, <1>4, HasAfter, Zenon
<1> QED
  BY <1>2, <1>5, <1>6, HasJoin, Zenon DEF VLLMCreate

LEMMA LlamaHas ==
  /\ Has(LlamaCreate, {Apply("namespace"), Apply("deployment"), Apply("service")}
                      \cup {Await("deployment")})
  /\ Has(LlamaDelete, {Delete("service"), Delete("deployment")})
<1>1. Has(LlamaManifests, {Apply("namespace"), Apply("deployment"), Apply("service")})
  BY HasTuple, Zenon DEF LlamaManifests
<1>2. Has(<<Await("deployment")>>, {Await("deployment")})
  BY HasTuple, Zenon
<1>3. Has(LlamaDelete, {Delete("service"), Delete("deployment")})
  BY Prefixes, HasTuple, HasAfter, Zenon DEF LlamaDelete
<1>4. Has(DriverFor \o LlamaPrerequisites \o LlamaManifests,
          {Apply("namespace"), Apply("deployment"), Apply("service")})
  <2>1. Has(DriverFor \o LlamaPrerequisites, {})
    BY Prefixes, HasAfter, Zenon
  <2> QED
    BY <1>1, <2>1, HasAfter, Zenon
<1> QED
  BY <1>2, <1>3, <1>4, HasJoin, Zenon DEF LlamaCreate

LEMMA NatsHas ==
  /\ Has(QueueCreate, ({ClearFailed("nats", NatsObjects), Install("nats", {"nats pods"})})
           \cup ((({Do("pod", "nats-box", {})} \cup {Apply("GATEWAY_EVENTS")})
                  \cup {Do("pod", "nats-box", {})}) \cup {Apply("GATEWAY_EVENTS_ENRICHED")}))
  /\ Has(QueueDelete, {UninstallIfAny("nats", NatsObjects)})
<1> DEFINE c == Check("spec")
           u == UninstallIfAny("nats", NatsObjects)
<1>1. Has(<<c, u>>, {u})
  <2>1. Has(<<c, u>>, {c, u}) /\ c.do = "check"
    BY HasTuple, Fields
  <2> HIDE DEF c, u
  <2>2. {u} \subseteq {c, u} /\ \A st \in {c, u} : st.do = "check" \/ st \in {u}
    BY <2>1
  <2> QED
    BY <2>1, <2>2, HasLess
<1>2. Has(QueueDelete, {u})
  BY <1>1, Prefixes, HasAfter, Zenon DEF QueueDelete, NatsDelete
<1>3. Has(NatsInstall, {ClearFailed("nats", NatsObjects), Install("nats", {"nats pods"})})
  BY Prefixes, HasTuple, HasAfter, Zenon DEF NatsInstall
<1>4. Has(NatsAdminEnsure, {Do("pod", "nats-box", {})})
  BY HasTuple, Zenon DEF NatsAdminEnsure
<1>5. /\ Has(<<Apply("GATEWAY_EVENTS")>>, {Apply("GATEWAY_EVENTS")})
      /\ Has(<<Apply("GATEWAY_EVENTS_ENRICHED")>>, {Apply("GATEWAY_EVENTS_ENRICHED")})
  BY HasTuple, Zenon
<1>6. Has(NatsEnsureStreams, (({Do("pod", "nats-box", {})} \cup {Apply("GATEWAY_EVENTS")})
             \cup {Do("pod", "nats-box", {})}) \cup {Apply("GATEWAY_EVENTS_ENRICHED")})
  BY <1>4, <1>5, HasJoin, Zenon DEF NatsEnsureStreams
<1>7. Has(DriverForStored \o NatsInstall,
          {ClearFailed("nats", NatsObjects), Install("nats", {"nats pods"})})
  BY <1>3, Prefixes, HasAfter, Zenon
<1> QED
  BY <1>2, <1>6, <1>7, HasJoin, Zenon DEF QueueCreate

LEMMA OperatorHas ==
  /\ Has(OperatorCreate, {DoneIfRelease("cnpg", {"clusters CRD"}),
                          Install("cnpg", {"clusters CRD", "operator pods"})}
                         \cup {Need("clusters CRD")})
  /\ Has(OperatorUpdate, {Install("cnpg", {"clusters CRD", "operator pods"})}
                         \cup {Need("clusters CRD")})
  /\ Has(OperatorDelete, {UninstallIfAny("cnpg", {"operator pods"}), Delete("operator namespace")})
<1>1. Has(VerifyCRD, {Need("clusters CRD")})
  BY HasTuple, Zenon DEF VerifyCRD
<1>2. Has(DriverFor \o OperatorPrerequisites, {})
  BY Prefixes, HasAfter, Zenon
<1>3. Has(OperatorCreate, {DoneIfRelease("cnpg", {"clusters CRD"}),
             Install("cnpg", {"clusters CRD", "operator pods"})} \cup {Need("clusters CRD")})
  BY <1>1, <1>2, HasTuple, HasAfter, HasJoin, Zenon DEF OperatorCreate
<1>4. Has(OperatorUpdate, {Install("cnpg", {"clusters CRD", "operator pods"})}
                          \cup {Need("clusters CRD")})
  BY <1>1, <1>2, HasTuple, HasAfter, HasJoin, Zenon DEF OperatorUpdate
<1>5. Has(OperatorDelete, {UninstallIfAny("cnpg", {"operator pods"}), Delete("operator namespace")})
  BY <1>2, HasTuple, HasAfter, Zenon DEF OperatorDelete
<1> QED
  BY <1>3, <1>4, <1>5

LEMMA ClusterHas ==
  /\ Has(ClusterCreate, ((({DoneIf("postgres cluster")} \cup {Apply("namespace")})
                          \cup {Apply("app secret")}) \cup {Apply("postgres cluster")})
                        \cup {Await("postgres cluster")})
  /\ Has(ClusterUpdate, ({Refuse("postgres cluster")} \cup {Apply("postgres cluster")})
                        \cup {Await("postgres cluster")})
  /\ Has(ClusterDelete, {DeleteIfFound("postgres cluster"), Delete("app secret")})
<1>1. Has(DriverFor \o ClusterPrerequisites \o <<Check("clusters CRD")>>, {})
  <2>1. Has(<<Check("clusters CRD")>>, {})
    BY OneCheck
  <2>2. Has(DriverFor \o ClusterPrerequisites, {})
    BY Prefixes, HasAfter, Zenon
  <2> QED
    BY <2>1, <2>2, HasAfter, Zenon
<1>2. /\ Has(EnsureNamespace, {Apply("namespace")}) /\ Has(ApplySecret, {Apply("app secret")})
      /\ Has(ApplyCluster, {Apply("postgres cluster")})
      /\ Has(<<Await("postgres cluster")>>, {Await("postgres cluster")})
      /\ Has(<<DoneIf("postgres cluster")>>, {DoneIf("postgres cluster")})
      /\ Has(<<Refuse("postgres cluster")>>, {Refuse("postgres cluster")})
  BY HasTuple, Zenon DEF EnsureNamespace, ApplySecret, ApplyCluster
<1>3. Has(DriverFor \o ClusterPrerequisites \o <<Check("clusters CRD")>> \o <<DoneIf("postgres cluster")>>,
          {DoneIf("postgres cluster")})
  BY <1>1, <1>2, HasAfter, Zenon
<1>4. Has(ClusterCreate, ((({DoneIf("postgres cluster")} \cup {Apply("namespace")})
                          \cup {Apply("app secret")}) \cup {Apply("postgres cluster")})
                        \cup {Await("postgres cluster")})
  BY <1>2, <1>3, HasJoin, Zenon DEF ClusterCreate
<1>5. Has(DriverFor \o ClusterPrerequisites \o <<Check("clusters CRD")>> \o <<Refuse("postgres cluster")>>,
          {Refuse("postgres cluster")})
  BY <1>1, <1>2, HasAfter, Zenon
<1>6. Has(ClusterUpdate, ({Refuse("postgres cluster")} \cup {Apply("postgres cluster")})
                        \cup {Await("postgres cluster")})
  BY <1>2, <1>5, HasJoin, Zenon DEF ClusterUpdate
<1>7. Has(ClusterDelete, {DeleteIfFound("postgres cluster"), Delete("app secret")})
  BY <1>1, HasTuple, HasAfter, Zenon DEF ClusterDelete
<1> QED
  BY <1>4, <1>6, <1>7

LEMMA MinIOHas ==
  /\ Has(MinIOCreate, (({Adopt("tenant")} \cup {InstallOnce("minio-operator", {"minio operator"})})
             \cup {ClearFailed("tenant", TenantObjects), Install("tenant", TenantObjects)})
             \cup {Apply("network policy"), Await("tenant pods")})
  /\ Has(ResizeStorage, {Refuse("volumes"), Refuse("no shrink"), Apply("volume 1"), Apply("volume 2")})
  /\ Has(MinIODelete, {UninstallIfAny("tenant", TenantObjects), Delete("network policy")})
<1>1. Has(MinIOPrerequisites \o <<Adopt("tenant")>>, {Adopt("tenant")})
  BY Prefixes, HasTuple, HasAfter, Zenon
<1>2. /\ Has(InstallOperator, {InstallOnce("minio-operator", {"minio operator"})})
      /\ Has(DeployTenant, {ClearFailed("tenant", TenantObjects), Install("tenant", TenantObjects)})
      /\ Has(<<Apply("network policy"), Await("tenant pods")>>,
             {Apply("network policy"), Await("tenant pods")})
  BY HasTuple, Zenon DEF InstallOperator, DeployTenant
<1>3. Has(MinIOCreate, (({Adopt("tenant")} \cup {InstallOnce("minio-operator", {"minio operator"})})
             \cup {ClearFailed("tenant", TenantObjects), Install("tenant", TenantObjects)})
             \cup {Apply("network policy"), Await("tenant pods")})
  BY <1>1, <1>2, HasJoin, Zenon DEF MinIOCreate
<1>4. Has(ResizeStorage, {Refuse("volumes"), Refuse("no shrink"), Apply("volume 1"), Apply("volume 2")})
  <2> DEFINE c == Check("spec")
             a == Refuse("volumes")
             b == Refuse("no shrink")
             d == Apply("volume 1")
             e == Apply("volume 2")
  <2>1. Has(<<c, a, b, d, e>>, {c, a, b, d, e}) /\ c.do = "check"
    BY HasTuple, Fields
  <2> HIDE DEF a, b, c, d, e
  <2>2. /\ {a, b, d, e} \subseteq {c, a, b, d, e}
        /\ \A st \in {c, a, b, d, e} : st.do = "check" \/ st \in {a, b, d, e}
    BY <2>1
  <2>3. Has(<<c, a, b, d, e>>, {a, b, d, e})
    BY <2>1, <2>2, HasLess
  <2> QED
    BY <2>3, Zenon DEF ResizeStorage, a, b, c, d, e
<1>5. Has(MinIODelete, {UninstallIfAny("tenant", TenantObjects), Delete("network policy")})
  <2> DEFINE c == Check("spec")
             h == Check("helm")
             u == UninstallIfAny("tenant", TenantObjects)
             d == Delete("network policy")
  <2>1. Has(<<c, h, u, d>>, {c, h, u, d}) /\ c.do = "check" /\ h.do = "check"
    BY HasTuple, Fields
  <2> HIDE DEF c, h, u, d
  <2>2. {u, d} \subseteq {c, h, u, d} /\ \A st \in {c, h, u, d} : st.do = "check" \/ st \in {u, d}
    BY <2>1
  <2>3. Has(<<c, h, u, d>>, {u, d})
    BY <2>1, <2>2, HasLess
  <2> QED
    BY <2>3, Zenon DEF MinIODelete, c, h, u, d
<1> QED
  BY <1>3, <1>4, <1>5

LEMMA ObservabilityHas ==
  /\ Has(ObservabilityCreate, {AdoptOrGenerate("kps")} \cup {Install("kps", StackObjects)})
  /\ Has(ObservabilityDelete, {UninstallIfAny("kps", StackObjects)})
<1>1. Has(ResolveGrafanaCredentials, {AdoptOrGenerate("kps")})
      /\ Has(<<Install("kps", StackObjects)>>, {Install("kps", StackObjects)})
  BY HasTuple, Zenon DEF ResolveGrafanaCredentials
<1>2. Has(DriverForStored \o ObservabilityPrerequisites \o ResolveGrafanaCredentials,
          {AdoptOrGenerate("kps")})
  BY <1>1, Prefixes, HasAfter, Zenon DEF ObservabilityPrerequisites
<1>3. Has(ObservabilityCreate, {AdoptOrGenerate("kps")} \cup {Install("kps", StackObjects)})
  BY <1>1, <1>2, HasJoin, Zenon DEF ObservabilityCreate
<1> DEFINE h == Check("helm")
           u == UninstallIfAny("kps", StackObjects)
<1>4. Has(<<h, u>>, {u})
  <2>1. Has(<<h, u>>, {h, u}) /\ h.do = "check"
    BY HasTuple, Fields
  <2> HIDE DEF h, u
  <2>2. {u} \subseteq {h, u} /\ \A st \in {h, u} : st.do = "check" \/ st \in {u}
    BY <2>1
  <2> QED
    BY <2>1, <2>2, HasLess
<1>5. Has(ObservabilityDelete, {u})
  BY <1>4, Prefixes, HasAfter, Zenon DEF ObservabilityDelete
<1> QED
  BY <1>3, <1>5

LEMMA ValkeyHas ==
  /\ Has(ValkeyCreate, {ClearFailed("valkey", {"valkey pods"}), Install("valkey", {"valkey pods"})}
                       \cup {NeedRelease("valkey")})
  /\ Has(ValkeyUpdate, ({NeedRelease("valkey")}
             \cup {ClearFailed("valkey", {"valkey pods"}), Install("valkey", {"valkey pods"})})
             \cup {NeedRelease("valkey")})
  /\ Has(ValkeyDelete, {UninstallIfAny("valkey", {"valkey pods"})})
<1>1. /\ Has(ValkeyDeploy, {ClearFailed("valkey", {"valkey pods"}), Install("valkey", {"valkey pods"})})
      /\ Has(<<NeedRelease("valkey")>>, {NeedRelease("valkey")})
  BY HasTuple, Zenon DEF ValkeyDeploy
<1>2. /\ Has(DriverFor \o ValkeyPrerequisites \o ValkeyDeploy,
             {ClearFailed("valkey", {"valkey pods"}), Install("valkey", {"valkey pods"})})
      /\ Has(DriverFor \o ValkeyPrerequisites \o <<NeedRelease("valkey")>>, {NeedRelease("valkey")})
  BY <1>1, Prefixes, HasAfter, Zenon
<1>3. Has(ValkeyCreate, {ClearFailed("valkey", {"valkey pods"}), Install("valkey", {"valkey pods"})}
                        \cup {NeedRelease("valkey")})
  BY <1>1, <1>2, HasJoin, Zenon DEF ValkeyCreate
<1>4. Has(ValkeyUpdate, ({NeedRelease("valkey")}
             \cup {ClearFailed("valkey", {"valkey pods"}), Install("valkey", {"valkey pods"})})
             \cup {NeedRelease("valkey")})
  BY <1>1, <1>2, HasJoin, Zenon DEF ValkeyUpdate
<1> DEFINE c == Check("spec")
           h == Check("helm")
           u == UninstallIfAny("valkey", {"valkey pods"})
<1>5. Has(<<c, h, u>>, {u})
  <2>1. Has(<<c, h, u>>, {c, h, u}) /\ c.do = "check" /\ h.do = "check"
    BY HasTuple, Fields
  <2> HIDE DEF c, h, u
  <2>2. {u} \subseteq {c, h, u} /\ \A st \in {c, h, u} : st.do = "check" \/ st \in {u}
    BY <2>1
  <2> QED
    BY <2>1, <2>2, HasLess
<1>6. Has(ValkeyDelete, {u})
  BY <1>5, Prefixes, HasAfter, Zenon DEF ValkeyDelete
<1> QED
  BY <1>3, <1>4, <1>6

LEMMA IngressHas ==
  /\ Has(IngressCreate, (({Install("metallb", MetalLBObjects)}
            \cup {Need("pool CRDs"), Apply("address pool")})
            \cup {Install("istio-base", {"istio CRDs"}), Install("istiod", {"istiod"}),
                  Install("ingress", {"ingress service"})})
            \cup {Await("ingress service")})
  /\ Has(IngressDelete, {UninstallIfAny("ingress", {"ingress service"}),
            UninstallIfAny("istiod", {"istiod"}), UninstallIfAny("istio-base", {"istio CRDs"}),
            DeleteQuietly("address pool"),
            UninstallIfAny("metallb", MetalLBObjects \cup {"address pool"})})
<1>1. /\ Has(<<Install("metallb", MetalLBObjects)>>, {Install("metallb", MetalLBObjects)})
      /\ Has(PoolManifests, {Need("pool CRDs"), Apply("address pool")})
      /\ Has(WaitForExternalIP, {Await("ingress service")})
  BY HasTuple, Zenon DEF PoolManifests, WaitForExternalIP
<1>2. Has(<<Install("istio-base", {"istio CRDs"}), Install("istiod", {"istiod"}),
            Install("ingress", {"ingress service"})>>,
          {Install("istio-base", {"istio CRDs"}), Install("istiod", {"istiod"}),
            Install("ingress", {"ingress service"})})
  BY HasTuple, Zenon
<1>3. Has(DriverFor \o <<Install("metallb", MetalLBObjects)>>, {Install("metallb", MetalLBObjects)})
  BY <1>1, Prefixes, HasAfter, Zenon
<1>4. Has(IngressCreate, (({Install("metallb", MetalLBObjects)}
            \cup {Need("pool CRDs"), Apply("address pool")})
            \cup {Install("istio-base", {"istio CRDs"}), Install("istiod", {"istiod"}),
                  Install("ingress", {"ingress service"})})
            \cup {Await("ingress service")})
  BY <1>1, <1>2, <1>3, HasJoin, Zenon DEF IngressCreate
<1>5. Has(IngressDelete, {UninstallIfAny("ingress", {"ingress service"}),
            UninstallIfAny("istiod", {"istiod"}), UninstallIfAny("istio-base", {"istio CRDs"}),
            DeleteQuietly("address pool"),
            UninstallIfAny("metallb", MetalLBObjects \cup {"address pool"})})
  <2> DEFINE a == UninstallIfAny("ingress", {"ingress service"})
             b == UninstallIfAny("istiod", {"istiod"})
             c == UninstallIfAny("istio-base", {"istio CRDs"})
             d == DeleteQuietly("address pool")
             e == UninstallIfAny("metallb", MetalLBObjects \cup {"address pool"})
  <2>1. Has(<<a, b, c, d, e>>, {a, b, c, d, e})
    BY HasTuple
  <2> QED
    BY <2>1, Prefixes, HasAfter, Zenon DEF IngressDelete
<1> QED
  BY <1>4, <1>5
-------------------------------------------------------------------------------
(* What is to be shown of a plan, of the steps that are more than checks.  *)

Helms(st) == st.do \in {"install", "install_once"}

LEMMA GivenOf ==
  ASSUME NEW plan, NEW E, Has(plan, E)
  PROVE  \A o : o \in Given(plan) <=>
            \E st \in E : (Helms(st) /\ o \in st.gives) \/ (st.do = "apply" /\ o = st.on)
<1> DEFINE I == {t \in Steps(plan) : t.do \in {"install", "install_once"}}
           A == {t \in Steps(plan) : t.do = "apply"}
<1>1. \A o : o \in Given(plan) <=>
         \E st \in Steps(plan) : (Helms(st) /\ o \in st.gives) \/ (st.do = "apply" /\ o = st.on)
  <2>1. Given(plan) = (UNION {st.gives : st \in I}) \cup {st.on : st \in A}
    BY DEF Given
  <2>2. \A o : o \in UNION {st.gives : st \in I} <=> \E st \in I : o \in st.gives
    BY Zenon
  <2>3. \A o : o \in {st.on : st \in A} <=> \E st \in A : o = st.on
    BY Zenon
  <2>4. \A st : (st \in I <=> st \in Steps(plan) /\ Helms(st)) /\ (st \in A <=> st \in Steps(plan) /\ st.do = "apply")
    BY Zenon DEF Helms
  <2> DEFINE G == UNION {st.gives : st \in I}
             B == {st.on : st \in A}
  <2>5. Given(plan) = G \cup B
    BY DEF Given
  <2> HIDE DEF G, B
  <2>6. \A o : (o \in G <=> \E st \in I : o \in st.gives) /\ (o \in B <=> \E st \in A : o = st.on)
    BY <2>2, <2>3, Zenon DEF G, B
  <2> HIDE DEF I, A
  <2> QED
    BY <2>4, <2>5, <2>6
<1>2. \A st : st.do = "check" => ~Helms(st) /\ st.do # "apply"
  BY DEF Helms
<1> QED
  BY <1>1, <1>2 DEF Has

LEMMA ReleasesOf ==
  ASSUME NEW s, NEW E, Has(Plans[s].create, E)
  PROVE  \A r : r \in Releases(s) <=> \E st \in E : Helms(st) /\ r = st.on
BY DEF Has, Releases, Helms

LEMMA OwnedOf ==
  ASSUME NEW s, NEW E, Has(Plans[s].delete, E)
  PROVE  \A r, o : OwnedBy(s, r, o) <=> \E st \in E : Uninstalls(st) /\ st.on = r /\ o \in st.gives
BY DEF Has, OwnedBy, Uninstalls

\* A step of a plan that builds,
BuildStep(s, st) ==
  /\ ~Uninstalls(st) /\ ~Deletes(st)
  /\ st.do = "done_if" => s = "postgres" /\ st.on = "postgres cluster"
  /\ st.do = "done_if_release" => s = "cnpg" /\ st.on = "cnpg"
  /\ Helms(st) => st.on \in AllReleases /\ st.gives \subseteq AllObjects
  /\ st.do = "apply" => st.on \in AllObjects
  /\ st.do = "install_once" => st.gives \cap Promised(s) = {}
  /\ \A r \in Releases(s), o \in Promised(s) : OwnedBy(s, r, o) =>
       /\ st.do = "install" /\ o \in st.gives => st.on = r
       /\ st.do = "clear_failed" /\ st.on = r => o \in st.gives

LEMMA BuildStepsOf ==
  ASSUME NEW s, NEW plan, NEW E, Has(plan, E), \A st \in E : BuildStep(s, st)
  PROVE  BuildSteps(s, plan)
<1>1. \A st : st.do = "check" => BuildStep(s, st)
  BY DEF BuildStep, Helms, Uninstalls, Deletes
<1>2. \A st \in Steps(plan) : BuildStep(s, st)
  BY <1>1 DEF Has
<1> QED
  BY <1>2, Zenon DEF BuildStep, BuildSteps, Helms

\* of which the order is no matter;
Freely(s, st) ==
  /\ st.do \notin {"clear_failed", "refuse"}
  /\ st.do = "apply" => \A r \in Releases(s) : ~OwnedBy(s, r, st.on)

LEMMA FreeOrder ==
  ASSUME NEW s, NEW plan, NEW E, Has(plan, E), \A st \in E : Freely(s, st)
  PROVE  BuildOrder(s, plan)
<1>1. \A j \in DOMAIN plan : Freely(s, plan[j]) \/ plan[j].do = "check"
  BY DEF Has, Steps
<1> QED
  BY <1>1 DEF BuildOrder, Freely, Clears

\* a step of a plan that removes,
RemoveStep(s, st) ==
  /\ Uninstalls(st) \/ Deletes(st)
  /\ st.do = "delete_if_found" => s = "postgres"
  /\ Uninstalls(st) => st.on \in Releases(s)
  /\ Uninstalls(st) => \A o \in Promised(s) : OwnedBy(s, st.on, o) => o \in st.gives

LEMMA DeleteOf ==
  ASSUME NEW s, NEW plan, NEW E, Has(plan, E), \A st \in E : RemoveStep(s, st),
         \A o \in Removable(s) : \E st \in E : Takes(st, o)
  PROVE  DeleteFits(s, plan)
<1>1. \A st \in Steps(plan) : st.do = "check" \/ RemoveStep(s, st)
  BY DEF Has
<1>2. \A st : st.do = "check" => ~Uninstalls(st) /\ st.do # "delete_if_found"
  BY DEF Uninstalls
<1>3. \A o \in Removable(s) : \E st \in Steps(plan) : Takes(st, o)
  BY DEF Has
<1>4. IsPlan(plan)
  BY DEF Has
<1> QED
  BY <1>1, <1>2, <1>3, <1>4, Zenon DEF DeleteFits, RemoveStep

LEMMA CreateOf ==
  ASSUME NEW s, NEW plan, NEW E, Has(plan, E),
         BuildSteps(s, plan), BuildOrder(s, plan), \A st \in E : st.do # "refuse",
         Removable(s) # {}, Promised(s) \subseteq AllObjects,
         \A o \in Promised(s) : \E st \in E : Brings(st, o)
  PROVE  CreateFits(s, plan)
<1>1. IsPlan(plan) /\ \A st \in Steps(plan) : st.do # "refuse"
  BY DEF Has
<1>2. \A o \in Promised(s) : \E st \in Steps(plan) : Brings(st, o)
  BY DEF Has
<1> QED
  BY <1>1, <1>2, Zenon DEF CreateFits, BuildFits

LEMMA UpdateOf ==
  ASSUME NEW s, NEW plan, NEW E, Has(plan, E), BuildSteps(s, plan), BuildOrder(s, plan),
         \A st \in E : st.do \notin {"done_if", "done_if_release"},
         \A st \in E : st.do = "apply" /\ st.on \in Promised(s) =>
            s \in Upserts \/ (s = "postgres" /\ st.on = "postgres cluster")
  PROVE  UpdateFits(s, plan)
<1>1. \A st \in Steps(plan) : st.do \notin {"done_if", "done_if_release"}
  BY DEF Has
<1>2. \A st \in Steps(plan) : st.do = "apply" /\ st.on \in Promised(s) =>
         s \in Upserts \/ (s = "postgres" /\ st.on = "postgres cluster")
  BY DEF Has
<1>3. BuildFits(s, plan)
  BY DEF Has, BuildFits
<1> QED
  BY <1>1, <1>2, <1>3, Zenon DEF UpdateFits

LEMMA NoUpdate == \A s : UpdateFits(s, << >>)
<1>1. Has(<< >>, {})
  BY HasTuple
<1>2. \A s : BuildSteps(s, << >>) /\ BuildOrder(s, << >>)
  BY <1>1, BuildStepsOf, FreeOrder
<1>3. ASSUME NEW s PROVE UpdateFits(s, << >>)
  <2> DEFINE E == {}
  <2>1. /\ \A st \in E : st.do \notin {"done_if", "done_if_release"}
        /\ \A st \in E : st.do = "apply" /\ st.on \in Promised(s) =>
             s \in Upserts \/ (s = "postgres" /\ st.on = "postgres cluster")
        /\ Has(<< >>, E)
    BY <1>1
  <2> HIDE DEF E
  <2> QED
    BY <1>2, <2>1, UpdateOf
<1> QED
  BY <1>3

\* and a step that has nothing to do with credentials.
Careless(s, st) ==
  /\ ~Remakes(st) /\ ~Asks(st)
  /\ st.do = "apply" => st.on # "credentials"
  /\ st.do \in {"uninstall", "uninstall_if_any", "clear_failed"} /\ s \in Keepers
       /\ st.on = Holder(s) => "credentials" \in st.gives

LEMMA CarelessPlan ==
  ASSUME NEW s, NEW plan, NEW E, Has(plan, E), \A st \in E : Careless(s, st)
  PROVE  Careful(s, plan)
<1>1. \A st : st.do = "check" => Careless(s, st)
  BY DEF Careless, Remakes, Asks
<1>2. \A st \in Steps(plan) : Careless(s, st)
  BY <1>1 DEF Has
<1>3. CarefulSteps(s, plan)
  BY <1>2 DEF Careless, CarefulSteps, Asks
<1>4. \A i \in DOMAIN plan : ~Remakes(plan[i])
  BY <1>2 DEF Careless, Steps
<1> QED
  BY <1>3, <1>4 DEF Careful
-------------------------------------------------------------------------------
(* The deployments that are one release,                                   *)

LEMMA Members ==
  ASSUME NEW s \in DOMAIN Plans
  PROVE  /\ Releases(s) \subseteq AllReleases
         /\ Given(Plans[s].create) \subseteq AllObjects /\ Promised(s) \subseteq AllObjects
BY DEF AllReleases, AllObjects, Promised

\* What a delete leaves is left out of Removable.
Stays == KeptByDesign \cup LeftBehind

LEMMA StaysAre ==
  /\ KeptByDesign \subseteq Stays /\ LeftBehind \subseteq Stays
  /\ \A s : Removable(s) = Given(Plans[s].create) \ Stays /\ Removable(s) \subseteq Promised(s)
BY DEF Stays, Removable, Promised

LEMMA AllRemovable ==
  ASSUME NEW s, NEW g, g \cap Stays = {}, \A o : o \in Promised(s) <=> o \in g
  PROVE  Promised(s) = g /\ Removable(s) = g
BY DEF Removable, Stays

\* one chart installed, perhaps waited for, and uninstalled,
IsChart(s, r, g, i, N, d) ==
  /\ s \in DOMAIN Plans
  /\ Has(Plans[s].create, {i} \cup N) /\ i.do = "install" /\ i.on = r /\ i.gives = g
  /\ \A st \in N : st.do \in {"need", "need_release", "adopt_or_generate"}
  /\ Has(Plans[s].delete, {d}) /\ Uninstalls(d) /\ d.on = r /\ d.gives = g
  /\ g # {} /\ g \cap Stays = {}

LEMMA ChartMakes ==
  ASSUME NEW s, NEW r, NEW g, NEW i, NEW N, NEW d, IsChart(s, r, g, i, N, d)
  PROVE  /\ CreateFits(s, Plans[s].create) /\ DeleteFits(s, Plans[s].delete)
         /\ Releases(s) = {r} /\ Promised(s) = g
<1> USE DEF IsChart
<1>1. i.do = "install" /\ i.on = r /\ i.gives = g
  OBVIOUS
<1>2. \A st \in N : ~Helms(st) /\ st.do # "apply"
  BY DEF Helms
<1>3. Has(Plans[s].create, {i} \cup N)
  OBVIOUS
<1>4. \A o : o \in Given(Plans[s].create) <=> o \in g
  BY <1>1, <1>2, <1>3, GivenOf DEF Helms
<1>5. Promised(s) = g /\ Removable(s) = g
  <2>1. g \cap KeptByDesign = {} /\ g \cap Stays = {}
    BY StaysAre
  <2> QED
    BY <1>4, <2>1, StaysAre DEF Promised
<1>6. Releases(s) = {r}
  BY <1>1, <1>2, <1>3, ReleasesOf DEF Helms
<1>7. \A q, o : OwnedBy(s, q, o) <=> q = r /\ o \in g
  BY OwnedOf
<1>8. \A st \in {i} \cup N : BuildStep(s, st) /\ Freely(s, st) /\ st.do # "refuse"
  <2>1. r \in AllReleases /\ g \subseteq AllObjects
    BY <1>5, <1>6, Members
  <2>2. BuildStep(s, i) /\ Freely(s, i)
    BY <1>1, <1>6, <1>7, <2>1 DEF BuildStep, Freely, Helms, Uninstalls, Deletes
  <2>3. \A st \in N : BuildStep(s, st) /\ Freely(s, st) /\ st.do # "refuse"
    BY <1>2 DEF BuildStep, Freely, Helms, Uninstalls, Deletes
  <2> QED
    BY <1>1, <2>2, <2>3
<1>9. CreateFits(s, Plans[s].create)
  <2>1. BuildSteps(s, Plans[s].create) /\ BuildOrder(s, Plans[s].create)
    BY <1>3, <1>8, BuildStepsOf, FreeOrder
  <2>2. Removable(s) # {} /\ Promised(s) \subseteq AllObjects
    BY <1>5, Members
  <2>3. \A o \in Promised(s) : \E st \in {i} \cup N : Brings(st, o)
    BY <1>1, <1>5 DEF Brings
  <2> QED
    BY <1>3, <1>8, <2>1, <2>2, <2>3, CreateOf
<1>10. DeleteFits(s, Plans[s].delete)
  <2>1. \A st \in {d} : RemoveStep(s, st)
    BY <1>6, <1>7 DEF RemoveStep, Uninstalls
  <2>2. \A o \in Removable(s) : \E st \in {d} : Takes(st, o)
    BY <1>5 DEF Takes
  <2> QED
    BY <2>1, <2>2, DeleteOf
<1> QED
  BY <1>5, <1>6, <1>9, <1>10

LEMMA OneReleaseFits ==
  ASSUME NEW s \in DOMAIN Plans, NEW r, NEW g, NEW N, NEW d,
         Has(Plans[s].create, {Install(r, g)} \cup N), \A st \in N : st.do = "need",
         Plans[s].update = << >>,
         Has(Plans[s].delete, {d}), Uninstalls(d), d.on = r, d.gives = g,
         g # {}, g \cap Stays = {}, "credentials" \notin g, s \notin Keepers
  PROVE  PlanFits(s) /\ "credentials" \notin Promised(s)
<1>1. /\ CreateFits(s, Plans[s].create) /\ DeleteFits(s, Plans[s].delete)
      /\ Promised(s) = g
  <2>1. \A st \in N : st.do \in {"need", "need_release", "adopt_or_generate"}
    OBVIOUS
  <2> DEFINE i == Install(r, g)
  <2>2. i.do = "install" /\ i.on = r /\ i.gives = g /\ Has(Plans[s].create, {i} \cup N)
    BY Fields
  <2> HIDE DEF i
  <2>3. IsChart(s, r, g, i, N, d)
    BY <2>1, <2>2 DEF IsChart
  <2> QED
    BY <2>3, ChartMakes
<1>2. UpdateFits(s, Plans[s].update)
  BY NoUpdate
<1>3. \A st \in {Install(r, g)} \cup N : Careless(s, st)
  BY Fields DEF Careless, Remakes, Asks
<1>4. \A st \in {d} : Careless(s, st)
  BY DEF Careless, Remakes, Asks, Uninstalls
<1>5. \A st \in {} : Careless(s, st)
  OBVIOUS
<1>6. Has(Plans[s].update, {})
  BY HasTuple
<1>7. \A v \in Verbs : Careful(s, Plans[s][v])
  BY <1>3, <1>4, <1>5, <1>6, CarelessPlan DEF Verbs
<1> QED
  BY <1>1, <1>2, <1>7 DEF PlanFits

\* and those that are manifests.
LEMMA ManifestsFit ==
  ASSUME NEW s \in DOMAIN Plans, NEW C, NEW R,
         Has(Plans[s].create, C), \A st \in C : st.do \in {"apply", "await"},
         Plans[s].update = << >>,
         Has(Plans[s].delete, R), \A st \in R : st.do = "delete",
         \A st \in C : st.do = "apply" =>
            st.on # "credentials" /\ (st.on \in Stays \/ \E d \in R : d.on = st.on),
         \E st \in C : st.do = "apply" /\ st.on \notin Stays
  PROVE  PlanFits(s) /\ "credentials" \notin Promised(s)
<1>1. \A o : o \in Given(Plans[s].create) <=> \E st \in C : st.do = "apply" /\ o = st.on
  BY GivenOf DEF Helms
<1>2. /\ \A o : o \in Promised(s) <=> o \notin KeptByDesign /\ \E st \in C : st.do = "apply" /\ o = st.on
      /\ \A o : o \in Removable(s) <=> o \notin Stays /\ \E st \in C : st.do = "apply" /\ o = st.on
  <2>1. \A o : o \in Promised(s) <=> o \notin KeptByDesign /\ o \in Given(Plans[s].create)
    BY DEF Promised
  <2>2. \A o : o \in Removable(s) <=> o \notin Stays /\ o \in Given(Plans[s].create)
    BY StaysAre
  <2> QED
    BY <1>1, <2>1, <2>2
<1>3. Releases(s) = {}
  BY ReleasesOf DEF Helms
<1>4. \A st \in C : BuildStep(s, st) /\ Freely(s, st) /\ st.do # "refuse" /\ Careless(s, st)
  <2>1. \A st \in C : st.do = "apply" => st.on \in AllObjects
    BY <1>1, Members
  <2> QED
    BY <1>3, <2>1 DEF BuildStep, Freely, Helms, Uninstalls, Deletes, Careless, Remakes, Asks
<1>5. \A st \in R : RemoveStep(s, st) /\ Careless(s, st)
  BY DEF RemoveStep, Careless, Uninstalls, Deletes, Remakes, Asks
<1>6. CreateFits(s, Plans[s].create)
  <2>1. BuildSteps(s, Plans[s].create) /\ BuildOrder(s, Plans[s].create)
    BY <1>4, BuildStepsOf, FreeOrder
  <2>2. Removable(s) # {} /\ Promised(s) \subseteq AllObjects
    BY <1>2, Members
  <2>3. \A o \in Promised(s) : \E st \in C : Brings(st, o)
    BY <1>2 DEF Brings
  <2> QED
    BY <1>4, <2>1, <2>2, <2>3, CreateOf
<1>7. DeleteFits(s, Plans[s].delete)
  <2>1. \A o \in Removable(s) : \E st \in R : Takes(st, o)
    BY <1>2 DEF Takes
  <2> QED
    BY <1>5, <2>1, DeleteOf
<1>8. UpdateFits(s, Plans[s].update) /\ Has(Plans[s].update, {})
  BY NoUpdate, HasTuple
<1>9. \A st \in {} : Careless(s, st)
  OBVIOUS
<1>10. \A v \in Verbs : Careful(s, Plans[s][v])
  BY <1>4, <1>5, <1>8, <1>9, CarelessPlan DEF Verbs
<1> QED
  BY <1>2, <1>6, <1>7, <1>8, <1>10 DEF PlanFits

\* The rows of the table.
Row3(s, c, u, d) ==
  s \in DOMAIN Plans /\ Plans[s].create = c /\ Plans[s].update = u /\ Plans[s].delete = d

LEMMA Table ==
  /\ Row3("longhorn", LonghornCreate, << >>, LonghornDelete)
  /\ Row3("cnpg", OperatorCreate, OperatorUpdate, OperatorDelete)
  /\ Row3("postgres", ClusterCreate, ClusterUpdate, ClusterDelete)
  /\ Row3("valkey", ValkeyCreate, ValkeyUpdate, ValkeyDelete)
  /\ Row3("minio", MinIOCreate, ResizeStorage, MinIODelete)
  /\ Row3("kps", ObservabilityCreate, << >>, ObservabilityDelete)
  /\ Row3("nvidia", AcceleratorCreate, << >>, AcceleratorDelete)
  /\ Row3("metallb", IngressCreate, << >>, IngressDelete)
  /\ Row3("vllm", VLLMCreate, << >>, VLLMDelete)
  /\ Row3("llamacpp", LlamaCreate, << >>, LlamaDelete)
  /\ Row3("nats", QueueCreate, QueueUpdate, QueueDelete)
  /\ Row3("httproute", HTTPRouteCreate, << >>, HTTPRouteDelete)
  /\ Row3("virtualservice", VirtualServiceCreate, << >>, VirtualServiceDelete)
  /\ Row3("rpm", RPMCreate, << >>, RPMDelete)
  /\ Row3("tpm", TPMCreate, << >>, TPMDelete)
  /\ Row3("gateway", GatewayCreate, << >>, GatewayDelete)
  /\ Row3("tokenizer", TokenizerCreate, << >>, TokenizerDelete)
  /\ Row3("enricher", EnricherCreate, << >>, EnricherDelete)
  /\ Row3("billing", BillingCreate, << >>, BillingDelete)
  /\ Row3("controlplane", ControlPlaneCreate, << >>, ControlPlaneDelete)
  /\ Row3("portal", PortalCreate, << >>, PortalDelete)
BY DEF Plans, Verb3, Row3

LEMMA OneChart ==
  \A s, r, g, c, d :
    /\ Row3(s, c, << >>, d) /\ s \notin Keepers
    /\ Has(c, {Install(r, g)}) /\ Has(d, {UninstallIfAny(r, g)})
    /\ g # {} /\ g \cap Stays = {} /\ "credentials" \notin g
    => PlanFits(s) /\ "credentials" \notin Promised(s)
<1> SUFFICES ASSUME NEW s, NEW r, NEW g, NEW c, NEW d,
                    Row3(s, c, << >>, d), s \notin Keepers,
                    Has(c, {Install(r, g)}), Has(d, {UninstallIfAny(r, g)}),
                    g # {}, g \cap Stays = {}, "credentials" \notin g
             PROVE  PlanFits(s) /\ "credentials" \notin Promised(s)
  BY Zenon
<1> DEFINE u == UninstallIfAny(r, g)
           i == Install(r, g)
<1>1. Uninstalls(u) /\ u.on = r /\ u.gives = g
  BY Fields DEF Uninstalls
<1>2. Has(d, {u}) /\ Has(c, {i})
  OBVIOUS
<1>3. {i} \cup {} = {i} /\ \A st \in {} : st.do = "need"
  OBVIOUS
<1> HIDE DEF u
<1>4. s \in DOMAIN Plans /\ Has(Plans[s].create, {i} \cup {}) /\ Plans[s].update = << >> /\ Has(Plans[s].delete, {u})
  BY <1>2, <1>3 DEF Row3
<1> QED
  BY <1>1, <1>3, <1>4, OneReleaseFits

LEMMA ChartsFit ==
  \A s \in {"tokenizer", "enricher", "billing", "controlplane", "portal", "gateway", "rpm", "tpm", "nvidia"} :
    PlanFits(s) /\ "credentials" \notin Promised(s)
<1>1. PlanFits("tokenizer") /\ "credentials" \notin Promised("tokenizer")
  <2>1. "tokenizer" \notin Keepers /\ {"tokenizer pods"} # {} /\ {"tokenizer pods"} \cap Stays = {}
        /\ "credentials" \notin {"tokenizer pods"}
    BY DEF Keepers, Stays, KeptByDesign, LeftBehind
  <2>2. Row3("tokenizer", TokenizerCreate, << >>, TokenizerDelete)
    BY Table
  <2> QED
    BY <2>1, <2>2, TokenizerHas, OneChart, Zenon
<1>2. PlanFits("enricher") /\ "credentials" \notin Promised("enricher")
  <2>1. "enricher" \notin Keepers /\ {"enricher pods"} # {} /\ {"enricher pods"} \cap Stays = {}
        /\ "credentials" \notin {"enricher pods"}
    BY DEF Keepers, Stays, KeptByDesign, LeftBehind
  <2>2. Row3("enricher", EnricherCreate, << >>, EnricherDelete)
    BY Table
  <2> QED
    BY <2>1, <2>2, EnricherHas, OneChart, Zenon
<1>3. PlanFits("billing") /\ "credentials" \notin Promised("billing")
  <2>1. "billing" \notin Keepers /\ {"billing pods"} # {} /\ {"billing pods"} \cap Stays = {}
        /\ "credentials" \notin {"billing pods"}
    BY DEF Keepers, Stays, KeptByDesign, LeftBehind
  <2>2. Row3("billing", BillingCreate, << >>, BillingDelete)
    BY Table
  <2> QED
    BY <2>1, <2>2, BillingHas, OneChart, Zenon
<1>4. PlanFits("controlplane") /\ "credentials" \notin Promised("controlplane")
  <2>1. "controlplane" \notin Keepers /\ {"control plane pods"} # {} /\ {"control plane pods"} \cap Stays = {}
        /\ "credentials" \notin {"control plane pods"}
    BY DEF Keepers, Stays, KeptByDesign, LeftBehind
  <2>2. Row3("controlplane", ControlPlaneCreate, << >>, ControlPlaneDelete)
    BY Table
  <2> QED
    BY <2>1, <2>2, ControlPlaneHas, OneChart, Zenon
<1>5. PlanFits("portal") /\ "credentials" \notin Promised("portal")
  <2>1. "portal" \notin Keepers /\ {"portal pods"} # {} /\ {"portal pods"} \cap Stays = {}
        /\ "credentials" \notin {"portal pods"}
    BY DEF Keepers, Stays, KeptByDesign, LeftBehind
  <2>2. Row3("portal", PortalCreate, << >>, PortalDelete)
    BY Table
  <2> QED
    BY <2>1, <2>2, PortalHas, OneChart, Zenon
<1>6. PlanFits("gateway") /\ "credentials" \notin Promised("gateway")
  <2>1. "gateway" \notin Keepers /\ {"gateway pods"} # {} /\ {"gateway pods"} \cap Stays = {}
        /\ "credentials" \notin {"gateway pods"}
    BY DEF Keepers, Stays, KeptByDesign, LeftBehind
  <2>2. Row3("gateway", GatewayCreate, << >>, GatewayDelete)
    BY Table
  <2> QED
    BY <2>1, <2>2, GatewayHas, OneChart, Zenon
<1>7. PlanFits("rpm") /\ "credentials" \notin Promised("rpm")
  <2>1. "rpm" \notin Keepers /\ {"rpm pods"} # {} /\ {"rpm pods"} \cap Stays = {}
        /\ "credentials" \notin {"rpm pods"}
    BY DEF Keepers, Stays, KeptByDesign, LeftBehind
  <2>2. Row3("rpm", RPMCreate, << >>, RPMDelete)
    BY Table
  <2> QED
    BY <2>1, <2>2, LimitersHave, OneChart, Zenon
<1>8. PlanFits("tpm") /\ "credentials" \notin Promised("tpm")
  <2>1. "tpm" \notin Keepers /\ {"tpm pods"} # {} /\ {"tpm pods"} \cap Stays = {}
        /\ "credentials" \notin {"tpm pods"}
    BY DEF Keepers, Stays, KeptByDesign, LeftBehind
  <2>2. Row3("tpm", TPMCreate, << >>, TPMDelete)
    BY Table
  <2> QED
    BY <2>1, <2>2, LimitersHave, OneChart, Zenon
<1>9. PlanFits("nvidia") /\ "credentials" \notin Promised("nvidia")
  <2>1. "nvidia" \notin Keepers /\ {"device plugin"} # {} /\ {"device plugin"} \cap Stays = {}
        /\ "credentials" \notin {"device plugin"}
    BY DEF Keepers, Stays, KeptByDesign, LeftBehind
  <2>2. Row3("nvidia", AcceleratorCreate, << >>, AcceleratorDelete)
    BY Table
  <2> QED
    BY <2>1, <2>2, AcceleratorHas, OneChart, Zenon
<1> QED
  BY <1>1, <1>2, <1>3, <1>4, <1>5, <1>6, <1>7, <1>8, <1>9

LEMMA LonghornFits == PlanFits("longhorn") /\ "credentials" \notin Promised("longhorn")
<1> DEFINE u == Uninstall("longhorn", LonghornObjects)
           n == Need("storage class")
<1>1. Uninstalls(u) /\ u.on = "longhorn" /\ u.gives = LonghornObjects /\ n.do = "need"
  <2>1. u.do = "uninstall" /\ u.on = "longhorn" /\ u.gives = LonghornObjects
    BY Fields
  <2>2. n.do = "need"
    BY Fields
  <2> QED
    BY <2>1, <2>2 DEF Uninstalls
<1>2. /\ "longhorn" \notin Keepers /\ LonghornObjects # {} /\ LonghornObjects \cap Stays = {}
      /\ "credentials" \notin LonghornObjects
  BY DEF Keepers, LonghornObjects, Stays, KeptByDesign, LeftBehind
<1>3. Row3("longhorn", LonghornCreate, << >>, LonghornDelete)
  BY Table
<1>4. Has(LonghornCreate, {Install("longhorn", LonghornObjects)} \cup {n}) /\ Has(LonghornDelete, {u})
  BY LonghornHas
<1> HIDE DEF u, n
<1>5. \A st \in {n} : st.do = "need"
  BY <1>1
<1>6. /\ "longhorn" \in DOMAIN Plans /\ Plans["longhorn"].update = << >>
      /\ Has(Plans["longhorn"].create, {Install("longhorn", LonghornObjects)} \cup {n})
      /\ Has(Plans["longhorn"].delete, {u})
  BY <1>3, <1>4, Zenon DEF Row3
<1> DEFINE g == LonghornObjects
           N == {n}
<1>7. /\ Has(Plans["longhorn"].create, {Install("longhorn", g)} \cup N) /\ \A st \in N : st.do = "need"
      /\ u.gives = g /\ g # {} /\ g \cap Stays = {} /\ "credentials" \notin g
  BY <1>1, <1>2, <1>5, <1>6
<1> HIDE DEF g, N
<1> QED
  BY <1>1, <1>2, <1>6, <1>7, OneReleaseFits

\* Manifests, all of which a delete names that do not stay.
AreManifests(C, R) ==
  /\ \A st \in C : st.do \in {"apply", "await"}
  /\ \A st \in R : st.do = "delete"
  /\ \A st \in C : st.do = "apply" =>
       st.on # "credentials" /\ (st.on \in Stays \/ \E e \in R : e.on = st.on)
  /\ \E st \in C : st.do = "apply" /\ st.on \notin Stays

LEMMA ManifestsAre ==
  \A s, c, d, C, R :
    Row3(s, c, << >>, d) /\ Has(c, C) /\ Has(d, R) /\ AreManifests(C, R)
    => PlanFits(s) /\ "credentials" \notin Promised(s)
<1> SUFFICES ASSUME NEW s, NEW c, NEW d, NEW C, NEW R, Row3(s, c, << >>, d), Has(c, C), Has(d, R),
                    AreManifests(C, R)
             PROVE  PlanFits(s) /\ "credentials" \notin Promised(s)
  BY Zenon
<1>1. s \in DOMAIN Plans /\ Has(Plans[s].create, C) /\ Plans[s].update = << >> /\ Has(Plans[s].delete, R)
  BY DEF Row3
<1> QED
  BY <1>1, ManifestsFit DEF AreManifests

LEMMA RoutesFit ==
  \A s \in {"httproute", "virtualservice"} : PlanFits(s) /\ "credentials" \notin Promised(s)
<1> DEFINE a == Apply("parent")
           b == Apply("route")
           d == Delete("route")
<1>1. /\ a.do = "apply" /\ a.on = "parent" /\ b.do = "apply" /\ b.on = "route"
      /\ d.do = "delete" /\ d.on = "route"
  BY Fields
<1>2. /\ Has(HTTPRouteCreate, {a, b}) /\ Has(HTTPRouteDelete, {d})
      /\ Has(VirtualServiceCreate, {a, b}) /\ Has(VirtualServiceDelete, {d})
  BY RoutesHave
<1> HIDE DEF a, b, d
<1>3. "parent" \in Stays /\ "route" \notin Stays
  BY DEF Stays, KeptByDesign, LeftBehind
<1>4. AreManifests({a, b}, {d})
  BY <1>1, <1>3 DEF AreManifests
<1>5. /\ Row3("httproute", HTTPRouteCreate, << >>, HTTPRouteDelete)
      /\ Row3("virtualservice", VirtualServiceCreate, << >>, VirtualServiceDelete)
  BY Table
<1>6. PlanFits("httproute") /\ "credentials" \notin Promised("httproute")
  BY <1>2, <1>4, <1>5, ManifestsAre, Zenon
<1>7. PlanFits("virtualservice") /\ "credentials" \notin Promised("virtualservice")
  BY <1>2, <1>4, <1>5, ManifestsAre, Zenon
<1> QED
  BY <1>6, <1>7

LEMMA ModelsFit ==
  \A s \in {"vllm", "llamacpp"} : PlanFits(s) /\ "credentials" \notin Promised(s)
<1> DEFINE n == Apply("namespace")
           a == Apply("deployment")
           b == Apply("service")
           p == Apply("model network policy")
           m == Apply("service monitor")
           w == Await("deployment")
           d == Delete("deployment")
           e == Delete("service")
           C == {n, a, b, p, m} \cup {w}
           L == {n, a, b} \cup {w}
           R == {d, e}
<1>1. /\ n.do = "apply" /\ n.on = "namespace" /\ a.do = "apply" /\ a.on = "deployment"
      /\ b.do = "apply" /\ b.on = "service" /\ p.do = "apply" /\ p.on = "model network policy"
      /\ m.do = "apply" /\ m.on = "service monitor" /\ w.do = "await"
      /\ d.do = "delete" /\ d.on = "deployment" /\ e.do = "delete" /\ e.on = "service"
  <2>1. n.do = "apply" /\ n.on = "namespace"
    BY Fields
  <2>2. a.do = "apply" /\ a.on = "deployment"
    BY Fields
  <2>3. b.do = "apply" /\ b.on = "service"
    BY Fields
  <2>4. p.do = "apply" /\ p.on = "model network policy"
    BY Fields
  <2>5. m.do = "apply" /\ m.on = "service monitor"
    BY Fields
  <2>6. w.do = "await"
    BY Fields
  <2>7. d.do = "delete" /\ d.on = "deployment" /\ e.do = "delete" /\ e.on = "service"
    BY Fields
  <2> QED
    BY <2>1, <2>2, <2>3, <2>4, <2>5, <2>6, <2>7
<1>2. /\ Has(VLLMCreate, C) /\ Has(VLLMDelete, R)
      /\ Has(LlamaCreate, L) /\ Has(LlamaDelete, {e, d})
  BY VLLMHas, LlamaHas
<1> HIDE DEF n, a, b, p, m, w, d, e
<1>3. /\ {"namespace", "model network policy", "service monitor"} \subseteq Stays
      /\ "deployment" \notin Stays
  BY DEF Stays, KeptByDesign, LeftBehind
<1>4. AreManifests(C, R)
  BY <1>1, <1>3 DEF AreManifests
<1>5. L \subseteq C /\ a \in L /\ {e, d} = R
  OBVIOUS
<1>6. AreManifests(L, R)
  BY <1>1, <1>3, <1>4, <1>5 DEF AreManifests
<1>7. Has(LlamaDelete, R)
  BY <1>2, <1>5
<1> HIDE DEF C, L, R
<1>8. /\ Row3("vllm", VLLMCreate, << >>, VLLMDelete)
      /\ Row3("llamacpp", LlamaCreate, << >>, LlamaDelete)
  BY Table
<1>9. PlanFits("vllm") /\ "credentials" \notin Promised("vllm")
  BY <1>2, <1>4, <1>8, ManifestsAre
<1>10. PlanFits("llamacpp") /\ "credentials" \notin Promised("llamacpp")
  BY <1>2, <1>4, <1>6, <1>7, <1>8, ManifestsAre
<1> QED
  BY <1>9, <1>10
-------------------------------------------------------------------------------
(* The order of two steps in a plan.                                       *)

First(plan, a, b) == \A i, j \in DOMAIN plan : plan[i] = a /\ plan[j] = b => i < j

\* The step is not among those of a part of a plan.
Without(plan, a) == IsPlan(plan) /\ a \notin Steps(plan)

LEMMA Parts ==
  ASSUME NEW p, NEW q, IsPlan(p), IsPlan(q)
  PROVE  /\ Len(p) \in Nat /\ DOMAIN p = 1..Len(p) /\ Len(q) \in Nat /\ DOMAIN q = 1..Len(q)
         /\ DOMAIN (p \o q) = 1..(Len(p) + Len(q))
         /\ \A i \in 1..(Len(p) + Len(q)) : (p \o q)[i] = IF i <= Len(p) THEN p[i] ELSE q[i - Len(p)]
<1> DEFINE S == Steps(p) \cup Steps(q)
<1>1. p \in Seq(S) /\ q \in Seq(S)
  BY SeqMonotonic DEF IsPlan
<1>2. /\ p \o q \in Seq(S) /\ Len(p \o q) = Len(p) + Len(q)
      /\ \A i \in 1 .. Len(p) + Len(q) : (p \o q)[i] = IF i <= Len(p) THEN p[i] ELSE q[i - Len(p)]
  BY <1>1, ConcatProperties
<1> QED
  BY <1>1, <1>2, LenProperties

\* A step of the first part only, and one of the second,
LEMMA FirstCut ==
  ASSUME NEW p, NEW q, NEW a, NEW b, Without(p, b), Without(q, a)
  PROVE  First(p \o q, a, b)
<1>1. IsPlan(p) /\ IsPlan(q)
  BY DEF Without
<1>2. \A i \in DOMAIN p : p[i] # b
  BY DEF Without, Steps
<1>3. \A i \in DOMAIN q : q[i] # a
  BY DEF Without, Steps
<1> SUFFICES ASSUME NEW i \in DOMAIN (p \o q), NEW j \in DOMAIN (p \o q),
                    (p \o q)[i] = a, (p \o q)[j] = b
             PROVE  i < j
  BY DEF First
<1>4. i <= Len(p)
  <2> SUFFICES ASSUME ~(i <= Len(p)) PROVE FALSE
    OBVIOUS
  <2>1. i - Len(p) \in DOMAIN q /\ q[i - Len(p)] = a
    BY <1>1, Parts
  <2> QED
    BY <1>3, <2>1
<1>5. ~(j <= Len(p))
  <2> SUFFICES ASSUME j <= Len(p) PROVE FALSE
    OBVIOUS
  <2>1. j \in DOMAIN p /\ p[j] = b
    BY <1>1, Parts
  <2> QED
    BY <1>2, <2>1
<1>6. i \in Nat /\ j \in Nat /\ Len(p) \in Nat
  BY <1>1, Parts
<1> QED
  BY <1>4, <1>5, <1>6

\* two of the first part,
LEMMA FirstLeft ==
  ASSUME NEW p, NEW q, NEW a, NEW b, IsPlan(p), First(p, a, b), Without(q, a)
  PROVE  First(p \o q, a, b)
<1>1. IsPlan(q) /\ \A i \in DOMAIN q : q[i] # a
  BY DEF Without, Steps
<1> SUFFICES ASSUME NEW i \in DOMAIN (p \o q), NEW j \in DOMAIN (p \o q),
                    (p \o q)[i] = a, (p \o q)[j] = b
             PROVE  i < j
  BY DEF First
<1>2. i <= Len(p)
  <2> SUFFICES ASSUME ~(i <= Len(p)) PROVE FALSE
    OBVIOUS
  <2>1. i - Len(p) \in DOMAIN q /\ q[i - Len(p)] = a
    BY <1>1, Parts
  <2> QED
    BY <1>1, <2>1
<1>3. i \in DOMAIN p /\ p[i] = a
  BY <1>1, <1>2, Parts
<1>4. i \in Nat /\ j \in Nat /\ Len(p) \in Nat
  BY <1>1, Parts
<1>5. CASE j <= Len(p)
  <2>1. j \in DOMAIN p /\ p[j] = b
    BY <1>1, <1>5, Parts
  <2> QED
    BY <1>3, <2>1 DEF First
<1>6. CASE ~(j <= Len(p))
  BY <1>2, <1>4, <1>6
<1> QED
  BY <1>5, <1>6

\* or two of the second.
LEMMA FirstRight ==
  ASSUME NEW p, NEW q, NEW a, NEW b, IsPlan(q), First(q, a, b), Without(p, b)
  PROVE  First(p \o q, a, b)
<1>1. IsPlan(p) /\ \A i \in DOMAIN p : p[i] # b
  BY DEF Without, Steps
<1> SUFFICES ASSUME NEW i \in DOMAIN (p \o q), NEW j \in DOMAIN (p \o q),
                    (p \o q)[i] = a, (p \o q)[j] = b
             PROVE  i < j
  BY DEF First
<1>2. ~(j <= Len(p))
  <2> SUFFICES ASSUME j <= Len(p) PROVE FALSE
    OBVIOUS
  <2>1. j \in DOMAIN p /\ p[j] = b
    BY <1>1, Parts
  <2> QED
    BY <1>1, <2>1
<1>3. j - Len(p) \in DOMAIN q /\ q[j - Len(p)] = b
  BY <1>1, <1>2, Parts
<1>4. i \in Nat /\ j \in Nat /\ Len(p) \in Nat
  BY <1>1, Parts
<1>5. CASE ~(i <= Len(p))
  <2>1. i - Len(p) \in DOMAIN q /\ q[i - Len(p)] = a
    BY <1>1, <1>5, Parts
  <2>2. i - Len(p) < j - Len(p)
    BY <1>3, <2>1 DEF First
  <2> QED
    BY <1>4, <2>2
<1>6. CASE i <= Len(p)
  BY <1>2, <1>4, <1>6
<1> QED
  BY <1>5, <1>6

LEMMA FirstPair == \A a, b : a # b => First(<<a, b>>, a, b)
BY DEF First

LEMMA WithoutOf == \A plan, E, a : Has(plan, E) /\ a.do # "check" /\ a \notin E => Without(plan, a)
BY DEF Has, Without

\* Of two steps of which the first comes first, it does.
LEMMA FirstUsed ==
  ASSUME NEW plan, NEW a, NEW b, First(plan, a, b)
  PROVE  /\ \A i \in DOMAIN plan : plan[i] = a /\ b \in Steps(plan) =>
              \E j \in DOMAIN plan : j > i /\ plan[j] = b
         /\ \A j \in DOMAIN plan : plan[j] = b /\ a \in Steps(plan) =>
              \E i \in DOMAIN plan : i < j /\ plan[i] = a
<1>1. \A x, y \in DOMAIN plan : x < y => y > x
  OBVIOUS
<1> QED
  BY <1>1 DEF First, Steps

-------------------------------------------------------------------------------
(* The deployments whose plans have an order.                              *)

\* Grafana's credentials are asked for before the chart is installed.
LEMMA ObservabilityFits == PlanFits("kps") /\ Releases("kps") = {"kps"}
<1> DEFINE a == AdoptOrGenerate("kps")
           i == Install("kps", StackObjects)
           u == UninstallIfAny("kps", StackObjects)
           Pre == DriverForStored \o ObservabilityPrerequisites \o ResolveGrafanaCredentials
<1>1. /\ i.do = "install" /\ i.on = "kps" /\ i.gives = StackObjects
      /\ u.do = "uninstall_if_any" /\ u.on = "kps" /\ u.gives = StackObjects
  BY Fields
<1>2. a.do = "adopt_or_generate" /\ a.on = "kps"
  BY Fields
<1>3. /\ StackObjects # {} /\ StackObjects \cap Stays = {} /\ "credentials" \in StackObjects
      /\ "kps" \in Keepers /\ Holder("kps") = "kps"
  BY DEF StackObjects, Stays, KeptByDesign, LeftBehind, Keepers, Holder
<1>4. Row3("kps", ObservabilityCreate, << >>, ObservabilityDelete)
  BY Table
<1>5. Has(ObservabilityCreate, {a} \cup {i}) /\ Has(ObservabilityDelete, {u})
  BY ObservabilityHas
<1>6. First(ObservabilityCreate, a, i)
  <2>1. Has(ResolveGrafanaCredentials, {a}) /\ Has(<<i>>, {i})
    BY HasTuple, Zenon DEF ResolveGrafanaCredentials
  <2>2. Has(Pre, {a})
    BY <2>1, Prefixes, HasAfter, Zenon DEF ObservabilityPrerequisites
  <2>3. ObservabilityCreate = Pre \o <<i>>
    BY Zenon DEF ObservabilityCreate
  <2> HIDE DEF a, i, Pre
  <2>4. a # i
    BY <1>1, <1>2
  <2>5. Without(Pre, i) /\ Without(<<i>>, a)
    BY <1>1, <1>2, <2>1, <2>2, <2>4, WithoutOf
  <2> QED
    BY <2>3, <2>5, FirstCut
<1>7. {i} \cup {a} = {a} \cup {i}
  OBVIOUS
<1>8. "kps" \in DOMAIN Plans /\ Plans["kps"].update = << >>
      /\ Has(Plans["kps"].create, {i} \cup {a}) /\ Has(Plans["kps"].delete, {u})
  BY <1>4, <1>5, <1>7 DEF Row3
<1> HIDE DEF a, i, u, Pre
<1>9. /\ CreateFits("kps", Plans["kps"].create) /\ DeleteFits("kps", Plans["kps"].delete)
      /\ Releases("kps") = {"kps"}
  <2>1. \A st \in {a} : st.do \in {"need", "need_release", "adopt_or_generate"}
    BY <1>2
  <2>2. Uninstalls(u)
    BY <1>1 DEF Uninstalls
  <2>3. IsChart("kps", "kps", StackObjects, i, {a}, u)
    BY <1>1, <1>3, <1>8, <2>1, <2>2 DEF IsChart
  <2> QED
    BY <2>3, ChartMakes
<1>10. Careful("kps", ObservabilityCreate)
  <2>1. a \in Steps(ObservabilityCreate)
        /\ \A st \in Steps(ObservabilityCreate) : st.do = "check" \/ st = a \/ st = i
    BY <1>5 DEF Has
  <2>2. Asks(a) /\ ~Remakes(a) /\ \A st : st.do = "check" => ~Asks(st) /\ ~Remakes(st)
    BY <1>2 DEF Asks, Remakes
  <2>3. ~Asks(i)
    BY <1>1 DEF Asks
  <2>4. CarefulSteps("kps", ObservabilityCreate)
    BY <1>1, <1>2, <1>3, <2>1, <2>2, <2>3 DEF CarefulSteps
  <2>5. ASSUME NEW k \in DOMAIN ObservabilityCreate, Remakes(ObservabilityCreate[k])
        PROVE  \E j \in DOMAIN ObservabilityCreate : j < k /\ Asks(ObservabilityCreate[j])
    <3>1. ObservabilityCreate[k] = i
      BY <2>1, <2>2, <2>5 DEF Steps
    <3>2. PICK j \in DOMAIN ObservabilityCreate : j < k /\ ObservabilityCreate[j] = a
      BY <1>6, <2>1, <3>1, FirstUsed
    <3> QED
      BY <2>2, <3>2
  <2> QED
    BY <2>4, <2>5 DEF Careful
<1>11. Careful("kps", ObservabilityDelete)
  <2>1. \A st \in {u} : Careless("kps", st)
    BY <1>1, <1>3 DEF Careless, Remakes, Asks
  <2> QED
    BY <1>5, <2>1, CarelessPlan
<1>12. Careful("kps", << >>) /\ UpdateFits("kps", << >>)
  <2>1. Has(<< >>, {}) /\ \A st \in {} : Careless("kps", st)
    BY HasTuple
  <2> QED
    BY <2>1, NoUpdate, CarelessPlan
<1>13. \A v \in Verbs : Careful("kps", Plans["kps"][v])
  BY <1>4, <1>10, <1>11, <1>12 DEF Row3, Verbs
<1> QED
  BY <1>4, <1>9, <1>12, <1>13 DEF PlanFits, Row3

\* What is cleared away is what the release that is then installed brings.
ClearsThenInstalls(s, plan, c, i) ==
  /\ c.do = "clear_failed" /\ i.do = "install" /\ c.on = i.on
  /\ First(plan, c, i) /\ i \in Steps(plan)
  /\ \A st \in Steps(plan) : st.do = "clear_failed" => st = c
  /\ \A st \in Steps(plan) : st.do = "install" => st = i
  /\ \A st \in Steps(plan) : st.do # "refuse"
  /\ \A st \in Steps(plan) : st.do = "apply" => \A r \in Releases(s) : ~OwnedBy(s, r, st.on)

LEMMA ClearedOrder ==
  ASSUME NEW s, NEW plan, NEW c, NEW i, ClearsThenInstalls(s, plan, c, i),
         \A o \in Promised(s) : o \in c.gives => o \in i.gives,
         \A o \in Awaited(s) : \E st \in Steps(plan) : Waits(st, o) /\ First(plan, c, st)
  PROVE  BuildOrder(s, plan)
<1> USE DEF ClearsThenInstalls
<1>1. \A j \in DOMAIN plan : plan[j] \in Steps(plan)
  BY DEF Steps
<1>2. ASSUME NEW j \in DOMAIN plan, NEW o \in Promised(s), Clears(plan[j], o)
      PROVE  \E k \in DOMAIN plan : k > j /\ Brings(plan[k], o)
  <2>1. plan[j] = c /\ o \in c.gives
    BY <1>1, <1>2 DEF Clears
  <2>2. PICK k \in DOMAIN plan : k > j /\ plan[k] = i
    BY <2>1, FirstUsed
  <2> QED
    BY <2>1, <2>2 DEF Brings
<1>3. \A j, k \in DOMAIN plan : plan[j].do = "clear_failed" /\ plan[k].do = "install" => j < k
  <2>1. \A j \in DOMAIN plan : plan[j].do = "clear_failed" => plan[j] = c
    BY <1>1
  <2>2. \A k \in DOMAIN plan : plan[k].do = "install" => plan[k] = i
    BY <1>1
  <2> QED
    BY <2>1, <2>2 DEF First
<1>4. \A j \in DOMAIN plan : plan[j].do # "refuse"
        /\ (plan[j].do = "apply" => \A r \in Releases(s) : ~OwnedBy(s, r, plan[j].on))
  BY <1>1
<1>5. ASSUME NEW j \in DOMAIN plan, plan[j].do = "clear_failed", NEW o \in Awaited(s)
      PROVE  \E k \in DOMAIN plan : k > j /\ Waits(plan[k], o)
  <2>1. plan[j] = c
    BY <1>1, <1>5
  <2>2. PICK st \in Steps(plan) : Waits(st, o) /\ First(plan, c, st)
    OBVIOUS
  <2>3. PICK k \in DOMAIN plan : k > j /\ plan[k] = st
    BY <2>1, <2>2, FirstUsed
  <2> QED
    BY <2>2, <2>3
<1> QED
  BY <1>2, <1>3, <1>4, <1>5 DEF BuildOrder

\* What a create waits for, it has a step for.
LEMMA AwaitedAre ==
  ASSUME NEW s, NEW E, Has(Plans[s].create, E)
  PROVE  \A o \in Awaited(s) : \E st \in E : st.do = "await" /\ st.on = o
BY DEF Has, Awaited

LEMMA ValkeyFits == PlanFits("valkey") /\ "credentials" \notin Promised("valkey")
<1> DEFINE g == {"valkey pods"}
           c == ClearFailed("valkey", g)
           i == Install("valkey", g)
           n == NeedRelease("valkey")
           u == UninstallIfAny("valkey", g)
           Pre == DriverFor \o ValkeyPrerequisites
<1>1. /\ c.do = "clear_failed" /\ c.on = "valkey" /\ c.gives = g
      /\ i.do = "install" /\ i.on = "valkey" /\ i.gives = g
      /\ u.do = "uninstall_if_any" /\ u.on = "valkey" /\ u.gives = g
  <2> HIDE DEF g
  <2> QED
    BY Fields
<1>2. n.do = "need_release"
  BY Fields
<1>3. Row3("valkey", ValkeyCreate, ValkeyUpdate, ValkeyDelete)
  BY Table
<1>4. /\ Has(ValkeyCreate, {c, i} \cup {n}) /\ Has(ValkeyUpdate, ({n} \cup {c, i}) \cup {n})
      /\ Has(ValkeyDelete, {u})
  BY ValkeyHas
<1>5. /\ Has(Pre, {}) /\ Has(ValkeyDeploy, {c, i}) /\ Has(<<n>>, {n}) /\ Has(Pre \o <<n>>, {n})
      /\ Has(Pre \o ValkeyDeploy, {c, i}) /\ Has(Pre \o <<n>> \o ValkeyDeploy, {n} \cup {c, i})
  <2>1. Has(Pre, {})
    BY Prefixes, HasAfter, Zenon
  <2>2. Has(ValkeyDeploy, {c, i}) /\ Has(<<n>>, {n})
    BY HasTuple, Zenon DEF ValkeyDeploy
  <2> HIDE DEF Pre, c, i, n
  <2>3. Has(Pre \o <<n>>, {n}) /\ Has(Pre \o ValkeyDeploy, {c, i})
    BY <2>1, <2>2, HasAfter, Zenon
  <2> QED
    BY <2>1, <2>2, <2>3, HasJoin, Zenon
<1>6. ValkeyDeploy = <<c, i>> /\ ValkeyCreate = Pre \o ValkeyDeploy \o <<n>>
      /\ ValkeyUpdate = Pre \o <<n>> \o ValkeyDeploy \o <<n>>
  BY Zenon DEF ValkeyDeploy, ValkeyCreate, ValkeyUpdate
<1>7. g \cap Stays = {} /\ g # {} /\ "credentials" \notin g /\ "valkey" \notin Keepers
  BY DEF Stays, KeptByDesign, LeftBehind, Keepers
<1> HIDE DEF g, c, i, n, u, Pre
<1>8. c # i /\ c # n /\ i # n
  BY <1>1, <1>2
<1>9. First(ValkeyCreate, c, i) /\ First(ValkeyUpdate, c, i)
  <2>1. First(ValkeyDeploy, c, i)
    BY <1>6, <1>8, FirstPair
  <2>2. Without(Pre, i) /\ Without(Pre \o <<n>>, i) /\ Without(<<n>>, c)
    BY <1>1, <1>5, <1>8, WithoutOf
  <2>3. IsPlan(ValkeyDeploy) /\ IsPlan(Pre \o ValkeyDeploy) /\ IsPlan(Pre \o <<n>> \o ValkeyDeploy)
    BY <1>5 DEF Has
  <2>4. First(Pre \o ValkeyDeploy, c, i) /\ First(Pre \o <<n>> \o ValkeyDeploy, c, i)
    BY <2>1, <2>2, <2>3, FirstRight
  <2> QED
    BY <1>6, <2>2, <2>3, <2>4, FirstLeft
<1>10. \A o : o \in Given(ValkeyCreate) <=> o \in g
  BY <1>1, <1>2, <1>4, GivenOf DEF Helms
<1>11. Promised("valkey") = g /\ Removable("valkey") = g
  <2>1. \A o : o \in Promised("valkey") <=> o \in g
    BY <1>3, <1>7, <1>10, StaysAre DEF Promised, Row3
  <2> QED
    BY <1>7, <2>1, AllRemovable
<1>12. Releases("valkey") = {"valkey"}
  BY <1>1, <1>2, <1>3, <1>4, ReleasesOf DEF Helms, Row3
<1>13. \A q, o : OwnedBy("valkey", q, o) <=> q = "valkey" /\ o \in g
  BY <1>1, <1>3, <1>4, OwnedOf DEF Row3, Uninstalls
<1>14. "valkey" \in AllReleases /\ g \subseteq AllObjects
  BY <1>3, <1>11, <1>12, Members DEF Row3
<1>15. \A st \in {c, i, n} : BuildStep("valkey", st) /\ Careless("valkey", st)
          /\ st.do \notin {"refuse", "apply", "done_if", "done_if_release"}
  BY <1>1, <1>2, <1>7, <1>11, <1>12, <1>13, <1>14
     DEF BuildStep, Careless, Helms, Uninstalls, Deletes, Remakes, Asks
<1>16. /\ \A st \in Steps(ValkeyCreate) : st.do = "check" \/ st = c \/ st = i \/ st = n
       /\ \A st \in Steps(ValkeyUpdate) : st.do = "check" \/ st = c \/ st = i \/ st = n
       /\ i \in Steps(ValkeyCreate) /\ i \in Steps(ValkeyUpdate)
  BY <1>4 DEF Has
<1>17. /\ ClearsThenInstalls("valkey", ValkeyCreate, c, i)
       /\ ClearsThenInstalls("valkey", ValkeyUpdate, c, i)
  BY <1>1, <1>2, <1>9, <1>16 DEF ClearsThenInstalls
<1>18. BuildOrder("valkey", ValkeyCreate) /\ BuildOrder("valkey", ValkeyUpdate)
  <2>1. \A o \in Awaited("valkey") : \E st \in {c, i} \cup {n} : st.do = "await" /\ st.on = o
    <3> DEFINE E == {c, i} \cup {n}
    <3>1. Has(Plans["valkey"].create, E)
      BY <1>3, <1>4 DEF Row3
    <3> HIDE DEF E
    <3>2. \A o \in Awaited("valkey") : \E st \in E : st.do = "await" /\ st.on = o
      BY <3>1, AwaitedAre
    <3> QED
      BY <3>2 DEF E
  <2>2. Awaited("valkey") = {}
    BY <1>1, <1>2, <2>1
  <2> QED
    BY <1>1, <1>17, <2>2, ClearedOrder
<1>19. /\ \A st \in {c, i} \cup {n} : st \in {c, i, n}
       /\ \A st \in ({n} \cup {c, i}) \cup {n} : st \in {c, i, n}
  OBVIOUS
<1>20. BuildSteps("valkey", ValkeyCreate) /\ BuildSteps("valkey", ValkeyUpdate)
  BY <1>4, <1>15, <1>19, BuildStepsOf
<1>21. CreateFits("valkey", ValkeyCreate)
  <2>1. \A o \in Promised("valkey") : \E st \in {c, i} \cup {n} : Brings(st, o)
    BY <1>1, <1>11 DEF Brings
  <2> QED
    BY <1>4, <1>7, <1>11, <1>14, <1>15, <1>18, <1>19, <1>20, <2>1, CreateOf
<1>22. UpdateFits("valkey", ValkeyUpdate)
  BY <1>4, <1>15, <1>18, <1>19, <1>20, UpdateOf
<1>23. DeleteFits("valkey", ValkeyDelete)
  <2>1. \A st \in {u} : RemoveStep("valkey", st)
    BY <1>1, <1>12, <1>13 DEF RemoveStep, Uninstalls
  <2>2. \A o \in Removable("valkey") : \E st \in {u} : Takes(st, o)
    BY <1>1, <1>11 DEF Takes, Uninstalls
  <2> QED
    BY <1>4, <2>1, <2>2, DeleteOf
<1>24. \A st \in {u} : Careless("valkey", st)
  BY <1>1, <1>7 DEF Careless, Remakes, Asks
<1>25. \A v \in Verbs : Careful("valkey", Plans["valkey"][v])
  <2>1. Careful("valkey", ValkeyCreate) /\ Careful("valkey", ValkeyUpdate) /\ Careful("valkey", ValkeyDelete)
    BY <1>4, <1>15, <1>19, <1>24, CarelessPlan
  <2> QED
    BY <1>3, <2>1 DEF Verbs, Row3
<1> QED
  BY <1>3, <1>7, <1>11, <1>21, <1>22, <1>23, <1>25 DEF PlanFits, Row3

LEMMA OperatorFits ==
  PlanFits("cnpg") /\ CnpgFits /\ "credentials" \notin Promised("cnpg")
<1> DEFINE h == {"clusters CRD"}
           g == {"clusters CRD", "operator pods"}
           w == {"operator pods"}
           a == DoneIfRelease("cnpg", h)
           i == Install("cnpg", g)
           n == Need("clusters CRD")
           u == UninstallIfAny("cnpg", w)
           d == Delete("operator namespace")
<1>1. /\ a.do = "done_if_release" /\ a.on = "cnpg"
      /\ i.do = "install" /\ i.on = "cnpg" /\ i.gives = g
      /\ u.do = "uninstall_if_any" /\ u.on = "cnpg" /\ u.gives = w
  <2> HIDE DEF g, h, w
  <2> QED
    BY Fields
<1>2. d.do = "delete"
  BY Fields
<1>3. n.do = "need"
  BY Fields
<1>4. Row3("cnpg", OperatorCreate, OperatorUpdate, OperatorDelete)
  BY Table
<1>5. /\ Has(OperatorCreate, {a, i} \cup {n}) /\ Has(OperatorUpdate, {i} \cup {n})
      /\ Has(OperatorDelete, {u, d})
  BY OperatorHas
<1>6. w \subseteq g /\ w # {} /\ "operator pods" \in g /\ g \cap {"credentials"} = {}
      /\ \A o : o \in w <=> o \in g /\ o \notin KeptByDesign
      /\ w \cap Stays = {}
  BY DEF Stays, KeptByDesign, LeftBehind
<1>7. "cnpg" \notin Keepers /\ "credentials" \notin w /\ w = {"operator pods"}
  BY DEF Keepers
<1> HIDE DEF h, g, w, a, i, n, u, d
<1>8. \A o : o \in Given(OperatorCreate) <=> o \in g
  BY <1>1, <1>3, <1>5, GivenOf DEF Helms
<1>9. Promised("cnpg") = w /\ Removable("cnpg") = w
  <2>1. \A o : o \in Promised("cnpg") <=> o \in w
    BY <1>4, <1>6, <1>8 DEF Promised, Row3
  <2> QED
    BY <1>6, <2>1, AllRemovable
<1>10. Releases("cnpg") = {"cnpg"}
  BY <1>1, <1>3, <1>4, <1>5, ReleasesOf DEF Helms, Row3
<1>11. \A q, o : OwnedBy("cnpg", q, o) <=> q = "cnpg" /\ o \in w
  BY <1>1, <1>2, <1>4, <1>5, OwnedOf DEF Row3, Uninstalls
<1>12. "cnpg" \in AllReleases /\ g \subseteq AllObjects
  BY <1>4, <1>8, <1>10, Members DEF Row3
<1>13. \A st \in {a, i, n} : BuildStep("cnpg", st) /\ Careless("cnpg", st) /\ Freely("cnpg", st)
          /\ st.do \notin {"refuse", "apply", "done_if"}
  <2>1. i.do # "done_if_release" /\ "credentials" \notin g
    BY <1>1, <1>6
  <2> QED
    BY <1>1, <1>3, <1>7, <1>9, <1>10, <1>11, <1>12, <2>1
     DEF BuildStep, Freely, Careless, Helms, Uninstalls, Deletes, Remakes, Asks
<1>14. /\ \A st \in {a, i} \cup {n} : st \in {a, i, n}
       /\ \A st \in {i} \cup {n} : st \in {a, i, n} /\ st.do # "done_if_release"
  BY <1>1, <1>3
<1>15. BuildSteps("cnpg", OperatorCreate) /\ BuildSteps("cnpg", OperatorUpdate)
  BY <1>5, <1>13, <1>14, BuildStepsOf
<1>16. BuildOrder("cnpg", OperatorCreate) /\ BuildOrder("cnpg", OperatorUpdate)
  BY <1>5, <1>13, <1>14, FreeOrder
<1>17. CreateFits("cnpg", OperatorCreate)
  <2>1. \A o \in Promised("cnpg") : \E st \in {a, i} \cup {n} : Brings(st, o)
    BY <1>1, <1>6, <1>9 DEF Brings
  <2>2. Removable("cnpg") # {} /\ Promised("cnpg") \subseteq AllObjects
    BY <1>6, <1>9, <1>12
  <2> QED
    BY <1>5, <1>13, <1>14, <1>15, <1>16, <2>1, <2>2, CreateOf
<1>18. UpdateFits("cnpg", OperatorUpdate)
  BY <1>5, <1>13, <1>14, <1>15, <1>16, UpdateOf
<1>19. DeleteFits("cnpg", OperatorDelete)
  <2>1. \A st \in {u, d} : RemoveStep("cnpg", st)
    BY <1>1, <1>2, <1>10, <1>11 DEF RemoveStep, Uninstalls, Deletes
  <2>2. \A o \in Removable("cnpg") : \E st \in {u, d} : Takes(st, o)
    BY <1>1, <1>9 DEF Takes, Uninstalls
  <2> QED
    BY <1>5, <2>1, <2>2, DeleteOf
<1>20. \A v \in Verbs : Careful("cnpg", Plans["cnpg"][v])
  <2>1. \A st \in {u, d} : Careless("cnpg", st)
    BY <1>1, <1>2, <1>7 DEF Careless, Remakes, Asks
  <2>2. Careful("cnpg", OperatorCreate) /\ Careful("cnpg", OperatorUpdate) /\ Careful("cnpg", OperatorDelete)
    BY <1>5, <1>13, <1>14, <2>1, CarelessPlan
  <2> QED
    BY <1>4, <2>2 DEF Verbs, Row3
<1>21. PlanFits("cnpg")
  BY <1>4, <1>17, <1>18, <1>19, <1>20 DEF PlanFits, Row3
<1>22. CnpgFits
  <2> DEFINE Fits(st) == /\ st.do \notin {"install_once", "clear_failed"}
                         /\ st.do = "install" => st.on = "cnpg" /\ "operator pods" \in st.gives
                         /\ Uninstalls(st) => st.on = "cnpg"
                         /\ st.do # "check" => st.on # "operator pods"
  <2>0. /\ a.on # "operator pods" /\ i.on # "operator pods" /\ n.on # "operator pods"
        /\ u.on # "operator pods" /\ d.on # "operator pods"
    BY Zenon DEF a, i, n, u, d, DoneIfRelease, Install, Need, UninstallIfAny, Delete, Do
  <2>1. \A st \in {a, i, n, u, d} : Fits(st)
    <3> DEFINE pods == "operator pods"
    <3>1. pods \in g /\ a.on # pods /\ i.on # pods /\ n.on # pods /\ u.on # pods /\ d.on # pods
      BY <1>6, <2>0
    <3>2. \A st : Fits(st) <=> /\ st.do \notin {"install_once", "clear_failed"}
                               /\ st.do = "install" => st.on = "cnpg" /\ pods \in st.gives
                               /\ Uninstalls(st) => st.on = "cnpg"
                               /\ st.do # "check" => st.on # pods
      BY Zenon
    <3> HIDE DEF pods, Fits
    <3> QED
      BY <1>1, <1>2, <1>3, <3>1, <3>2 DEF Uninstalls
  <2>2. \A st : st.do = "check" => Fits(st)
    BY DEF Uninstalls
  <2> HIDE DEF Fits
  <2>3. /\ \A st \in Steps(OperatorCreate) : Fits(st)
        /\ \A st \in Steps(OperatorUpdate) : Fits(st)
        /\ \A st \in Steps(OperatorDelete) : Fits(st)
    BY <1>5, <2>1, <2>2 DEF Has
  <2>4. \A v \in Verbs : \A st \in Steps(Plans["cnpg"][v]) : Fits(st)
    BY <1>4, <2>3 DEF Verbs, Row3
  <2>5. Promised("cnpg") = {"operator pods"} /\ Releases("cnpg") = {"cnpg"}
    BY <1>7, <1>9, <1>10
  <2>6. Awaited("cnpg") = {}
    <3>1. \A o \in Awaited("cnpg") : \E st \in {a, i} \cup {n} : st.do = "await" /\ st.on = o
      <4> DEFINE E == {a, i} \cup {n}
      <4>1. Has(Plans["cnpg"].create, E)
        BY <1>4, <1>5 DEF Row3
      <4> HIDE DEF E
      <4>2. \A o \in Awaited("cnpg") : \E st \in E : st.do = "await" /\ st.on = o
        BY <4>1, AwaitedAre
      <4> QED
        BY <4>2 DEF E
    <3> QED
      BY <1>1, <1>3, <3>1
  <2> QED
    BY <2>4, <2>5, <2>6 DEF CnpgFits, Fits
<1> QED
  BY <1>7, <1>9, <1>21, <1>22

LEMMA ClusterFits ==
  PlanFits("postgres") /\ PostgresFits /\ "credentials" \notin Promised("postgres")
<1> DEFINE pc == "postgres cluster"
           se == "app secret"
           ns == "namespace"
           q == DoneIf(pc)
           a == Apply(ns)
           b == Apply(se)
           c == Apply(pc)
           w == Await(pc)
           r == Refuse(pc)
           d == DeleteIfFound(pc)
           e == Delete(se)
           Pre == DriverFor \o ClusterPrerequisites \o <<Check("clusters CRD")>>
<1>1. pc # se /\ pc # ns /\ se # ns
  BY Zenon
<1>2. /\ ns \in KeptByDesign /\ pc \notin KeptByDesign /\ se \notin KeptByDesign
      /\ pc \notin Stays /\ se \notin Stays
  BY Zenon DEF Stays, KeptByDesign, LeftBehind
<1>3. /\ pc # "credentials" /\ se # "credentials" /\ ns # "credentials"
  BY Zenon
<1>4. Row3("postgres", ClusterCreate, ClusterUpdate, ClusterDelete)
  BY Table, Zenon
<1>5. /\ Has(ClusterCreate, ((({q} \cup {a}) \cup {b}) \cup {c}) \cup {w})
      /\ Has(ClusterUpdate, ({r} \cup {c}) \cup {w}) /\ Has(ClusterDelete, {d, e})
  BY ClusterHas, Zenon
<1>6. /\ ClusterCreate = Pre \o <<q>> \o <<a>> \o <<b>> \o <<c>> \o <<w>>
      /\ ClusterUpdate = Pre \o <<r>> \o <<c>> \o <<w>> /\ ClusterDelete = Pre \o <<d, e>>
  BY Zenon DEF ClusterCreate, ClusterUpdate, ClusterDelete, EnsureNamespace, ApplySecret, ApplyCluster
<1>7. Has(Pre, {})
  <2>1. Has(DriverFor \o ClusterPrerequisites, {})
    BY Prefixes, HasAfter, Zenon
  <2>2. Has(<<Check("clusters CRD")>>, {})
    BY OneCheck, Zenon
  <2> QED
    BY <2>1, <2>2, HasAfter, Zenon
<1>8. "postgres" \notin Keepers
  BY Zenon DEF Keepers
<1> HIDE DEF pc, se, ns, Pre
<1>9. /\ q.do = "done_if" /\ q.on = pc /\ a.do = "apply" /\ a.on = ns /\ b.do = "apply" /\ b.on = se
      /\ c.do = "apply" /\ c.on = pc /\ w.do = "await" /\ r.do = "refuse" /\ r.on = pc
      /\ d.do = "delete_if_found" /\ d.on = pc /\ e.do = "delete" /\ e.on = se
  BY Fields
<1>10. r.gives = {} /\ d.gives = {} /\ e.gives = {} /\ a.gives = {} /\ b.gives = {} /\ c.gives = {}
  BY DEF Refuse, DeleteIfFound, Delete, Apply, Do
<1> HIDE DEF q, a, b, c, w, r, d, e
<1>11. /\ Has(<<q>>, {q}) /\ Has(<<a>>, {a}) /\ Has(<<b>>, {b}) /\ Has(<<c>>, {c}) /\ Has(<<w>>, {w})
       /\ Has(<<r>>, {r}) /\ Has(Pre \o <<q>>, {q}) /\ Has(Pre \o <<q>> \o <<a>>, {q} \cup {a})
       /\ Has(Pre \o <<q>> \o <<a>> \o <<b>>, ({q} \cup {a}) \cup {b})
       /\ Has(Pre \o <<q>> \o <<a>> \o <<b>> \o <<c>>, (({q} \cup {a}) \cup {b}) \cup {c})
       /\ Has(Pre \o <<r>>, {r}) /\ Has(Pre \o <<r>> \o <<c>>, {r} \cup {c})
  <2>1. /\ Has(<<q>>, {q}) /\ Has(<<a>>, {a}) /\ Has(<<b>>, {b}) /\ Has(<<c>>, {c}) /\ Has(<<w>>, {w})
        /\ Has(<<r>>, {r})
    BY HasTuple, Zenon
  <2>2. Has(Pre \o <<q>>, {q}) /\ Has(Pre \o <<r>>, {r})
    BY <1>7, <2>1, HasAfter, Zenon
  <2>3. Has(Pre \o <<q>> \o <<a>>, {q} \cup {a}) /\ Has(Pre \o <<r>> \o <<c>>, {r} \cup {c})
    BY <2>1, <2>2, HasJoin, Zenon
  <2>4. Has(Pre \o <<q>> \o <<a>> \o <<b>>, ({q} \cup {a}) \cup {b})
    BY <2>1, <2>3, HasJoin, Zenon
  <2>5. Has(Pre \o <<q>> \o <<a>> \o <<b>> \o <<c>>, (({q} \cup {a}) \cup {b}) \cup {c})
    BY <2>1, <2>4, HasJoin, Zenon
  <2> QED
    BY <2>1, <2>2, <2>3, <2>4, <2>5
<1>12. a # b /\ b # c /\ a # c /\ q # c /\ w # c /\ w # b /\ r # c /\ r # w /\ d # e /\ q # b
  BY <1>1, <1>9
\* The order of the steps.
<1>13. First(ClusterCreate, b, c)
  <2>1. /\ Without(Pre \o <<q>> \o <<a>> \o <<b>>, c)
        /\ Without(<<c>>, b) /\ Without(<<w>>, b)
    <3>1. c \notin ({q} \cup {a}) \cup {b} /\ b \notin {c} /\ b \notin {w}
      BY <1>12
    <3>2. c.do # "check" /\ b.do # "check"
      BY <1>9
    <3>3. /\ Has(Pre \o <<q>> \o <<a>> \o <<b>>, ({q} \cup {a}) \cup {b})
          /\ Has(<<c>>, {c}) /\ Has(<<w>>, {w})
      BY <1>11
    <3>4. Without(Pre \o <<q>> \o <<a>> \o <<b>>, c)
      BY <3>1, <3>2, <3>3, WithoutOf, Zenon
    <3> QED
      BY <3>1, <3>2, <3>3, <3>4, WithoutOf, Zenon
  <2>2. First(Pre \o <<q>> \o <<a>> \o <<b>> \o <<c>>, b, c)
    BY <2>1, FirstCut
  <2>3. IsPlan(Pre \o <<q>> \o <<a>> \o <<b>> \o <<c>>)
    BY <1>11 DEF Has
  <2> QED
    BY <1>6, <2>1, <2>2, <2>3, FirstLeft
<1>14. First(ClusterUpdate, r, c) /\ First(ClusterUpdate, r, w)
  <2>1. /\ Without(Pre \o <<r>>, c) /\ Without(<<c>>, r) /\ Without(<<w>>, r)
        /\ Without(Pre \o <<r>> \o <<c>>, w)
    <3>1. c \notin {r} /\ r \notin {c} /\ r \notin {w} /\ w \notin {r} \cup {c}
      BY <1>12
    <3>2. c.do # "check" /\ r.do # "check" /\ w.do # "check"
      BY <1>9
    <3>3. Without(Pre \o <<r>>, c) /\ Without(<<c>>, r)
      BY <1>11, <3>1, <3>2, WithoutOf, Zenon
    <3>4. Without(<<w>>, r)
      BY <1>11, <3>1, <3>2, WithoutOf, Zenon
    <3>5. Has(Pre \o <<r>> \o <<c>>, {r} \cup {c})
      BY <1>11
    <3>6. Without(Pre \o <<r>> \o <<c>>, w)
      BY <3>1, <3>2, <3>5, WithoutOf, Zenon
    <3> QED
      BY <3>3, <3>4, <3>6
  <2>2. First(Pre \o <<r>> \o <<c>>, r, c) /\ IsPlan(Pre \o <<r>> \o <<c>>)
    BY <1>11, <2>1, FirstCut DEF Has
  <2> QED
    BY <1>6, <2>1, <2>2, FirstLeft, FirstCut
<1>15. First(ClusterDelete, d, e)
  <2>1. First(<<d, e>>, d, e)
    BY <1>12, FirstPair
  <2>2. Without(Pre, e) /\ IsPlan(<<d, e>>)
    BY <1>7, <1>9, HasTuple, WithoutOf DEF Has
  <2> QED
    BY <1>6, <2>1, <2>2, FirstRight
<1>16. /\ \A st \in Steps(ClusterCreate) : st.do = "check" \/ st \in {q, a, b, c, w}
       /\ \A st \in Steps(ClusterUpdate) : st.do = "check" \/ st \in {r, c, w}
       /\ \A st \in Steps(ClusterDelete) : st.do = "check" \/ st \in {d, e}
       /\ r \in Steps(ClusterUpdate)
  BY <1>5 DEF Has
\* What it is made of.
<1>17. \A o : o \in Given(ClusterCreate) <=> o \in {ns, se, pc}
  BY <1>5, <1>9, GivenOf DEF Helms
<1>18. Promised("postgres") = {se, pc} /\ Removable("postgres") = {se, pc}
  <2>1. \A o : o \in Promised("postgres") <=> o \in {se, pc}
    BY <1>1, <1>2, <1>4, <1>17 DEF Promised, Row3
  <2>2. {se, pc} \cap Stays = {}
    BY <1>2
  <2> QED
    BY <2>1, <2>2, AllRemovable
<1>19. Releases("postgres") = {}
  BY <1>4, <1>5, <1>9, ReleasesOf DEF Helms, Row3
<1>20. {ns, se, pc} \subseteq AllObjects
  BY <1>4, <1>17, Members DEF Row3
\* So its plans are fit,
<1>21. /\ \A st \in {q, a, b, c, w, r} : BuildStep("postgres", st) /\ Careless("postgres", st)
       /\ \A st \in {q, a, b, c, w} : Freely("postgres", st) /\ st.do # "refuse"
  <2>1. \A st : ~Uninstalls(st) /\ ~Deletes(st) /\ (st.do = "done_if" => st.on = pc)
             /\ st.do \notin {"done_if_release", "install_once"} /\ ~Helms(st)
             /\ (st.do = "apply" => st.on \in AllObjects)
             => BuildStep("postgres", st)
    <3>1. \A st : ~Uninstalls(st) /\ ~Deletes(st) /\ (st.do = "done_if" => st.on = pc)
             /\ st.do # "done_if_release" /\ st.do # "install_once" /\ ~Helms(st)
             /\ (st.do = "apply" => st.on \in AllObjects)
             /\ (\A x \in Releases("postgres") : FALSE)
             => BuildStep("postgres", st)
      BY Zenon DEF BuildStep, pc
    <3> QED
      BY <1>19, <3>1
  <2>2. \A st \in {q, a, b, c, w, r} : BuildStep("postgres", st)
    BY <1>9, <1>20, <2>1 DEF Uninstalls, Deletes, Helms
  <2> QED
    BY <1>3, <1>8, <1>9, <1>19, <2>2 DEF Freely, Careless, Remakes, Asks
<1>22. /\ \A st \in (((({q} \cup {a}) \cup {b}) \cup {c}) \cup {w}) : st \in {q, a, b, c, w, r} /\ st \in {q, a, b, c, w}
       /\ \A st \in (({r} \cup {c}) \cup {w}) : st \in {q, a, b, c, w, r}
  OBVIOUS
<1>23. CreateFits("postgres", ClusterCreate)
  <2>1. BuildSteps("postgres", ClusterCreate) /\ BuildOrder("postgres", ClusterCreate)
    BY <1>5, <1>21, <1>22, BuildStepsOf, FreeOrder
  <2>2. \A o \in Promised("postgres") : \E st \in (((({q} \cup {a}) \cup {b}) \cup {c}) \cup {w}) : Brings(st, o)
    BY <1>9, <1>18 DEF Brings
  <2>3. Removable("postgres") # {} /\ Promised("postgres") \subseteq AllObjects
    BY <1>18, <1>20
  <2> QED
    BY <1>5, <1>21, <1>22, <2>1, <2>2, <2>3, CreateOf
<1>24. UpdateFits("postgres", ClusterUpdate)
  <2>1. BuildSteps("postgres", ClusterUpdate)
    BY <1>5, <1>21, <1>22, BuildStepsOf
  <2>2. \A j \in DOMAIN ClusterUpdate : ClusterUpdate[j] \in Steps(ClusterUpdate)
    BY DEF Steps
  <2>3. ASSUME NEW j \in DOMAIN ClusterUpdate, NEW i \in DOMAIN ClusterUpdate, ClusterUpdate[j].do = "refuse", i < j
        PROVE  ClusterUpdate[i].do \in {"check", "refuse"}
    <3>1. ClusterUpdate[j] = r
      BY <1>9, <1>16, <2>2, <2>3
    <3>2. ClusterUpdate[i] # c /\ ClusterUpdate[i] # w
      <4>1. i \in Nat /\ j \in Nat
        <5>1. ClusterUpdate \in Seq(Steps(ClusterUpdate))
          BY <1>5 DEF Has, IsPlan
        <5> QED
          BY <5>1, LenProperties
      <4> QED
        BY <1>14, <2>3, <3>1, <4>1 DEF First
    <3> QED
      BY <1>9, <1>16, <2>2, <3>2
  <2>4. BuildOrder("postgres", ClusterUpdate)
    <3>1. \A j \in DOMAIN ClusterUpdate : ClusterUpdate[j].do # "clear_failed"
      BY <1>9, <1>16, <2>2
    <3> QED
      BY <1>19, <2>3, <3>1 DEF BuildOrder, Clears
  <2>5. \A st \in (({r} \cup {c}) \cup {w}) : st.do \notin {"done_if", "done_if_release"}
    BY <1>9
  <2>6. \A st \in (({r} \cup {c}) \cup {w}) : st.do = "apply" => st.on = "postgres cluster"
    <3>1. r.do # "apply" /\ w.do # "apply" /\ c.on = "postgres cluster"
      BY <1>9 DEF pc
    <3> QED
      BY <3>1
  <2> QED
    BY <1>5, <2>1, <2>4, <2>5, <2>6, UpdateOf
<1>25. DeleteFits("postgres", ClusterDelete)
  <2>1. \A st \in {d, e} : RemoveStep("postgres", st)
    BY <1>9 DEF RemoveStep, Uninstalls, Deletes
  <2>2. \A o \in Removable("postgres") : \E st \in {d, e} : Takes(st, o)
    BY <1>9, <1>18 DEF Takes
  <2> QED
    BY <1>5, <2>1, <2>2, DeleteOf
<1>26. \A v \in Verbs : Careful("postgres", Plans["postgres"][v])
  <2>1. \A st \in {d, e} : Careless("postgres", st)
    BY <1>8, <1>9 DEF Careless, Remakes, Asks
  <2>2. Careful("postgres", ClusterCreate) /\ Careful("postgres", ClusterUpdate) /\ Careful("postgres", ClusterDelete)
    BY <1>5, <1>21, <1>22, <2>1, CarelessPlan
  <2> QED
    BY <1>4, <2>2 DEF Verbs, Row3
<1>27. PlanFits("postgres")
  BY <1>4, <1>23, <1>24, <1>25, <1>26 DEF PlanFits, Row3
\* and return from the middle only where they may.
<1>28. ClusterLast(ClusterCreate)
  <2>1. \A j \in DOMAIN ClusterCreate : ClusterCreate[j] \in Steps(ClusterCreate)
    BY DEF Steps
  <2>2. \A st \in Steps(ClusterCreate) : (Brings(st, pc) => st = c) /\ (Brings(st, se) => st = b)
    BY <1>1, <1>9, <1>16 DEF Brings
  <2>3. ClusterLast(ClusterCreate) <=>
          \A i, j \in DOMAIN ClusterCreate :
            Brings(ClusterCreate[i], pc) /\ Brings(ClusterCreate[j], se) => j < i
    BY Zenon DEF ClusterLast, pc, se
  <2> QED
    BY <1>13, <2>1, <2>2, <2>3 DEF First
<1>29. ClusterRefused(ClusterUpdate)
  <2>1. \A j \in DOMAIN ClusterUpdate : ClusterUpdate[j] \in Steps(ClusterUpdate)
    BY DEF Steps
  <2>2. \A st \in Steps(ClusterUpdate) : Brings(st, pc) => st = c
    BY <1>9, <1>16 DEF Brings
  <2>3. \A i \in DOMAIN ClusterUpdate : Brings(ClusterUpdate[i], pc) =>
          \E j \in DOMAIN ClusterUpdate : j < i /\ ClusterUpdate[j] = r
    BY <1>14, <1>16, <2>1, <2>2, FirstUsed
  <2>4. r.do = "refuse" /\ r.on = "postgres cluster"
    BY <1>9, Zenon DEF pc
  <2> QED
    BY <2>3, <2>4, Zenon DEF ClusterRefused, pc
<1>30. ClusterFirst(ClusterDelete)
  <2>1. \A j \in DOMAIN ClusterDelete : ClusterDelete[j] \in Steps(ClusterDelete)
    BY DEF Steps
  <2>2. \A st \in Steps(ClusterDelete) : (Takes(st, pc) => st = d) /\ (Takes(st, se) => st = e)
    BY <1>1, <1>9, <1>16 DEF Takes, Uninstalls
  <2>3. ClusterFirst(ClusterDelete) <=>
          \A i, j \in DOMAIN ClusterDelete :
            Takes(ClusterDelete[i], pc) /\ Takes(ClusterDelete[j], se) => i < j
    BY Zenon DEF ClusterFirst, pc, se
  <2> QED
    BY <1>15, <2>1, <2>2, <2>3 DEF First
<1>31. \A v \in Verbs : \A st \in Steps(Plans["postgres"][v]) :
         st.do \notin {"install", "install_once", "clear_failed", "uninstall", "uninstall_if_any"}
  <2> DEFINE Fits(st) == st.do \notin {"install", "install_once", "clear_failed", "uninstall", "uninstall_if_any"}
  <2>1. /\ \A st \in Steps(ClusterCreate) : Fits(st)
        /\ \A st \in Steps(ClusterUpdate) : Fits(st)
        /\ \A st \in Steps(ClusterDelete) : Fits(st)
    BY <1>9, <1>16
  <2> HIDE DEF Fits
  <2>2. \A v \in Verbs : \A st \in Steps(Plans["postgres"][v]) : Fits(st)
    BY <1>4, <2>1 DEF Verbs, Row3
  <2> QED
    BY <2>2 DEF Fits
<1>32. \A st \in Steps(Plans["postgres"].delete) : st.do # "check" /\ st.on = se => st.do = "delete"
  BY <1>1, <1>4, <1>9, <1>16 DEF Row3
<1>33. PostgresFits
  <2>1. Plans["postgres"].create = ClusterCreate /\ Plans["postgres"].update = ClusterUpdate
        /\ Plans["postgres"].delete = ClusterDelete
    BY <1>4 DEF Row3
  <2>2. Promised("postgres") = {"app secret", "postgres cluster"}
    BY <1>18, Zenon DEF pc, se
  <2>3. \A st \in Steps(Plans["postgres"].delete) : st.do # "check" /\ st.on = "app secret" => st.do = "delete"
    BY <1>32, Zenon DEF se
  <2>4. ClusterLast(Plans["postgres"].create) /\ ClusterRefused(Plans["postgres"].update)
        /\ ClusterFirst(Plans["postgres"].delete)
    BY <1>28, <1>29, <1>30, <2>1
  <2> QED
    BY <1>31, <2>2, <2>3, <2>4, Zenon DEF PostgresFits
<1> QED
  BY <1>3, <1>18, <1>27, <1>33

LEMMA IngressFits == PlanFits("metallb") /\ "credentials" \notin Promised("metallb")
<1> DEFINE ap == "address pool"
           M == MetalLBObjects
           B == {"istio CRDs"}
           D1 == {"istiod"}
           G == {"ingress service"}
           MA == MetalLBObjects \cup {ap}
           i == Install("metallb", M)
           n == Need("pool CRDs")
           a == Apply(ap)
           j == Install("istio-base", B)
           k == Install("istiod", D1)
           g == Install("ingress", G)
           w == Await("ingress service")
           ug == UninstallIfAny("ingress", G)
           uk == UninstallIfAny("istiod", D1)
           uj == UninstallIfAny("istio-base", B)
           ui == UninstallIfAny("metallb", MA)
           d == DeleteQuietly(ap)
           All == (((M \cup B) \cup D1) \cup G) \cup {ap}
\* Nothing is of two releases, and the pool is of none until it is applied.
<1>1. /\ M \cap B = {} /\ M \cap D1 = {} /\ M \cap G = {} /\ B \cap D1 = {} /\ B \cap G = {}
      /\ D1 \cap G = {} /\ ap \notin M /\ ap \notin B /\ ap \notin D1 /\ ap \notin G
      /\ M # {}
  BY Zenon DEF MetalLBObjects
<1>2. All \cap Stays = {}
  BY Zenon DEF MetalLBObjects, Stays, KeptByDesign, LeftBehind
<1>3. "credentials" \notin All
  BY Zenon DEF MetalLBObjects
<1>4. Row3("metallb", IngressCreate, << >>, IngressDelete)
  BY Table
<1>5. /\ Has(IngressCreate, (({i} \cup {n, a}) \cup {j, k, g}) \cup {w})
      /\ Has(IngressDelete, {ug, uk, uj, d, ui})
  BY IngressHas, Zenon
<1>6. IngressCreate = DriverFor \o <<i>> \o <<n, a>> \o <<j, k, g>> \o <<w>>
  BY Zenon DEF IngressCreate, PoolManifests, WaitForExternalIP
<1>7. "metallb" \notin Keepers
  BY DEF Keepers
<1>8. MA = M \cup {ap}
  OBVIOUS
<1> HIDE DEF ap, M, B, D1, G, MA, All
<1>9. /\ i.do = "install" /\ i.on = "metallb" /\ i.gives = M
      /\ j.do = "install" /\ j.on = "istio-base" /\ j.gives = B
      /\ k.do = "install" /\ k.on = "istiod" /\ k.gives = D1
      /\ g.do = "install" /\ g.on = "ingress" /\ g.gives = G
      /\ a.do = "apply" /\ a.on = ap
  BY Fields
<1>10. n.do = "need" /\ w.do = "await"
  BY DEF Need, Await, Do
<1>11. /\ ui.do = "uninstall_if_any" /\ ui.on = "metallb" /\ ui.gives = MA
       /\ uj.do = "uninstall_if_any" /\ uj.on = "istio-base" /\ uj.gives = B
       /\ uk.do = "uninstall_if_any" /\ uk.on = "istiod" /\ uk.gives = D1
       /\ ug.do = "uninstall_if_any" /\ ug.on = "ingress" /\ ug.gives = G
       /\ d.do = "delete_quietly"
  BY Fields
<1> HIDE DEF i, n, a, j, k, g, w, ug, uk, uj, ui, d
<1>12. First(IngressCreate, i, a)
  <2>1. /\ Has(<<i>>, {i}) /\ Has(<<n, a>>, {n, a}) /\ Has(<<j, k, g>>, {j, k, g}) /\ Has(<<w>>, {w})
    BY HasTuple, Zenon
  <2>2. Has(DriverFor \o <<i>>, {i})
    BY <2>1, Prefixes, HasAfter, Zenon
  <2>3. Has(DriverFor \o <<i>> \o <<n, a>>, {i} \cup {n, a})
    BY <2>1, <2>2, HasJoin, Zenon
  <2>4. Has(DriverFor \o <<i>> \o <<n, a>> \o <<j, k, g>>, ({i} \cup {n, a}) \cup {j, k, g})
    BY <2>1, <2>3, HasJoin, Zenon
  <2>5. Without(DriverFor \o <<i>>, a) /\ Without(<<n, a>>, i) /\ Without(<<j, k, g>>, i) /\ Without(<<w>>, i)
    BY <1>9, <1>10, <2>1, <2>2, WithoutOf
  <2>6. First(DriverFor \o <<i>> \o <<n, a>>, i, a)
    BY <2>5, FirstCut
  <2>7. First(DriverFor \o <<i>> \o <<n, a>> \o <<j, k, g>>, i, a)
    BY <2>3, <2>5, <2>6, FirstLeft DEF Has
  <2> QED
    BY <1>6, <2>4, <2>5, <2>7, FirstLeft DEF Has
<1>13. \A o : o \in Given(IngressCreate) <=> o \in All
  <2>1. \A o : o \in Given(IngressCreate) <=> o \in M \/ o \in B \/ o \in D1 \/ o \in G \/ o = ap
    BY <1>5, <1>9, <1>10, GivenOf DEF Helms
  <2> QED
    BY <2>1 DEF All
<1>14. Promised("metallb") = All /\ Removable("metallb") = All
  <2>1. \A o : o \in Promised("metallb") <=> o \in All
    BY <1>2, <1>4, <1>13, StaysAre DEF Promised, Row3
  <2> QED
    BY <1>2, <2>1, AllRemovable
<1>15. Releases("metallb") = {"metallb", "istio-base", "istiod", "ingress"}
  <2>1. \A r : r \in Releases("metallb") <=>
          \E st \in (({i} \cup {n, a}) \cup {j, k, g}) \cup {w} : Helms(st) /\ r = st.on
    <3>1. Has(Plans["metallb"].create, (({i} \cup {n, a}) \cup {j, k, g}) \cup {w})
      BY <1>4, <1>5, Zenon DEF Row3
    <3> DEFINE C == (({i} \cup {n, a}) \cup {j, k, g}) \cup {w}
    <3> HIDE DEF C
    <3>2. Has(Plans["metallb"].create, C)
      BY <3>1, Zenon DEF C
    <3>3. \A r : r \in Releases("metallb") <=> \E st \in C : Helms(st) /\ r = st.on
      BY <3>2, ReleasesOf
    <3> QED
      BY <3>3, Zenon DEF C
  <2>2. Helms(i) /\ Helms(j) /\ Helms(k) /\ Helms(g) /\ ~Helms(n) /\ ~Helms(a) /\ ~Helms(w)
    BY <1>9, <1>10 DEF Helms
  <2>3. \A r : r \in Releases("metallb") <=> r = i.on \/ r = j.on \/ r = k.on \/ r = g.on
    BY <2>1, <2>2
  <2> QED
    BY <1>9, <2>3
<1>16. \A q, o : OwnedBy("metallb", q, o) <=>
          \/ q = "metallb" /\ (o \in M \/ o = ap)
          \/ q = "istio-base" /\ o \in B
          \/ q = "istiod" /\ o \in D1
          \/ q = "ingress" /\ o \in G
  <2>1. \A q, o : OwnedBy("metallb", q, o) <=>
          \E st \in {ug, uk, uj, d, ui} : Uninstalls(st) /\ st.on = q /\ o \in st.gives
    <3>1. Has(Plans["metallb"].delete, {ug, uk, uj, d, ui})
      BY <1>4, <1>5, Zenon DEF Row3
    <3> QED
      BY <3>1, OwnedOf
  <2>2. /\ Uninstalls(ug) /\ Uninstalls(uk) /\ Uninstalls(uj) /\ Uninstalls(ui) /\ ~Uninstalls(d)
    BY <1>11 DEF Uninstalls
  <2>3. \A q, o : OwnedBy("metallb", q, o) <=>
          \/ ug.on = q /\ o \in ug.gives
          \/ uk.on = q /\ o \in uk.gives
          \/ uj.on = q /\ o \in uj.gives
          \/ ui.on = q /\ o \in ui.gives
    BY <2>1, <2>2
  <2> QED
    BY <1>8, <1>11, <2>3
<1>17. Releases("metallb") \subseteq AllReleases /\ All \subseteq AllObjects
  BY <1>4, <1>14, Members DEF Row3
<1> DEFINE E == (({i} \cup {n, a}) \cup {j, k, g}) \cup {w}
<1>18. \A st \in E : BuildStep("metallb", st) /\ Careless("metallb", st)
          /\ st.do \notin {"refuse", "clear_failed"}
  <2>1. M \subseteq AllObjects /\ B \subseteq AllObjects /\ D1 \subseteq AllObjects /\ G \subseteq AllObjects
        /\ ap \in AllObjects
    BY <1>17 DEF All
  <2>2. BuildStep("metallb", i) /\ BuildStep("metallb", j)
    BY <1>1, <1>9, <1>15, <1>16, <1>17, <2>1 DEF BuildStep, Helms, Uninstalls, Deletes
  <2>3. BuildStep("metallb", k) /\ BuildStep("metallb", g)
    BY <1>1, <1>9, <1>15, <1>16, <1>17, <2>1 DEF BuildStep, Helms, Uninstalls, Deletes
  <2>4. BuildStep("metallb", n) /\ BuildStep("metallb", a) /\ BuildStep("metallb", w)
    BY <1>9, <1>10, <2>1 DEF BuildStep, Helms, Uninstalls, Deletes
  <2>5. "credentials" \notin M /\ "credentials" \notin B /\ "credentials" \notin D1 /\ "credentials" \notin G
        /\ ap # "credentials"
    BY <1>3 DEF All
  <2>6. \A st \in E : Careless("metallb", st) /\ st.do \notin {"refuse", "clear_failed"}
    BY <1>7, <1>9, <1>10, <2>5 DEF Careless, Remakes, Asks
  <2> QED
    BY <2>2, <2>3, <2>4, <2>6
<1>19. BuildOrder("metallb", IngressCreate)
  <2>1. \A x \in DOMAIN IngressCreate : IngressCreate[x].do \notin {"refuse", "clear_failed"}
    BY <1>5, <1>18 DEF Has, Steps
  <2>2. ASSUME NEW x \in DOMAIN IngressCreate, IngressCreate[x].do = "apply",
               NEW r \in Releases("metallb"), OwnedBy("metallb", r, IngressCreate[x].on)
        PROVE  \E y \in DOMAIN IngressCreate :
                 y < x /\ IngressCreate[y].do = "install" /\ IngressCreate[y].on = r
    <3>1. IngressCreate[x] = a
      BY <1>5, <1>9, <1>10, <2>2 DEF Has, Steps
    <3>2. r = "metallb"
      BY <1>1, <1>9, <1>16, <2>2, <3>1
    <3>3. i \in Steps(IngressCreate)
      BY <1>5 DEF Has
    <3>4. PICK y \in DOMAIN IngressCreate : y < x /\ IngressCreate[y] = i
      BY <1>12, <3>1, <3>3, FirstUsed
    <3> QED
      BY <1>9, <3>2, <3>4
  <2> QED
    BY <2>1, <2>2 DEF BuildOrder, Clears
<1>20. BuildSteps("metallb", IngressCreate)
  BY <1>5, <1>18, BuildStepsOf
<1>21. CreateFits("metallb", IngressCreate)
  <2>1. \A o \in Promised("metallb") : \E st \in E : Brings(st, o)
    BY <1>9, <1>14 DEF Brings, All
  <2>2. Removable("metallb") # {} /\ Promised("metallb") \subseteq AllObjects
    BY <1>1, <1>14, <1>17 DEF All
  <2> QED
    BY <1>5, <1>18, <1>19, <1>20, <2>1, <2>2, CreateOf
<1>22. DeleteFits("metallb", IngressDelete)
  <2>1. \A st \in {ug, uk, uj, d, ui} : RemoveStep("metallb", st)
    BY <1>8, <1>11, <1>15, <1>16 DEF RemoveStep, Uninstalls, Deletes
  <2>2. \A o \in Removable("metallb") : \E st \in {ug, uk, uj, d, ui} : Takes(st, o)
    BY <1>8, <1>11, <1>14 DEF Takes, Uninstalls, All
  <2> QED
    BY <1>5, <2>1, <2>2, DeleteOf
<1>23. \A v \in Verbs : Careful("metallb", Plans["metallb"][v])
  <2>1. \A st \in {ug, uk, uj, d, ui} : Careless("metallb", st)
    BY <1>7, <1>11 DEF Careless, Remakes, Asks
  <2>2. Has(<< >>, {}) /\ \A st \in {} : Careless("metallb", st)
    BY HasTuple
  <2>3. Careful("metallb", IngressCreate) /\ Careful("metallb", << >>) /\ Careful("metallb", IngressDelete)
    BY <1>5, <1>18, <2>1, <2>2, CarelessPlan
  <2> QED
    BY <1>4, <2>3 DEF Verbs, Row3
<1> QED
  BY <1>3, <1>4, <1>14, <1>21, <1>22, <1>23, NoUpdate DEF PlanFits, Row3

\* The streams are made again after the release that is cleared.
LEMMA QueueFits == PlanFits("nats") /\ "credentials" \notin Promised("nats")
<1> DEFINE np == "nats pods"
           ea == "GATEWAY_EVENTS"
           eb == "GATEWAY_EVENTS_ENRICHED"
           N == NatsObjects
           c == ClearFailed("nats", N)
           i == Install("nats", {np})
           x == Do("pod", "nats-box", {})
           a == Apply(ea)
           b == Apply(eb)
           u == UninstallIfAny("nats", N)
           X == DriverForStored \o NatsInstall
           F == (({x} \cup {a}) \cup {x}) \cup {b}
           E == {c, i} \cup F
<1>1. /\ np # ea /\ np # eb /\ ea # eb
      /\ np # "credentials" /\ ea # "credentials" /\ eb # "credentials"
  BY Zenon
<1>2. /\ np \notin Stays /\ ea \notin Stays /\ eb \notin Stays
      /\ N = {np, ea, eb} /\ "nats" \notin Keepers
  BY Zenon DEF Stays, KeptByDesign, LeftBehind, NatsObjects, Keepers
<1>3. Row3("nats", QueueCreate, QueueUpdate, QueueDelete) /\ QueueUpdate = QueueCreate
  BY Table, Zenon DEF QueueUpdate
<1>4. Has(QueueCreate, E) /\ Has(QueueDelete, {u})
  BY NatsHas, Zenon
<1>5. Has(X, {c, i}) /\ Has(NatsEnsureStreams, F) /\ Has(NatsInstall, {c, i}) /\ Has(<<c, i>>, {c, i})
  <2>1. Has(<<c, i>>, {c, i}) /\ Has(NatsAdminEnsure, {x}) /\ Has(<<a>>, {a}) /\ Has(<<b>>, {b})
    BY HasTuple, Zenon DEF NatsAdminEnsure
  <2>2. Has(NatsInstall, {c, i})
    BY <2>1, Prefixes, HasAfter, Zenon DEF NatsInstall
  <2>3. Has(X, {c, i})
    BY <2>2, Prefixes, HasAfter, Zenon
  <2>4. Has(NatsEnsureStreams, F)
    BY <2>1, HasJoin, Zenon DEF NatsEnsureStreams
  <2> QED
    BY <2>1, <2>2, <2>3, <2>4, Zenon
<1>6. QueueCreate = X \o NatsEnsureStreams /\ X = DriverForStored \o NatsInstall
      /\ NatsInstall = NatsPrerequisites \o <<c, i>>
  BY Zenon DEF QueueCreate, NatsInstall
<1>7. x.do = "pod"
  BY DEF Do
<1> HIDE DEF np, ea, eb, N, X
<1>8. /\ c.do = "clear_failed" /\ c.on = "nats" /\ c.gives = N
      /\ i.do = "install" /\ i.on = "nats" /\ i.gives = {np}
      /\ u.do = "uninstall_if_any" /\ u.on = "nats" /\ u.gives = N
      /\ a.do = "apply" /\ a.on = ea /\ b.do = "apply" /\ b.on = eb
  BY Fields
<1> HIDE DEF c, i, x, a, b, u
<1>9. \A st \in E : st = c \/ st = i \/ st = x \/ st = a \/ st = b
  OBVIOUS
<1>10. /\ First(QueueCreate, c, i) /\ First(QueueCreate, i, a) /\ First(QueueCreate, i, b)
       /\ First(QueueCreate, c, a) /\ First(QueueCreate, c, b)
  <2>1. c \notin F /\ i \notin F /\ a \notin {c, i} /\ b \notin {c, i} /\ i \notin {} /\ c # i
    BY <1>7, <1>8
  <2>2. c.do # "check" /\ i.do # "check" /\ a.do # "check" /\ b.do # "check"
    BY <1>8
  <2> HIDE DEF F
  <2>3. Without(NatsEnsureStreams, c) /\ Without(NatsEnsureStreams, i)
    BY <1>5, <2>1, <2>2, WithoutOf, Zenon
  <2>4. Without(X, a) /\ Without(X, b)
    BY <1>5, <2>1, <2>2, WithoutOf, Zenon
  <2>5. Without(NatsPrerequisites, i) /\ Without(DriverForStored, i)
    BY Prefixes, <2>1, <2>2, WithoutOf, Zenon
  <2>6. IsPlan(<<c, i>>) /\ IsPlan(NatsInstall) /\ IsPlan(X)
    BY <1>5 DEF Has
  <2>7. First(<<c, i>>, c, i)
    BY <2>1, FirstPair
  <2>8. First(NatsInstall, c, i)
    BY <1>6, <2>5, <2>6, <2>7, FirstRight
  <2>9. First(X, c, i)
    BY <1>6, <2>5, <2>6, <2>8, FirstRight
  <2>10. First(QueueCreate, c, i)
    BY <1>6, <2>3, <2>6, <2>9, FirstLeft
  <2>11. First(QueueCreate, i, a) /\ First(QueueCreate, i, b)
    BY <1>6, <2>3, <2>4, FirstCut
  <2>12. First(QueueCreate, c, a) /\ First(QueueCreate, c, b)
    BY <1>6, <2>3, <2>4, FirstCut
  <2> QED
    BY <2>10, <2>11, <2>12
<1>11. c \in E /\ i \in E /\ a \in E /\ b \in E
  OBVIOUS
<1>12. /\ i \in Steps(QueueCreate) /\ a \in Steps(QueueCreate) /\ b \in Steps(QueueCreate)
       /\ \A st \in Steps(QueueCreate) : st.do = "check" \/ st = c \/ st = i \/ st = x \/ st = a \/ st = b
  BY <1>4, <1>9, <1>11 DEF Has
<1> HIDE DEF E, F
<1>13. \A o : o \in Given(QueueCreate) <=> o \in N
  <2>1. \A o : o \in Given(QueueCreate) <=>
          \E st \in E : (Helms(st) /\ o \in st.gives) \/ (st.do = "apply" /\ o = st.on)
    BY <1>4, GivenOf
  <2>2. ~Helms(c) /\ Helms(i) /\ ~Helms(x) /\ ~Helms(a) /\ ~Helms(b)
    BY <1>7, <1>8 DEF Helms
  <2>3. \A o : o \in Given(QueueCreate) <=> o \in i.gives \/ o = a.on \/ o = b.on
    BY <1>7, <1>8, <1>9, <1>11, <2>1, <2>2
  <2> QED
    BY <1>2, <1>8, <2>3
<1>14. Promised("nats") = N /\ Removable("nats") = N
  <2>1. N \cap Stays = {}
    BY <1>2
  <2>2. \A o : o \in Promised("nats") <=> o \in N
    BY <1>3, <1>13, <2>1, StaysAre DEF Promised, Row3
  <2> QED
    BY <2>1, <2>2, AllRemovable
<1>15. Releases("nats") = {"nats"}
  <2>1. Has(Plans["nats"].create, E)
    BY <1>3, <1>4 DEF Row3
  <2>2. \A r : r \in Releases("nats") <=> \E st \in E : Helms(st) /\ r = st.on
    BY <2>1, ReleasesOf
  <2> QED
    BY <1>7, <1>8, <1>9, <1>11, <2>2 DEF Helms
<1>16. \A q, o : OwnedBy("nats", q, o) <=> q = "nats" /\ o \in N
  <2>1. Has(Plans["nats"].delete, {u})
    BY <1>3, <1>4 DEF Row3
  <2> QED
    BY <1>8, <2>1, OwnedOf DEF Uninstalls
<1>17. "nats" \in AllReleases /\ N \subseteq AllObjects
  BY <1>3, <1>14, <1>15, Members DEF Row3
<1>18. \A st \in E : BuildStep("nats", st) /\ Careless("nats", st)
          /\ st.do \notin {"refuse", "done_if", "done_if_release"}
  <2>1. \A st \in {c, i} : BuildStep("nats", st)
    BY <1>2, <1>8, <1>14, <1>15, <1>16, <1>17 DEF BuildStep, Helms, Uninstalls, Deletes
  <2>2. \A st \in {x, a, b} : BuildStep("nats", st)
    BY <1>2, <1>7, <1>8, <1>17 DEF BuildStep, Helms, Uninstalls, Deletes
  <2>3. \A st \in {c, i, x, a, b} : Careless("nats", st)
          /\ st.do \notin {"refuse", "done_if", "done_if_release"}
    BY <1>1, <1>2, <1>7, <1>8 DEF Careless, Remakes, Asks
  <2> QED
    BY <1>9, <2>1, <2>2, <2>3
<1>19. BuildOrder("nats", QueueCreate)
  <2>1. \A k \in DOMAIN QueueCreate : QueueCreate[k] \in Steps(QueueCreate)
    BY DEF Steps
  <2>2. ASSUME NEW k \in DOMAIN QueueCreate, NEW o \in Promised("nats"), Clears(QueueCreate[k], o)
        PROVE  \E l \in DOMAIN QueueCreate : l > k /\ Brings(QueueCreate[l], o)
    <3>1. QueueCreate[k] = c
      BY <1>7, <1>8, <1>12, <2>1, <2>2 DEF Clears
    <3>2. o = np \/ o = ea \/ o = eb
      BY <1>2, <1>14
    <3>3. PICK l \in DOMAIN QueueCreate : l > k /\ QueueCreate[l] = i
      BY <1>10, <1>12, <3>1, FirstUsed
    <3>4. PICK m \in DOMAIN QueueCreate : m > k /\ QueueCreate[m] = a
      BY <1>10, <1>12, <3>1, FirstUsed
    <3>5. PICK n \in DOMAIN QueueCreate : n > k /\ QueueCreate[n] = b
      BY <1>10, <1>12, <3>1, FirstUsed
    <3>6. Brings(i, np) /\ Brings(a, ea) /\ Brings(b, eb)
      BY <1>8 DEF Brings
    <3> QED
      BY <3>2, <3>3, <3>4, <3>5, <3>6
  <2>3. \A k, l \in DOMAIN QueueCreate :
          QueueCreate[k].do = "clear_failed" /\ QueueCreate[l].do = "install" => k < l
    <3>1. \A k \in DOMAIN QueueCreate :
            (QueueCreate[k].do = "clear_failed" => QueueCreate[k] = c)
            /\ (QueueCreate[k].do = "install" => QueueCreate[k] = i)
      BY <1>7, <1>8, <1>12, <2>1
    <3> QED
      BY <1>10, <3>1 DEF First
  <2>4. ASSUME NEW k \in DOMAIN QueueCreate, QueueCreate[k].do = "apply",
               NEW r \in Releases("nats")
        PROVE  \E l \in DOMAIN QueueCreate :
                 l < k /\ QueueCreate[l].do = "install" /\ QueueCreate[l].on = r
    <3>1. QueueCreate[k] = a \/ QueueCreate[k] = b
      BY <1>7, <1>8, <1>12, <2>1, <2>4
    <3>2. \E l \in DOMAIN QueueCreate : l < k /\ QueueCreate[l] = i
      BY <1>10, <1>12, <3>1, FirstUsed
    <3> QED
      BY <1>8, <1>15, <3>2
  <2>5. \A k \in DOMAIN QueueCreate : QueueCreate[k].do # "refuse"
    BY <1>7, <1>8, <1>12, <2>1
  <2>6. Awaited("nats") = {}
    <3>1. \A o \in Awaited("nats") : \E st \in E : st.do = "await" /\ st.on = o
      BY <1>3, <1>4, AwaitedAre DEF Row3
    <3> QED
      BY <1>7, <1>8, <1>9, <3>1
  <2> QED
    BY <2>2, <2>3, <2>4, <2>5, <2>6 DEF BuildOrder
<1>20. BuildSteps("nats", QueueCreate)
  BY <1>4, <1>18, BuildStepsOf
<1>21. CreateFits("nats", QueueCreate)
  <2>1. \A o \in Promised("nats") : \E st \in E : Brings(st, o)
    BY <1>2, <1>8, <1>11, <1>14 DEF Brings
  <2>2. Removable("nats") # {} /\ Promised("nats") \subseteq AllObjects
    BY <1>2, <1>14, <1>17
  <2> QED
    BY <1>4, <1>18, <1>19, <1>20, <2>1, <2>2, CreateOf
<1>22. UpdateFits("nats", QueueCreate)
  <2>1. "nats" \in Upserts
    BY <1>3, <1>8, <1>12 DEF Upserts, Row3
  <2> QED
    BY <1>4, <1>18, <1>19, <1>20, <2>1, UpdateOf
<1>23. DeleteFits("nats", QueueDelete)
  <2>1. \A st \in {u} : RemoveStep("nats", st)
    BY <1>8, <1>15, <1>16 DEF RemoveStep, Uninstalls
  <2>2. \A o \in Removable("nats") : \E st \in {u} : Takes(st, o)
    BY <1>8, <1>14 DEF Takes, Uninstalls
  <2> QED
    BY <1>4, <2>1, <2>2, DeleteOf
<1>24. \A v \in Verbs : Careful("nats", Plans["nats"][v])
  <2>1. \A st \in {u} : Careless("nats", st)
    BY <1>2, <1>8 DEF Careless, Remakes, Asks
  <2>2. Careful("nats", QueueCreate) /\ Careful("nats", QueueDelete)
    BY <1>4, <1>18, <2>1, CarelessPlan
  <2> QED
    BY <1>3, <2>2 DEF Verbs, Row3
<1>25. "credentials" \notin Promised("nats")
  BY <1>1, <1>2, <1>14
<1> QED
  BY <1>3, <1>21, <1>22, <1>23, <1>24, <1>25 DEF PlanFits, Row3

\* MinIO's credentials are asked for before anything is cleared or installed;
\* an update only looks before it grows the volumes.
LEMMA MinIOFits ==
  /\ PlanFits("minio") /\ "tenant" \in Releases("minio")
<1> DEFINE tp == "tenant pods"
           cr == "credentials"
           np == "network policy"
           mo == "minio operator"
           T == TenantObjects
           v1 == "volume 1"
           v2 == "volume 2"
           q == Adopt("tenant")
           s == InstallOnce("minio-operator", {mo})
           c == ClearFailed("tenant", T)
           i == Install("tenant", T)
           a == Apply(np)
           w == Await(tp)
           r1 == Refuse("volumes")
           r2 == Refuse("no shrink")
           x1 == Apply(v1)
           x2 == Apply(v2)
           u == UninstallIfAny("tenant", T)
           d == Delete(np)
           k == Check("spec")
           E == (({q} \cup {s}) \cup {c, i}) \cup {a, w}
           G == {r1, r2, x1, x2}
<1>1. /\ tp # cr /\ tp # np /\ tp # mo /\ cr # np /\ cr # mo /\ np # mo
      /\ v1 # cr /\ v2 # cr /\ v1 \in AllObjects /\ v2 \in AllObjects
  BY Zenon DEF AllObjects
<1>2. /\ tp \notin Stays /\ cr \notin Stays /\ np \notin Stays
      /\ mo \in KeptByDesign /\ T = {tp, cr}
      /\ "minio" \in Keepers /\ Holder("minio") = "tenant"
  BY Zenon DEF Stays, KeptByDesign, LeftBehind, TenantObjects, Keepers, Holder
<1>3. Row3("minio", MinIOCreate, ResizeStorage, MinIODelete)
  BY Table, Zenon
<1>4. Has(MinIOCreate, E) /\ Has(ResizeStorage, G) /\ Has(MinIODelete, {u, d})
  BY MinIOHas, Zenon
<1>5. MinIOCreate = MinIOPrerequisites \o <<q>> \o <<s>> \o <<c, i>> \o <<a, w>>
      /\ ResizeStorage = <<k, r1, r2, x1, x2>>
  BY Zenon DEF MinIOCreate, InstallOperator, DeployTenant, ResizeStorage
<1>6. /\ w.do = "await" /\ w.on = tp /\ r1.do = "refuse" /\ r2.do = "refuse" /\ k.do = "check"
  <2>1. w.do = "await" /\ w.on = tp
    BY Fields
  <2>2. r1.do = "refuse" /\ r2.do = "refuse" /\ k.do = "check"
    BY DEF Refuse, Check, Do
  <2> QED
    BY <2>1, <2>2
<1> HIDE DEF tp, cr, np, mo, T, v1, v2
<1>7. /\ q.do = "adopt" /\ q.on = "tenant"
      /\ s.do = "install_once" /\ s.on = "minio-operator" /\ s.gives = {mo}
      /\ c.do = "clear_failed" /\ c.on = "tenant" /\ c.gives = T
      /\ i.do = "install" /\ i.on = "tenant" /\ i.gives = T
      /\ a.do = "apply" /\ a.on = np
  BY Fields
<1>8. /\ x1.do = "apply" /\ x1.on = v1 /\ x2.do = "apply" /\ x2.on = v2
      /\ u.do = "uninstall_if_any" /\ u.on = "tenant" /\ u.gives = T
      /\ d.do = "delete" /\ d.on = np
  BY Fields
<1> HIDE DEF q, s, c, i, a, w, r1, r2, x1, x2, u, d, k
<1>9. \A st \in E : st = q \/ st = s \/ st = c \/ st = i \/ st = a \/ st = w
  OBVIOUS
<1>10. q \in E /\ s \in E /\ c \in E /\ i \in E /\ a \in E /\ w \in E
  OBVIOUS
\* The order of the steps.
<1>11. First(MinIOCreate, q, i) /\ First(MinIOCreate, c, i) /\ First(MinIOCreate, c, w)
  <2> DEFINE A == MinIOPrerequisites \o <<q>>
             B == A \o <<s>>
             C == B \o <<c, i>>
  <2>1. Has(<<q>>, {q}) /\ Has(<<s>>, {s}) /\ Has(<<c, i>>, {c, i}) /\ Has(<<a, w>>, {a, w})
    BY HasTuple, Zenon
  <2>2. Has(A, {q})
    BY <2>1, Prefixes, HasAfter, Zenon
  <2>3. A = MinIOPrerequisites \o <<q>> /\ B = A \o <<s>> /\ C = B \o <<c, i>> /\ MinIOCreate = C \o <<a, w>>
    BY <1>5, Zenon
  <2> HIDE DEF A, B, C
  <2>4. Has(B, {q} \cup {s})
    BY <2>1, <2>2, <2>3, HasJoin
  <2>5. Has(C, ({q} \cup {s}) \cup {c, i})
    BY <2>1, <2>3, <2>4, HasJoin
  <2>6. i \notin {q} \cup {s} /\ q \notin {c, i} /\ q \notin {a, w} /\ c \notin {a, w} /\ c # i
    BY <1>6, <1>7
  <2>7. i.do # "check" /\ q.do # "check" /\ c.do # "check"
    BY <1>7
  <2>8. Without(B, i)
    BY <2>4, <2>6, <2>7, WithoutOf, Zenon
  <2>9. Without(<<c, i>>, q) /\ Without(<<a, w>>, q) /\ Without(<<a, w>>, c)
    BY <2>1, <2>6, <2>7, WithoutOf, Zenon
  <2>10. IsPlan(<<c, i>>) /\ IsPlan(C)
    BY <2>1, <2>5 DEF Has
  <2>11. First(C, q, i)
    BY <2>3, <2>8, <2>9, FirstCut
  <2>12. First(C, c, i)
    <3>1. First(<<c, i>>, c, i)
      BY <2>6, FirstPair
    <3> QED
      BY <2>3, <2>8, <2>10, <3>1, FirstRight
  <2>13. Without(C, w)
    <3>1. w \notin ({q} \cup {s}) \cup {c, i} /\ w.do # "check"
      BY <1>6, <1>7
    <3> QED
      BY <2>5, <3>1, WithoutOf, Zenon
  <2> QED
    BY <2>3, <2>9, <2>10, <2>11, <2>12, <2>13, FirstLeft, FirstCut
<1>12. /\ i \in Steps(MinIOCreate) /\ q \in Steps(MinIOCreate) /\ w \in Steps(MinIOCreate)
       /\ \A st \in Steps(MinIOCreate) :
            st.do = "check" \/ st = q \/ st = s \/ st = c \/ st = i \/ st = a \/ st = w
  BY <1>4, <1>9, <1>10 DEF Has
<1> HIDE DEF E
\* What it is made of.
<1>13. \A o : o \in Given(MinIOCreate) <=> o = mo \/ o \in T \/ o = np
  <2>1. \A o : o \in Given(MinIOCreate) <=>
          \E st \in E : (Helms(st) /\ o \in st.gives) \/ (st.do = "apply" /\ o = st.on)
    BY <1>4, GivenOf
  <2>2. ~Helms(q) /\ Helms(s) /\ ~Helms(c) /\ Helms(i) /\ ~Helms(a) /\ ~Helms(w)
    BY <1>6, <1>7 DEF Helms
  <2>3. \A o : o \in Given(MinIOCreate) <=> o \in s.gives \/ o \in i.gives \/ o = a.on
    BY <1>6, <1>7, <1>9, <1>10, <2>1, <2>2
  <2> QED
    BY <1>7, <2>3
<1>14. Promised("minio") = {tp, cr, np} /\ Removable("minio") = {tp, cr, np}
  <2>1. {tp, cr, np} \cap Stays = {}
    BY <1>2
  <2>2. \A o : o \in Promised("minio") <=> o \in {tp, cr, np}
    BY <1>2, <1>3, <1>13, <2>1, StaysAre DEF Promised, Row3
  <2> QED
    BY <2>1, <2>2, AllRemovable
<1>15. Releases("minio") = {"minio-operator", "tenant"}
  <2>1. Has(Plans["minio"].create, E)
    BY <1>3, <1>4 DEF Row3
  <2>2. \A r : r \in Releases("minio") <=> \E st \in E : Helms(st) /\ r = st.on
    BY <2>1, ReleasesOf
  <2> QED
    BY <1>6, <1>7, <1>9, <1>10, <2>2 DEF Helms
<1>16. \A r, o : OwnedBy("minio", r, o) <=> r = "tenant" /\ o \in T
  <2>1. Has(Plans["minio"].delete, {u, d})
    BY <1>3, <1>4 DEF Row3
  <2> QED
    BY <1>8, <2>1, OwnedOf DEF Uninstalls
<1>17. /\ "minio-operator" \in AllReleases /\ "tenant" \in AllReleases
       /\ mo \in AllObjects /\ T \subseteq AllObjects /\ np \in AllObjects
  BY <1>3, <1>13, <1>15, Members DEF Row3
\* So its plans are fit.
<1>18. \A st \in E : BuildStep("minio", st)
          /\ st.do \notin {"refuse", "done_if", "done_if_release"}
  <2>1. BuildStep("minio", s)
    BY <1>1, <1>2, <1>7, <1>14, <1>15, <1>16, <1>17 DEF BuildStep, Helms, Uninstalls, Deletes
  <2>2. BuildStep("minio", i) /\ BuildStep("minio", c)
    BY <1>2, <1>7, <1>14, <1>15, <1>16, <1>17 DEF BuildStep, Helms, Uninstalls, Deletes
  <2>3. BuildStep("minio", q) /\ BuildStep("minio", a) /\ BuildStep("minio", w)
    BY <1>6, <1>7, <1>17 DEF BuildStep, Helms, Uninstalls, Deletes
  <2>4. \A st \in {q, s, c, i, a, w} : st.do \notin {"refuse", "done_if", "done_if_release"}
    BY <1>6, <1>7
  <2> QED
    BY <1>9, <2>1, <2>2, <2>3, <2>4
<1>19. CreateFits("minio", MinIOCreate)
  <2>1. BuildSteps("minio", MinIOCreate)
    BY <1>4, <1>18, BuildStepsOf
  <2>2. ClearsThenInstalls("minio", MinIOCreate, c, i)
    <3>1. \A r \in Releases("minio") : ~OwnedBy("minio", r, np)
      BY <1>1, <1>2, <1>16
    <3> QED
      BY <1>6, <1>7, <1>11, <1>12, <3>1 DEF ClearsThenInstalls
  <2>3. BuildOrder("minio", MinIOCreate)
    <3>1. \A o \in Awaited("minio") : \E st \in E : st.do = "await" /\ st.on = o
      BY <1>3, <1>4, AwaitedAre DEF Row3
    <3>2. \A o \in Awaited("minio") : Waits(w, o)
      BY <1>6, <1>7, <1>9, <3>1 DEF Waits
    <3> QED
      BY <1>7, <1>11, <1>12, <2>2, <3>2, ClearedOrder
  <2>4. \A o \in Promised("minio") : \E st \in E : Brings(st, o)
    BY <1>2, <1>7, <1>10, <1>14 DEF Brings
  <2>5. Removable("minio") # {} /\ Promised("minio") \subseteq AllObjects
    BY <1>2, <1>14, <1>17
  <2> QED
    BY <1>4, <1>18, <2>1, <2>3, <2>4, <2>5, CreateOf
<1>20. UpdateFits("minio", ResizeStorage)
  <2>1. \A st \in G : BuildStep("minio", st) /\ st.do \notin {"done_if", "done_if_release"}
    <3>1. BuildStep("minio", r1) /\ BuildStep("minio", r2)
      BY <1>6 DEF BuildStep, Helms, Uninstalls, Deletes
    <3>2. BuildStep("minio", x1) /\ BuildStep("minio", x2)
      BY <1>1, <1>8 DEF BuildStep, Helms, Uninstalls, Deletes
    <3> QED
      BY <1>6, <1>8, <3>1, <3>2
  <2>2. BuildSteps("minio", ResizeStorage)
    BY <1>4, <2>1, BuildStepsOf
  <2> DEFINE Z == ResizeStorage
  <2>3. /\ DOMAIN Z = 1..5
        /\ Z[1].do = "check" /\ Z[2].do = "refuse" /\ Z[3].do = "refuse"
        /\ Z[4].do = "apply" /\ Z[4].on = v1 /\ Z[5].do = "apply" /\ Z[5].on = v2
    BY <1>5, <1>6, <1>8
  <2>4. \A j \in DOMAIN Z : Z[j].do # "clear_failed"
          /\ (Z[j].do = "apply" => j \in {4, 5})
          /\ (Z[j].do = "refuse" => j \in {2, 3})
          /\ (j < 4 => Z[j].do \in {"check", "refuse"})
    BY <2>3
  <2>5. \A j \in DOMAIN Z : Z[j].do = "apply" => Z[j].on \notin Promised("minio")
    <3>1. v1 \notin {tp, cr, np} /\ v2 \notin {tp, cr, np}
      BY Zenon DEF v1, v2, tp, cr, np
    <3> QED
      BY <1>14, <2>3, <2>4, <3>1
  <2>6. BuildOrder("minio", ResizeStorage)
    <3>1. \A j, l \in DOMAIN Z : Z[j].do = "refuse" /\ l < j => Z[l].do \in {"check", "refuse"}
      BY <2>3, <2>4
    <3> QED
      BY <2>4, <2>5, <3>1 DEF BuildOrder, Clears
  <2>7. \A st \in G : st.do = "apply" /\ st.on \in Promised("minio") =>
          "minio" \in Upserts \/ ("minio" = "postgres" /\ st.on = "postgres cluster")
    <3>1. v1 \notin {tp, cr, np} /\ v2 \notin {tp, cr, np}
      BY Zenon DEF v1, v2, tp, cr, np
    <3>2. \A st \in G : st.do = "apply" => st = x1 \/ st = x2
      BY <1>6
    <3>3. x1.on \notin Promised("minio") /\ x2.on \notin Promised("minio")
      BY <1>8, <1>14, <3>1
    <3> QED
      BY <3>2, <3>3
  <2> HIDE DEF G
  <2> QED
    BY <1>4, <2>1, <2>2, <2>6, <2>7, UpdateOf
<1>21. DeleteFits("minio", MinIODelete)
  <2>1. \A st \in {u, d} : RemoveStep("minio", st)
    BY <1>8, <1>15, <1>16 DEF RemoveStep, Uninstalls, Deletes
  <2>2. \A o \in Removable("minio") : \E st \in {u, d} : Takes(st, o)
    BY <1>2, <1>8, <1>14 DEF Takes, Uninstalls
  <2> QED
    BY <1>4, <2>1, <2>2, DeleteOf
<1>22. Careful("minio", MinIOCreate)
  <2>1. cr \in T /\ cr = "credentials"
    BY <1>2, Zenon DEF cr
  <2>2. /\ Asks(q) /\ ~Asks(s) /\ ~Asks(c) /\ ~Asks(i) /\ ~Asks(a) /\ ~Asks(w)
        /\ ~Remakes(q) /\ ~Remakes(s) /\ ~Remakes(c) /\ ~Remakes(a) /\ ~Remakes(w)
        /\ \A st : st.do = "check" => ~Asks(st) /\ ~Remakes(st)
    BY <1>1, <1>6, <1>7, <2>1 DEF Asks, Remakes
  <2>3. CarefulSteps("minio", MinIOCreate)
    BY <1>1, <1>2, <1>6, <1>7, <1>12, <2>1, <2>2 DEF CarefulSteps
  <2>4. ASSUME NEW l \in DOMAIN MinIOCreate, Remakes(MinIOCreate[l])
        PROVE  \E j \in DOMAIN MinIOCreate : j < l /\ Asks(MinIOCreate[j])
    <3>1. MinIOCreate[l] = i
      BY <1>12, <2>2, <2>4 DEF Steps
    <3>2. PICK j \in DOMAIN MinIOCreate : j < l /\ MinIOCreate[j] = q
      BY <1>11, <1>12, <3>1, FirstUsed
    <3> QED
      BY <2>2, <3>2
  <2> QED
    BY <2>3, <2>4 DEF Careful
<1>23. Careful("minio", ResizeStorage) /\ Careful("minio", MinIODelete)
  <2>1. cr \in T /\ cr = "credentials"
    BY <1>2, Zenon DEF cr
  <2>2. \A st \in G : Careless("minio", st)
    BY <1>1, <1>6, <1>8, <2>1 DEF Careless, Remakes, Asks
  <2>3. \A st \in {u, d} : Careless("minio", st)
    BY <1>8, <2>1 DEF Careless, Remakes, Asks
  <2> QED
    BY <1>4, <2>2, <2>3, CarelessPlan
<1>24. \A v \in Verbs : Careful("minio", Plans["minio"][v])
  BY <1>3, <1>22, <1>23 DEF Verbs, Row3
<1> QED
  BY <1>3, <1>15, <1>19, <1>20, <1>21, <1>24 DEF PlanFits, Row3

\* Every verb of the 21 shipped deployments is a plan the proofs can go by:
\* its create brings what it promises, and what it clears away on the way it
\* brings, and waits for, again; its update refuses before it acts; its
\* delete takes all that is Removable, which is not all there is: shared
\* objects stay, and so do the network policy and the service monitor that
\* vLLM's delete does not name; and credentials are asked for before they
\* are remade (multistack/*/drivers, multistack/backends/minio_client.py,
\* multistack/nats/deployment).
THEOREM TheTableFits == PlansFit
<1>1. DOMAIN Plans = {"longhorn", "cnpg", "postgres", "valkey", "minio", "kps", "nvidia",
          "metallb", "vllm", "llamacpp", "nats", "httproute", "virtualservice", "rpm", "tpm",
          "gateway", "tokenizer", "enricher", "billing", "controlplane", "portal"}
  BY DEF Plans, Verb3
<1>2. \A s \in DOMAIN Plans : PlanFits(s) /\ (s \notin {"minio", "kps"} => "credentials" \notin Promised(s))
  BY <1>1, ChartsFit, LonghornFits, RoutesFit, ModelsFit, ObservabilityFits, ValkeyFits,
     OperatorFits, ClusterFits, IngressFits, QueueFits, MinIOFits
<1>3. KeepersFit
  <2>1. Holder("minio") = "tenant" /\ Holder("kps") = "kps" /\ Keepers = {"minio", "kps"}
    BY DEF Holder, Keepers
  <2> QED
    BY <1>2, <2>1, MinIOFits, ObservabilityFits DEF KeepersFit
<1> QED
  BY <1>2, <1>3, OperatorFits, ClusterFits DEF PlansFit

-------------------------------------------------------------------------------
(* What follows, for every set of the shipped deployments, whatever they    *)
(* require, whatever rows are found and however many calls are made.        *)

\* The invariant of the drivers and that of Deployments are inductive
\* together: where each process is in its driver's plan (the modules under
\* multistack/*/drivers), what that has left on the cluster and found ready
\* there, and what the row says of it (multistack/state/tracking.py).
THEOREM DriversInductive ==
    ASSUME Circumstances PROVE Spec => [](DInv /\ P!IInv)
<1>1. Init => DInv /\ P!IInv
  BY BothBegin, TheTableFits
<1>2. DInv /\ P!IInv /\ [Next]_vars => DInv' /\ P!IInv'
  BY BothKept, TheTableFits
<1> QED
  BY <1>1, <1>2, PTL DEF Spec

\* The types of the drivers' state: the objects and releases are those the
\* plans speak of, and a process is never past the end of its plan
\* (multistack/*/drivers around multistack/helm/manager.py).
THEOREM DriverTypes == ASSUME Circumstances PROVE Spec => []TypeOK
<1>1. DInv => TypeOK
  BY DEF DInv
<1> QED
  BY <1>1, DriversInductive, PTL

\* Each of the shipped drivers does what the recorded state says of it: its
\* create returns only with all it promises on the cluster and, but for a
\* PostgreSQL cluster it found there, with what it waits for found ready
\* since that was made; its delete only with all that is Removable gone; an
\* update that installs no chart brings nothing into being, and one it
\* refuses has touched nothing; whichever step raises, and wherever the
\* process or a helm process dies
\* (multistack/*/drivers, wrapped by multistack/state/tracking.py).
THEOREM DriversImplementDeployments ==
    ASSUME Circumstances PROVE Spec => ImplementsDeployments
<1>1. Init => D!Init
  BY BothBegin, TheTableFits
<1>2. DInv /\ [Next]_vars => [D!Next]_D!vars
  BY StepMaps, TheTableFits
<1> QED
  BY <1>1, <1>2, DriversInductive, PTL DEF Spec, ImplementsDeployments, D!Spec

\* A row that says provisioned is a deployment of which no object is missing
\* and of which what its create waits for has been ready, in this revision or
\* an earlier one, since it was made.  Of a PostgreSQL cluster only that it
\* exists: cnpg.py:202-207 takes for done one that never became healthy
\* (multistack/state/tracking.py around every driver).
THEOREM ProvisionedDriversAreThere ==
    ASSUME Circumstances PROVE Spec => []ProvisionedIsPresent
<1>1. P!Spec => []P!ProvisionedIsPresent
  BY SameConditions, Assumed, P!ProvisionedRowsAreTrue DEF Circumstances
<1>2. P!ProvisionedIsPresent => ProvisionedIsPresent
  BY DEF P!ProvisionedIsPresent, ProvisionedIsPresent, D!ProvisionedIsPresent,
         P!RecordedProvisioned, D!RecordedProvisioned
<1> QED
  BY <1>1, <1>2, Same, DriversImplementDeployments, PTL

\* And nothing Removable is on the cluster that no row speaks of, whatever
\* failed: of the deployments whose update deploys nothing, which are all but
\* the PostgreSQL operator, Valkey and NATS.  (What no delete takes, above,
\* stays without a row.)
\* (multistack/state/tracking.py, multistack/state/manager.py).
THEOREM DriversLeaveNothingUnrecorded ==
    ASSUME Circumstances PROVE Spec => []LiveIsRecorded
<1>1. P!Spec => []P!LiveIsRecorded
  BY SameConditions, Assumed, P!NothingLivesUnrecorded DEF Circumstances
<1>2. P!LiveIsRecorded => LiveIsRecorded
  BY DEF P!LiveIsRecorded, LiveIsRecorded, D!LiveIsRecorded, P!NoRow, D!NoRow
<1> QED
  BY <1>1, <1>2, Same, DriversImplementDeployments, PTL

\* Credentials in use are never replaced: a create that was given none reads
\* back those of the MinIO tenant, or of the Grafana, that is there, before
\* it installs over it (multistack/backends/minio_client.py,
\* multistack/observability/drivers/kube_prometheus_stack.py).
THEOREM CredentialsAreKept == ASSUME Circumstances PROVE Spec => CredentialsKept
<1>1. DInv /\ [Next]_vars =>
        [{"credentials"} \subseteq objs /\ {"credentials"} \subseteq objs' => live' = live]_vars
  BY CredentialsStep, TheTableFits
<1> QED
  BY <1>1, DriversInductive, PTL DEF Spec, CredentialsKept
===============================================================================
