--------------------------- MODULE DeploymentsProofs ---------------------------
(***************************************************************************)
(* For every set of deployments with unique names, deployed serially: the  *)
(* recorded state tells the truth about the cluster.                       *)
(*                                                                         *)
(* Neither property is inductive: what a wrapper writes when its verb has  *)
(* ended depends on what it read before, and on what the verb left behind. *)
(* Remembers says what a process in the middle of a call still knows.      *)
(***************************************************************************)
EXTENDS Deployments, TLAPS

\* The row the wrapper wrote before the work: its own verb's status.
Marked(p) ==
    IF op[p].verb # "create" /\ op[p].existing = "none"
    THEN rows[NameIn(p)] = NoRow
    ELSE /\ rows[NameIn(p)] # NoRow
         /\ rows[NameIn(p)].status =
                IF op[p].verb = "delete" THEN "deleting" ELSE "provisioning"

Owned(p) == rows[NameIn(p)] # NoRow /\ rows[NameIn(p)].type = TypeOf[op[p].spec]

\* What it read is what the row said, and no other process changed it.
Fresh(p) == IF op[p].existing = "none" THEN rows[NameIn(p)] = NoRow
            ELSE rows[NameIn(p)] # NoRow /\ rows[NameIn(p)].status = op[p].existing

\* A row that said provisioned was about a deployment that is still whole.
StillWhole(p) ==
    op[p].existing = "provisioned" /\ Owned(p) => made[op[p].spec] = "present"

Remembers(p) ==
    /\ op[p].pc \in {"require", "start"} => op[p].verb = "create"
    /\ op[p].pc = "restore" => op[p].verb = "update"
    /\ op[p].pc \in {"mark", "work", "busy", "settle", "fail"} /\ op[p].verb = "create"
           => Owned(p)
    /\ op[p].pc = "mark" /\ op[p].verb # "create" => Fresh(p)
    /\ op[p].pc \in {"work", "busy", "settle", "fail", "restore"} => Marked(p)
    /\ op[p].verb = "update" /\ op[p].pc \in {"work", "restore", "settle"}
           => StillWhole(p)
    /\ op[p].pc = "settle" /\ op[p].verb = "create" => made[op[p].spec] = "present"
    /\ op[p].pc = "settle" /\ op[p].verb = "delete" => made[op[p].spec] = "absent"

\* With unique names, a row is of the type of its one deployment.
RowsOwned == \A s \in Specs :
    rows[NameOf[s]] # NoRow => rows[NameOf[s]].type = TypeOf[s]

IInv == /\ TypeOK
        /\ RowsOwned
        /\ \A p \in Procs : op[p] # Idle => Remembers(p)
        /\ ProvisionedIsPresent
        /\ LiveIsRecorded

-------------------------------------------------------------------------------
LEMMA NameInNames == ASSUME NEW s \in Specs PROVE NameOf[s] \in Names
BY FoundAssumption DEF Names

LEMMA TypeInTypes == ASSUME NEW s \in Specs PROVE TypeOf[s] \in Types
BY FoundAssumption DEF Types

\* The types of a process's memory, of its row and of what it works on.
LEMMA CallTypes ==
    ASSUME TypeOK, NEW p \in Procs, op[p] # Idle
    PROVE  /\ op[p] \in Call
           /\ NameIn(p) \in Names
           /\ rows[NameIn(p)] \in Row \cup {NoRow}
           /\ made[op[p].spec] \in Conditions
<1>1. op[p] \in Call
  BY DEF TypeOK, LayerTypeOK
<1>2. op[p].spec \in Specs
  BY <1>1 DEF Call
<1>3. NameIn(p) \in Names
  BY <1>2, NameInNames DEF NameIn
<1> QED
  BY <1>1, <1>2, <1>3 DEF TypeOK, LayerTypeOK

LEMMA NoneIsNotARow == NoRow \notin Row
BY DEF NoRow, Row, DeploymentStatus

\* A row keeps its type when its status is set.
LEMMA RowExcept ==
    ASSUME NEW r \in Row, NEW st \in DeploymentStatus
    PROVE  /\ [r EXCEPT !.status = st] \in Row
           /\ [r EXCEPT !.status = st].status = st
           /\ [r EXCEPT !.status = st].type = r.type
BY DEF Row

-------------------------------------------------------------------------------
LEMMA InitIInv == Init => IInv
<1> SUFFICES ASSUME Init PROVE IInv
  OBVIOUS
<1> USE DEF Init, LayerInit
<1>1. rows \in [Names -> Row \cup {NoRow}]
  BY FoundAssumption DEF Row, DeploymentStatus
<1>2. TypeOK
  BY <1>1, MaxCallsIsNat DEF TypeOK, LayerTypeOK, Conditions, Idle
<1>3. \A p \in Procs : op[p] = Idle
  OBVIOUS
<1>4. ProvisionedIsPresent
  BY DEF ProvisionedIsPresent, RecordedProvisioned
<1>5. LiveIsRecorded
  BY DEF LiveIsRecorded, RecordedProvisioned, NoRow
<1>6. RowsOwned
  BY FoundAssumption DEF RowsOwned
<1> QED
  BY <1>2, <1>3, <1>4, <1>5, <1>6 DEF IInv

-------------------------------------------------------------------------------
(* One lemma per action.  With one process, a step's own memory is all      *)
(* there is to keep; with unique names, its row is nobody else's.           *)

\* A step that changes neither the rows nor the cluster keeps the two
\* promises about them.
LEMMA QuietStep ==
    ASSUME IInv, UNCHANGED <<rows, made>>
    PROVE  ProvisionedIsPresent' /\ LiveIsRecorded' /\ RowsOwned'
BY DEF IInv, ProvisionedIsPresent, LiveIsRecorded, RecordedProvisioned, RowsOwned

\* A step that changes one row, and that row only.
LEMMA OwnRowStep ==
    ASSUME IInv, UniqueNames, NEW s \in Specs,
           rows' = [rows EXCEPT ![NameOf[s]] = rows'[NameOf[s]]],
           UNCHANGED made,
           RecordedProvisioned(s)' => made[s] = "present",
           rows'[NameOf[s]] # NoRow => rows'[NameOf[s]].type = TypeOf[s],
           s \notin Upserting /\ made[s] # "absent" => rows'[NameOf[s]] # NoRow
    PROVE  ProvisionedIsPresent' /\ LiveIsRecorded' /\ RowsOwned'
<1>1. ASSUME NEW t \in Specs, t # s
      PROVE  rows'[NameOf[t]] = rows[NameOf[t]]
  <2>1. NameOf[t] # NameOf[s]
    BY <1>1 DEF UniqueNames
  <2>2. NameOf[t] \in Names
    BY NameInNames
  <2> QED
    BY <2>1, <2>2 DEF IInv, TypeOK, LayerTypeOK
<1>2. ProvisionedIsPresent'
  BY <1>1 DEF IInv, ProvisionedIsPresent, RecordedProvisioned
<1>3. LiveIsRecorded'
  BY <1>1 DEF IInv, LiveIsRecorded
<1>4. RowsOwned'
  BY <1>1 DEF IInv, RowsOwned
<1> QED
  BY <1>2, <1>3, <1>4

LEMMA BeginIInv ==
    ASSUME IInv, Serial, NEW p \in Procs, NEW s \in Specs,
           CallCreate(p, s) \/ CallDelete(p, s) \/ CallUpdate(p, s),
           UNCHANGED made
    PROVE  IInv'
<1> USE DEF CallCreate, CallDelete, CallUpdate, Begin
<1>1. NameOf[s] \in Names /\ rows[NameOf[s]] \in Row \cup {NoRow}
  BY NameInNames DEF IInv, TypeOK, LayerTypeOK
<1>2. rows[NameOf[s]].status \in DeploymentStatus \cup {"none"}
  BY <1>1 DEF Row, NoRow
<1>3. TypeOK'
  BY <1>2, MaxCallsIsNat DEF IInv, TypeOK, LayerTypeOK, Call, Verbs, Pcs
<1>4. \A q \in Procs : q = p
  BY DEF Serial
<1>5. op'[p].spec = s /\ op'[p].existing = rows[NameOf[s]].status
      /\ op'[p].pc \in {"require", "mark"}
      /\ (op'[p].pc = "require" <=> op'[p].verb = "create")
  BY DEF IInv, TypeOK, LayerTypeOK
<1>6. Fresh(p)'
  <2>1. CASE rows[NameOf[s]] = NoRow
    BY <2>1, <1>5 DEF Fresh, NameIn, NoRow
  <2>2. CASE rows[NameOf[s]] \in Row
    BY <2>2, <1>5, NoneIsNotARow DEF Fresh, NameIn, Row, DeploymentStatus
  <2> QED
    BY <2>1, <2>2, <1>1
<1>7. Remembers(p)'
  BY <1>5, <1>6 DEF Remembers
<1> QED
  BY <1>3, <1>4, <1>7, QuietStep DEF IInv

LEMMA RequireIInv ==
    ASSUME IInv, Serial, NEW p \in Procs, RequireHealthyDependencies(p),
           UNCHANGED made
    PROVE  IInv'
<1> USE DEF RequireHealthyDependencies, GoTo, Return
<1>1. op[p] # Idle
  BY DEF Idle
<1>2. op[p] \in Call /\ op[p].verb = "create"
  BY <1>1, CallTypes DEF IInv, Remembers
<1>3. TypeOK'
  BY <1>2 DEF IInv, TypeOK, LayerTypeOK, Call, Pcs
<1>4. \A q \in Procs : q = p
  BY DEF Serial
<1>5. op'[p] = Idle \/ (op'[p].pc = "start" /\ op'[p].verb = "create")
  BY <1>2 DEF IInv, TypeOK, LayerTypeOK, Call
<1>6. op'[p] # Idle => Remembers(p)'
  BY <1>5 DEF Remembers
<1> QED
  BY <1>3, <1>4, <1>6, QuietStep DEF IInv

LEMMA StartIInv ==
    ASSUME IInv, Serial, UniqueNames, NEW p \in Procs, StartRow(p), UNCHANGED made
    PROVE  IInv'
<1> USE DEF StartRow, GoTo
<1>1. op[p] # Idle
  BY DEF Idle
<1>0. PICK s \in Specs : s = op[p].spec
  BY <1>1, CallTypes DEF IInv, Call
<1> DEFINE r == [status |-> IF Recorded(p) THEN rows[NameOf[s]].status ELSE "pending",
                 type |-> TypeOf[s]]
<1>2. op[p] \in Call /\ op[p].verb = "create" /\ s \in Specs
  BY <1>1, CallTypes DEF IInv, Remembers, Call
<1>3. NameOf[s] \in Names /\ TypeOf[s] \in Types
  BY <1>2, NameInNames, TypeInTypes
<1>4. rows' = [rows EXCEPT ![NameOf[s]] = r]
  BY <1>0 DEF NameIn
<1>5. r \in Row
  <2>1. rows[NameOf[s]] \in Row \cup {NoRow}
    BY <1>3 DEF IInv, TypeOK, LayerTypeOK
  <2>2. CASE Recorded(p)
    BY <1>0, <1>3, <2>1, <2>2 DEF Recorded, NameIn, Row
  <2>3. CASE ~Recorded(p)
    BY <1>3, <2>3 DEF Row, DeploymentStatus
  <2> QED
    BY <2>2, <2>3
<1>6. rows'[NameOf[s]] = r
  BY <1>3, <1>4 DEF IInv, TypeOK, LayerTypeOK
<1>7. TypeOK'
  <2>1. rows' \in [Names -> Row \cup {NoRow}]
    BY <1>4, <1>5 DEF IInv, TypeOK, LayerTypeOK
  <2>2. op' \in [Procs -> Call \cup {Idle}]
    BY <1>2 DEF IInv, TypeOK, LayerTypeOK, Call, Pcs
  <2> QED
    BY <2>1, <2>2 DEF IInv, TypeOK, LayerTypeOK
<1>8. \A q \in Procs : q = p
  BY DEF Serial
<1>9. op'[p].spec = s /\ op'[p].pc = "mark" /\ op'[p].verb = "create"
  BY <1>0, <1>2 DEF IInv, TypeOK, LayerTypeOK, Call
<1>10. Owned(p)'
  BY <1>5, <1>6, <1>9, NoneIsNotARow DEF Owned, NameIn
<1>11. Remembers(p)'
  BY <1>9, <1>10 DEF Remembers
<1>12. RecordedProvisioned(s)' => made[s] = "present"
  <2> SUFFICES ASSUME RecordedProvisioned(s)'
               PROVE  made[s] = "present"
    OBVIOUS
  <2>1. r.status = "provisioned"
    BY <1>6 DEF RecordedProvisioned
  <2>2. Recorded(p) /\ rows[NameOf[s]].status = "provisioned"
    BY <2>1
  <2>3. rows[NameOf[s]] \in Row /\ rows[NameOf[s]].type = TypeOf[s]
    BY <1>0, <1>3, <2>2 DEF IInv, RowsOwned, TypeOK, LayerTypeOK, Recorded, NameIn
  <2>4. RecordedProvisioned(s)
    BY <2>2, <2>3 DEF RecordedProvisioned, Row
  <2> QED
    BY <1>2, <2>4 DEF IInv, ProvisionedIsPresent
<1>13. ProvisionedIsPresent' /\ LiveIsRecorded' /\ RowsOwned'
  <2>1. rows' = [rows EXCEPT ![NameOf[s]] = rows'[NameOf[s]]]
    BY <1>4, <1>6
  <2>2. rows'[NameOf[s]] # NoRow /\ rows'[NameOf[s]].type = TypeOf[s]
    BY <1>5, <1>6, NoneIsNotARow
  <2> QED
    BY <1>2, <1>12, <2>1, <2>2, OwnRowStep
<1> QED
  BY <1>7, <1>8, <1>11, <1>13 DEF IInv

LEMMA MarkIInv ==
    ASSUME IInv, Serial, UniqueNames, NEW p \in Procs, Mark(p), UNCHANGED made
    PROVE  IInv'
<1> DEFINE st == IF op[p].verb = "delete" THEN "deleting" ELSE "provisioning"
<1> USE DEF Mark, GoTo, Return, SetStatus
<1>1. op[p] # Idle
  BY DEF Idle
<1>0. PICK s \in Specs : s = op[p].spec
  BY <1>1, CallTypes DEF IInv, Call
<1>2. op[p] \in Call /\ s \in Specs /\ Remembers(p)
  BY <1>1, CallTypes DEF IInv, Call
<1>3. NameOf[s] \in Names /\ NameIn(p) = NameOf[s]
  BY <1>0, NameInNames DEF NameIn
<1>4. rows[NameOf[s]] \in Row \cup {NoRow}
  BY <1>3 DEF IInv, TypeOK, LayerTypeOK
<1>5. \A q \in Procs : q = p
  BY DEF Serial
<1>6. op' \in [Procs -> Call \cup {Idle}]
  BY <1>2 DEF IInv, TypeOK, LayerTypeOK, Call, Pcs
<1>7. CASE op[p].verb # "create" /\ op[p].existing = "none"
  <2>1. op'[p].pc = "work" /\ op'[p].verb = op[p].verb /\ op'[p].spec = s
        /\ op'[p].existing = "none" /\ rows' = rows
    BY <1>0, <1>2, <1>7 DEF IInv, TypeOK, LayerTypeOK, Call
  <2>2. rows[NameOf[s]] = NoRow
    BY <1>2, <1>3, <1>7 DEF Remembers, Fresh
  <2>3. Marked(p)' /\ StillWhole(p)'
    BY <1>0, <2>1, <2>2, <1>7 DEF Marked, StillWhole, NameIn
  <2>4. Remembers(p)'
    BY <1>0, <1>2, <1>7, <2>1, <2>3 DEF Remembers
  <2> QED
    BY <1>5, <1>6, <2>1, <2>4, QuietStep DEF IInv, TypeOK, LayerTypeOK
<1>8. CASE ~(op[p].verb # "create" /\ op[p].existing = "none") /\ ~Recorded(p)
  <2>1. op'[p] = Idle /\ rows' = rows
    BY <1>2, <1>8 DEF IInv, TypeOK, LayerTypeOK, Call
  <2> QED
    BY <1>5, <1>6, <2>1, QuietStep DEF IInv, TypeOK, LayerTypeOK
<1>9. CASE ~(op[p].verb # "create" /\ op[p].existing = "none") /\ Recorded(p)
  <2>1. op'[p].pc = "work" /\ op'[p].verb = op[p].verb /\ op'[p].spec = s
        /\ op'[p].existing = op[p].existing
        /\ rows' = [rows EXCEPT ![NameOf[s]].status = st]
    BY <1>0, <1>2, <1>3, <1>9 DEF IInv, TypeOK, LayerTypeOK, Call
  <2>2. rows[NameOf[s]] \in Row /\ rows[NameOf[s]].type = TypeOf[s]
    BY <1>2, <1>3, <1>4, <1>9 DEF Recorded, IInv, RowsOwned
  <2>3. rows'[NameOf[s]] = [rows[NameOf[s]] EXCEPT !.status = st]
    BY <1>3, <2>1 DEF IInv, TypeOK, LayerTypeOK
  <2>4. /\ rows'[NameOf[s]] \in Row
        /\ rows'[NameOf[s]].status = st
        /\ rows'[NameOf[s]].type = TypeOf[s]
    <3>1. st \in DeploymentStatus
      BY DEF DeploymentStatus
    <3> QED
      BY <2>2, <2>3, <3>1, RowExcept
  <2>5. rows' = [rows EXCEPT ![NameOf[s]] = rows'[NameOf[s]]]
    BY <2>1, <2>3
  <2>6. TypeOK'
    BY <1>6, <2>4, <2>5 DEF IInv, TypeOK, LayerTypeOK
  <2>7. Marked(p)' /\ Owned(p)'
    BY <1>9, <2>1, <2>4, NoneIsNotARow DEF Marked, Owned, NameIn
  <2>8. op[p].verb = "update" => StillWhole(p)'
    <3> SUFFICES ASSUME op[p].verb = "update", op[p].existing = "provisioned"
                 PROVE  made[s] = "present"
      BY <2>1 DEF StillWhole
    <3>1. rows[NameOf[s]].status = "provisioned"
      BY <1>2, <1>3 DEF Remembers, Fresh
    <3>2. RecordedProvisioned(s)
      BY <2>2, <3>1 DEF RecordedProvisioned, Row
    <3> QED
      BY <1>2, <3>2 DEF IInv, ProvisionedIsPresent
  <2>9. Remembers(p)'
    BY <1>0, <1>2, <2>1, <2>7, <2>8 DEF Remembers
  <2>10. ~RecordedProvisioned(s)'
    BY <2>4 DEF RecordedProvisioned
  <2>11. ProvisionedIsPresent' /\ LiveIsRecorded' /\ RowsOwned'
    BY <1>2, <2>4, <2>5, <2>10, NoneIsNotARow, OwnRowStep
  <2> QED
    BY <1>5, <2>6, <2>9, <2>11 DEF IInv
<1> QED
  BY <1>7, <1>8, <1>9

\* The three ways a wrapper ends, each with what it writes to a row that is
\* there, and the call that is over.
LEMMA ReturnsIInv ==
    ASSUME IInv, Serial, UniqueNames, NEW p \in Procs, op[p] # Idle, Return(p),
           UNCHANGED <<calls, made>>,
           NEW r \in Row \cup {NoRow},
           rows' = [rows EXCEPT ![NameIn(p)] = r],
           r # NoRow => r.type = TypeOf[op[p].spec],
           r # NoRow /\ r.status = "provisioned" => made[op[p].spec] = "present",
           r = NoRow /\ op[p].spec \notin Upserting => made[op[p].spec] = "absent"
    PROVE  IInv'
<1>1. PICK s \in Specs : s = op[p].spec
  BY CallTypes DEF IInv, Call
<1>2. NameOf[s] \in Names /\ NameIn(p) = NameOf[s]
  BY <1>1, NameInNames DEF NameIn
<1>3. TypeOK' /\ op'[p] = Idle
  BY <1>2 DEF IInv, TypeOK, LayerTypeOK, Return
<1>4. rows'[NameOf[s]] = r
  BY <1>2 DEF IInv, TypeOK, LayerTypeOK
<1>5. rows' = [rows EXCEPT ![NameOf[s]] = rows'[NameOf[s]]]
  BY <1>2, <1>4
<1>6. RecordedProvisioned(s)' => made[s] = "present"
  BY <1>1, <1>4 DEF RecordedProvisioned, NoRow
<1>7. made' = made
  OBVIOUS
<1>8. ProvisionedIsPresent' /\ LiveIsRecorded' /\ RowsOwned'
  BY <1>1, <1>4, <1>5, <1>6, <1>7, OwnRowStep
<1>9. \A q \in Procs : q = p
  BY DEF Serial
<1> QED
  BY <1>3, <1>8, <1>9 DEF IInv

\* ... or nothing at all.
LEMMA LeavesIInv ==
    ASSUME IInv, Serial, NEW p \in Procs, Return(p), UNCHANGED <<rows, calls, made>>
    PROVE  IInv'
<1>1. TypeOK' /\ op'[p] = Idle
  BY DEF IInv, TypeOK, LayerTypeOK, Return
<1>2. \A q \in Procs : q = p
  BY DEF Serial
<1> QED
  BY <1>1, <1>2, QuietStep DEF IInv

LEMMA SettleIInv ==
    ASSUME IInv, Serial, UniqueNames, NEW p \in Procs, Settle(p), UNCHANGED made
    PROVE  IInv'
<1> USE DEF Settle
<1>1. op[p] # Idle
  BY DEF Idle
<1>2. op[p] \in Call /\ op[p].spec \in Specs /\ Remembers(p)
  BY <1>1, CallTypes DEF IInv, Call
<1>3. NameIn(p) \in Names /\ rows[NameIn(p)] \in Row \cup {NoRow}
  BY <1>1, CallTypes DEF IInv
<1>4. CASE ~Recorded(p) \/ (op[p].verb # "create" /\ op[p].existing = "none")
  BY <1>4, LeavesIInv
<1>5. CASE Recorded(p) /\ ~(op[p].verb # "create" /\ op[p].existing = "none")
  <2>1. rows[NameIn(p)] \in Row /\ rows[NameIn(p)].type = TypeOf[op[p].spec]
    BY <1>2, <1>3, <1>5 DEF Recorded, NameIn, IInv, RowsOwned
  <2>2. CASE op[p].verb = "create"
    <3> DEFINE r == [rows[NameIn(p)] EXCEPT !.status = "provisioned"]
    <3>1. "provisioned" \in DeploymentStatus
      BY DEF DeploymentStatus
    <3>2. r \in Row /\ r.type = TypeOf[op[p].spec]
      BY <2>1, <3>1, RowExcept
    <3>3. rows' = [rows EXCEPT ![NameIn(p)] = r]
      BY <1>5, <2>2
    <3>4. made[op[p].spec] = "present"
      BY <1>2, <2>2 DEF Remembers
    <3> HIDE DEF r
    <3> QED
      BY <1>1, <3>2, <3>3, <3>4, NoneIsNotARow, ReturnsIInv
  <2>3. CASE op[p].verb = "update"
    <3> DEFINE r == [rows[NameIn(p)] EXCEPT !.status = op[p].existing]
    <3>1. op[p].existing \in DeploymentStatus
      BY <1>2, <1>5, <2>3 DEF Call
    <3>2. r \in Row /\ r.type = TypeOf[op[p].spec] /\ r.status = op[p].existing
      BY <2>1, <3>1, RowExcept
    <3>3. rows' = [rows EXCEPT ![NameIn(p)] = r]
      BY <1>5, <2>3
    <3>4. Owned(p) /\ StillWhole(p)
      BY <1>2, <1>5, <2>1, <2>3 DEF Remembers, Owned, Recorded
    <3>5. op[p].existing = "provisioned" => made[op[p].spec] = "present"
      BY <3>4 DEF StillWhole
    <3> HIDE DEF r
    <3> QED
      BY <1>1, <3>2, <3>3, <3>5, NoneIsNotARow, ReturnsIInv
  <2>4. CASE op[p].verb = "delete"
    <3>1. rows' = [rows EXCEPT ![NameIn(p)] = NoRow]
      BY <1>5, <2>4
    <3>2. made[op[p].spec] = "absent"
      BY <1>2, <2>4 DEF Remembers
    <3> QED
      BY <1>1, <3>1, <3>2, ReturnsIInv
  <2> QED
    BY <1>2, <2>2, <2>3, <2>4 DEF Call, Verbs
<1> QED
  BY <1>4, <1>5

LEMMA MarkFailedIInv ==
    ASSUME IInv, Serial, UniqueNames, NEW p \in Procs, MarkFailed(p), UNCHANGED made
    PROVE  IInv'
<1> USE DEF MarkFailed
<1>1. op[p] # Idle
  BY DEF Idle
<1>2. op[p] \in Call /\ op[p].spec \in Specs
  BY <1>1, CallTypes DEF IInv, Call
<1>3. NameIn(p) \in Names /\ rows[NameIn(p)] \in Row \cup {NoRow}
  BY <1>1, CallTypes DEF IInv
<1>4. CASE ~Recorded(p) \/ (op[p].verb # "create" /\ op[p].existing = "none")
  BY <1>4, LeavesIInv
<1>5. CASE Recorded(p) /\ ~(op[p].verb # "create" /\ op[p].existing = "none")
  <2> DEFINE r == [rows[NameIn(p)] EXCEPT !.status = "failed"]
  <2>1. rows[NameIn(p)] \in Row /\ rows[NameIn(p)].type = TypeOf[op[p].spec]
    BY <1>2, <1>3, <1>5 DEF Recorded, NameIn, IInv, RowsOwned
  <2>2. "failed" \in DeploymentStatus
    BY DEF DeploymentStatus
  <2>3. r \in Row /\ r.type = TypeOf[op[p].spec] /\ r.status = "failed"
    BY <2>1, <2>2, RowExcept
  <2>4. rows' = [rows EXCEPT ![NameIn(p)] = r]
    BY <1>5
  <2> HIDE DEF r
  <2> QED
    BY <1>1, <2>3, <2>4, NoneIsNotARow, ReturnsIInv
<1> QED
  BY <1>4, <1>5

LEMMA RestoreIInv ==
    ASSUME IInv, Serial, UniqueNames, NEW p \in Procs, RestorePrevious(p),
           UNCHANGED made
    PROVE  IInv'
<1> USE DEF RestorePrevious
<1>1. op[p] # Idle
  BY DEF Idle
<1>2. op[p] \in Call /\ op[p].spec \in Specs /\ Remembers(p)
  BY <1>1, CallTypes DEF IInv, Call
<1>3. NameIn(p) \in Names /\ rows[NameIn(p)] \in Row \cup {NoRow}
  BY <1>1, CallTypes DEF IInv
<1>4. CASE ~(Recorded(p) /\ op[p].existing # "none")
  BY <1>4, LeavesIInv
<1>5. CASE Recorded(p) /\ op[p].existing # "none"
  <2> DEFINE r == [rows[NameIn(p)] EXCEPT !.status = op[p].existing]
  <2>1. rows[NameIn(p)] \in Row /\ rows[NameIn(p)].type = TypeOf[op[p].spec]
    BY <1>2, <1>3, <1>5 DEF Recorded, NameIn, IInv, RowsOwned
  <2>2. op[p].existing \in DeploymentStatus
    BY <1>2, <1>5 DEF Call
  <2>3. r \in Row /\ r.type = TypeOf[op[p].spec] /\ r.status = op[p].existing
    BY <2>1, <2>2, RowExcept
  <2>4. rows' = [rows EXCEPT ![NameIn(p)] = r]
    BY <1>5
  <2>5. Owned(p) /\ StillWhole(p)
    BY <1>2, <1>5, <2>1 DEF Remembers, Owned, Recorded
  <2>6. op[p].existing = "provisioned" => made[op[p].spec] = "present"
    BY <2>5 DEF StillWhole
  <2> HIDE DEF r
  <2> QED
    BY <1>1, <2>3, <2>4, <2>6, NoneIsNotARow, ReturnsIInv
<1> QED
  BY <1>4, <1>5

LEMMA CrashIInv ==
    ASSUME IInv, Serial, NEW p \in Procs, Crash(p), UNCHANGED made
    PROVE  IInv'
BY LeavesIInv DEF Crash

-------------------------------------------------------------------------------
(* The verb's own steps.                                                   *)

LEMMA WorkIInv ==
    ASSUME IInv, Serial, UniqueNames, NEW p \in Procs, Work(p)
    PROVE  IInv'
<1> USE DEF Work, GoTo, Working
<1>1. op[p] # Idle
  BY DEF Idle
<1>0. PICK s \in Specs : s = op[p].spec
  BY <1>1, CallTypes DEF IInv, Call
<1>2. op[p] \in Call /\ Remembers(p)
  BY <1>1, CallTypes DEF IInv
<1>3. PICK c \in Conditions :
          /\ BringsNothing(p) /\ made[s] = "absent" => c = "absent"
          /\ made' = [made EXCEPT ![s] = c]
  BY <1>0
<1>4. NameOf[s] \in Names /\ NameIn(p) = NameOf[s]
  BY <1>0, NameInNames DEF NameIn
<1>5. op' \in [Procs -> Call \cup {Idle}]
  BY <1>2 DEF IInv, TypeOK, LayerTypeOK, Call, Pcs
<1>6. TypeOK'
  BY <1>3, <1>5 DEF IInv, TypeOK, LayerTypeOK
<1>7. op'[p].pc = "busy" /\ op'[p].verb = op[p].verb /\ op'[p].spec = s
      /\ op'[p].existing = op[p].existing
  BY <1>0, <1>2 DEF IInv, TypeOK, LayerTypeOK, Call
<1>8. Marked(p)
  BY <1>2 DEF Remembers
<1>9. Remembers(p)'
  <2>1. Marked(p)'
    BY <1>0, <1>4, <1>7, <1>8 DEF Marked, NameIn
  <2>2. op[p].verb = "create" => Owned(p)'
    BY <1>0, <1>2, <1>4, <1>7 DEF Remembers, Owned, NameIn
  <2> QED
    BY <1>0, <1>2, <1>7, <2>1, <2>2 DEF Remembers
<1>10. \A t \in Specs : t # s => made'[t] = made[t]
  BY <1>3 DEF IInv, TypeOK
<1>11. ~RecordedProvisioned(s)
  BY <1>4, <1>8 DEF Marked, RecordedProvisioned, NoRow
<1>12. ProvisionedIsPresent'
  BY <1>10, <1>11 DEF IInv, ProvisionedIsPresent, RecordedProvisioned
<1>13. ASSUME s \notin Upserting, made'[s] # "absent"
       PROVE  rows[NameOf[s]] # NoRow
  <2>1. CASE op[p].verb = "create"
    BY <1>4, <1>8, <2>1 DEF Marked
  <2>2. CASE op[p].verb \in {"update", "delete"}
    <3>1. BringsNothing(p)
      BY <1>0, <1>13, <2>2 DEF BringsNothing
    <3>2. made[s] # "absent"
      BY <1>3, <1>13, <3>1 DEF IInv, TypeOK
    <3> QED
      BY <1>13, <3>2 DEF IInv, LiveIsRecorded
  <2> QED
    BY <1>2, <2>1, <2>2 DEF Call, Verbs
<1>14. RowsOwned'
  BY DEF IInv, RowsOwned
<1>15. LiveIsRecorded'
  BY <1>10, <1>13, <1>14 DEF IInv, LiveIsRecorded, RowsOwned
<1>16. \A q \in Procs : q = p
  BY DEF Serial
<1> QED
  BY <1>6, <1>9, <1>12, <1>14, <1>15, <1>16 DEF IInv

\* The three ways a verb ends only move the wrapper on.
LEMMA WorkEndsIInv ==
    ASSUME IInv, Serial, NEW p \in Procs, WorkDone(p) \/ WorkRaises(p) \/ WorkRefused(p)
    PROVE  IInv'
<1> USE DEF WorkDone, WorkRaises, WorkRefused, Working, GoTo
<1>1. op[p] # Idle
  BY DEF Idle
<1>0. PICK s \in Specs : s = op[p].spec
  BY <1>1, CallTypes DEF IInv, Call
<1>2. op[p] \in Call /\ Remembers(p)
  BY <1>1, CallTypes DEF IInv
<1>3. TypeOK'
  BY <1>2 DEF IInv, TypeOK, LayerTypeOK, Call, Pcs
<1>4. op'[p].verb = op[p].verb /\ op'[p].spec = s /\ op'[p].existing = op[p].existing
      /\ rows' = rows /\ made' = made
  BY <1>0, <1>2 DEF IInv, TypeOK, LayerTypeOK, Call
<1>5. Marked(p)'
  BY <1>0, <1>2, <1>4 DEF Remembers, Marked, NameIn
<1>6. op[p].verb = "create" => Owned(p)'
  BY <1>0, <1>2, <1>4 DEF Remembers, Owned, NameIn
<1>7. CASE WorkDone(p)
  <2>1. op'[p].pc = "settle"
    BY <1>2, <1>7 DEF IInv, TypeOK, LayerTypeOK, Call
  <2>2. op[p].verb = "update" => StillWhole(p)'
    BY <1>0, <1>4, <1>7 DEF StillWhole, Owned, NameIn
  <2>3. Remembers(p)'
    BY <1>0, <1>2, <1>4, <1>5, <1>6, <1>7, <2>1, <2>2 DEF Remembers
  <2> QED
    BY <1>3, <1>4, <2>3, QuietStep DEF IInv, Serial
<1>8. CASE WorkRaises(p)
  <2>1. op'[p].pc = "fail"
    BY <1>2, <1>8 DEF IInv, TypeOK, LayerTypeOK, Call
  <2>2. Remembers(p)'
    BY <1>0, <1>2, <1>4, <1>5, <1>6, <2>1 DEF Remembers
  <2> QED
    BY <1>3, <1>4, <2>2, QuietStep DEF IInv, Serial
<1>9. CASE WorkRefused(p)
  <2>1. op'[p].pc = "restore" /\ op[p].verb = "update" /\ op[p].pc = "work"
    BY <1>2, <1>9 DEF IInv, TypeOK, LayerTypeOK, Call
  <2>2. StillWhole(p)'
    BY <1>0, <1>2, <1>4, <2>1 DEF Remembers, StillWhole, Owned, NameIn
  <2>3. Remembers(p)'
    BY <1>0, <1>2, <1>4, <1>5, <2>1, <2>2 DEF Remembers
  <2> QED
    BY <1>3, <1>4, <2>3, QuietStep DEF IInv, Serial
<1> QED
  BY <1>7, <1>8, <1>9

LEMMA NextIInv ==
    ASSUME Serial, UniqueNames PROVE IInv /\ [Next]_vars => IInv'
<1> SUFFICES ASSUME IInv, [Next]_vars PROVE IInv'
  OBVIOUS
<1>1. CASE UNCHANGED vars
  <2>1. TypeOK' /\ \A p \in Procs : op'[p] # Idle => Remembers(p)'
    BY <1>1 DEF IInv, vars, layer, TypeOK, LayerTypeOK, Remembers, Owned, Fresh,
                Marked, StillWhole, NameIn
  <2> QED
    BY <1>1, <2>1, QuietStep DEF IInv, vars, layer
<1>2. CASE Next
  <2>1. PICK p \in Procs : Step(p)
    BY <1>2 DEF Next
  <2>2. CASE (\E s \in Specs : CallCreate(p, s) \/ CallDelete(p, s)
                               \/ CallUpdate(p, s)) /\ UNCHANGED made
    BY <2>2, BeginIInv
  <2>3. CASE Bookkeeping(p) /\ UNCHANGED made
    BY <2>3, RequireIInv, StartIInv, MarkIInv, SettleIInv, MarkFailedIInv,
       RestoreIInv DEF Bookkeeping
  <2>4. CASE Crash(p) /\ UNCHANGED made
    BY <2>4, CrashIInv
  <2>5. CASE Work(p)
    BY <2>5, WorkIInv
  <2>6. CASE WorkDone(p) \/ WorkRaises(p) \/ WorkRefused(p)
    BY <2>6, WorkEndsIInv
  <2> QED
    BY <2>1, <2>2, <2>3, <2>4, <2>5, <2>6 DEF Step
<1> QED
  BY <1>1, <1>2

\* The strengthened invariant is inductive.
THEOREM Inductive == ASSUME Serial, UniqueNames PROVE Spec => []IInv
<1>1. Init => IInv
  BY InitIInv
<1>2. IInv /\ [Next]_vars => IInv'
  BY NextIInv
<1> QED
  BY <1>1, <1>2, PTL DEF Spec

\* For every set of deployments with names of their own, deployed serially, a
\* row that says provisioned is a deployment that is wholly there: through
\* failures, refusals, and crashes between any two commits (state/tracking.py).
THEOREM ProvisionedRowsAreTrue ==
    ASSUME Serial, UniqueNames PROVE Spec => []ProvisionedIsPresent
<1>1. IInv => ProvisionedIsPresent
  BY DEF IInv
<1> QED
  BY <1>1, Inductive, PTL

\* And no deployment is ever on the cluster without a row of its own, but for
\* those whose update, documented to run unrecorded, deploys what is not there (state/tracking.py, state/manager.py).
THEOREM NothingLivesUnrecorded ==
    ASSUME Serial, UniqueNames PROVE Spec => []LiveIsRecorded
<1>1. IInv => LiveIsRecorded
  BY DEF IInv
<1> QED
  BY <1>1, Inductive, PTL

\* The rows, the calls and the cluster keep their types.
THEOREM DeploymentTypes == ASSUME Serial, UniqueNames PROVE Spec => []TypeOK
<1>1. IInv => TypeOK
  BY DEF IInv
<1> QED
  BY <1>1, Inductive, PTL
===============================================================================
