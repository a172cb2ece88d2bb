----------------------------- MODULE IssueStore -----------------------------
(***************************************************************************)
(* The issue tables of internal/store: issues, comments, relations,        *)
(* milestones, labels, the label_groups setting, the key counter and the   *)
(* events table.  Every store method is one immediate SQLite transaction   *)
(* on the one connection the process has (store.go:95-97, 376-386), so     *)
(* every method is one action.  A method that returns an error rolls back  *)
(* and is no step; neither is a replayed idempotent create or an update    *)
(* that changes nothing.                                                   *)
(*                                                                         *)
(* Time: now() is the position in the events table of the event that the   *)
(* same transaction records, so a stamp says which write set it.  0 is the *)
(* SQL NULL of a stamp, a milestone or a parent.                           *)
(*                                                                         *)
(* Data: title, priority, assignee and due date, which are written as they *)
(* come, are one column, details.  A description is the sequence of the    *)
(* texts it was put together from.  updated_at is left out.                *)
(***************************************************************************)
EXTENDS Naturals, Sequences, FiniteSets

CONSTANTS
  Details,        \* values of the columns written as they come
  Texts,          \* pieces of text of a description
  Bodies,         \* comment bodies
  Statuses,       \* workflow states
  StatusType,     \* their types: "triage", "started", "completed", ...
  Projects,
  Labels,         \* label names
  MilestoneNames, \* milestone names as stored
  Fold,           \* a milestone name without regard to case
  RelationTypes,
  IdemKeys,       \* idempotency keys
  NewIssues,      \* the issue inputs callers send
  Patches,        \* the issue patches callers send
  MilestonePatches,
  GroupSettings,  \* the values label_groups is set to
  None,           \* an empty string in a request, NULL in a column
  Keep,           \* a field a patch leaves out
  MaxEvents,      \* bound on the events table
  MaxDepth        \* the depth cap of the walk up the hierarchy

VARIABLES
  issues,     \* key -> issue row
  issueSeq,   \* the issue_seq setting: the last number handed out
  comments,   \* the comments table, in id order
  relations,  \* rows of issue_relations
  milestones, \* the milestones table, in id order
  labels,     \* label names that exist
  groups,     \* the label_groups setting: exclusive sets of labels
  spent,      \* idempotency keys in use: <<table, key, row>>
  events      \* the audit trail

vars == <<issues, issueSeq, comments, relations, milestones, labels, groups,
          spent, events>>

-----------------------------------------------------------------------------
Issue ==
  [details: Details, description: Seq(Texts), status: Statuses,
   project: Projects \cup {None}, milestone: Nat, parent: Nat,
   labels: SUBSET Labels, startedAt: Nat, completedAt: Nat, canceledAt: Nat,
   archivedAt: Nat, version: Nat]

Comment == [issue: Nat, body: Bodies, parent: Nat]

Milestone == [project: Projects, name: MilestoneNames, archivedAt: Nat]

Relation == [from: Nat, type: RelationTypes, to: Nat]

MilestoneRef == ({"id"} \X Nat) \cup ({"name"} \X MilestoneNames)

NewIssue ==
  [details: Details, description: Seq(Texts), status: Statuses,
   project: Projects \cup {None}, milestone: MilestoneRef \cup {None},
   parent: Nat, labels: SUBSET Labels, idem: IdemKeys \cup {None}]

Patch ==
  [details: Details \cup {Keep}, description: Seq(Texts) \cup {Keep},
   replace: BOOLEAN, status: Statuses \cup {Keep},
   project: Projects \cup {None, Keep},
   milestone: MilestoneRef \cup {None, Keep}, parent: Nat \cup {Keep},
   labels: (SUBSET Labels) \cup {Keep}, add: Seq(Labels),
   remove: SUBSET Labels, archived: BOOLEAN \cup {Keep},
   expect: Nat \cup {Keep}]

MilestonePatch ==
  [name: MilestoneNames \cup {Keep}, archived: BOOLEAN \cup {Keep}]

ASSUME InputAssumption ==
  /\ NewIssues \subseteq NewIssue
  /\ Patches \subseteq Patch
  /\ MilestonePatches \subseteq MilestonePatch
  /\ GroupSettings \subseteq SUBSET SUBSET Labels
  /\ None \notin Projects

\* A field left out is told apart from every value it could have.
ASSUME KeepAssumption ==
  /\ \A set \in SUBSET Labels : Keep # set
  /\ Keep \notin Projects \cup {None}
  /\ Keep \notin Nat

\* A patch that replaces the label set may not also edit it
\* (issues.go:124-126); of a label named twice the first naming counts
\* (labels.go:159).
ASSUME PatchAssumption ==
  \A p \in Patches :
    /\ p.labels # Keep => p.add = << >> /\ p.remove = {}
    /\ \A i, j \in DOMAIN p.add : p.add[i] = p.add[j] => i = j

ASSUME BoundAssumption == MaxEvents \in Nat /\ MaxDepth \in Nat

-----------------------------------------------------------------------------
(***************************************************************************)
(* Helpers                                                                 *)
(***************************************************************************)

Keys == DOMAIN issues

Pick(value, otherwise) == IF value = Keep THEN otherwise ELSE value

Now == Len(events) + 1

\* Mutant: a failed insert of the event is ignored.
RecordBestEffort(action, row, before, after) ==
  \/ UNCHANGED events
  \/ /\ Len(events) < MaxEvents
     /\ events' = Append(events, [action |-> action, row |-> row,
                                  before |-> before, after |-> after])

\* Every write but EnsureLabel ends by recording one event.  row is the id of
\* the row written; for a relation it is the issue the relation starts from,
\* for a setting 0.
Record(action, row, before, after) ==
  /\ Len(events) < MaxEvents
  /\ events' = Append(events, [action |-> action, row |-> row,
                               before |-> before, after |-> after])

\* Mutant: the index on idempotency keys is missing.
KeyNeverSpent(table, idem) == FALSE

KeySpent(table, idem) == \E s \in spent : s[1] = table /\ s[2] = idem

\* Mutant: reopening leaves the stamp behind.
PhaseStampKept(stamp, inPhase, now) == IF inPhase /\ stamp = 0 THEN now ELSE stamp

\* A stamp that is set on entering a phase, kept while in it, and cleared on
\* leaving it.
PhaseStamp(stamp, inPhase, now) ==
  IF ~inPhase THEN 0 ELSE IF stamp = 0 THEN now ELSE stamp

\* An issue as loadIssue reads it: its milestone by name.
Loaded(row) ==
  [row EXCEPT !.milestone =
     IF row.milestone \in DOMAIN milestones
       THEN milestones[row.milestone].name ELSE None]

\* The live milestones a reference may resolve to.
MilestonesNamed(project, ref) ==
  {m \in DOMAIN milestones :
     /\ milestones[m].project = project
     /\ milestones[m].archivedAt = 0
     /\ \/ ref = <<"id", m>>
        \/ ref[1] = "name" /\ Fold[ref[2]] = Fold[milestones[m].name]}

Resolved(project, ref) ==
  IF ref = None THEN {0} ELSE MilestonesNamed(project, ref)

\* Mutant: only the issue itself is refused as its parent.
ParentNotSelf(k, p) == p \in Keys /\ p # k

\* Walking up from p reaches a root within MaxDepth rows and never meets k.
ParentAllowed(k, p) ==
  \E depth \in 1..MaxDepth : \E path \in [1..depth -> Keys] :
    /\ path[1] = p
    /\ \A d \in 1..(depth - 1) : path[d + 1] = issues[path[d]].parent
    /\ issues[path[depth]].parent = 0
    /\ \A d \in 1..depth : path[d] # k

-----------------------------------------------------------------------------
(***************************************************************************)
(* Labels: normalizeLabels and the exclusive groups                        *)
(***************************************************************************)

Excludes(l, m) == \E g \in groups : l \in g /\ m \in g

AtMostOnePerGroup(set, grouping) ==
  \A g \in grouping : \A l, m \in set \cap g : l = m

\* A replacement set may not hold two members of one group; every name given
\* must be a label that exists.
LabelsAccepted(replace, add, remove) ==
  /\ replace # Keep =>
       replace \subseteq labels /\ AtMostOnePerGroup(replace, groups)
  /\ \A i \in DOMAIN add : add[i] \in labels
  /\ remove \subseteq labels

\* Mutant: adding a label leaves its siblings.
LabelsAfterUnion(current, replace, add, remove) ==
  (Pick(replace, current) \cup {add[i] : i \in DOMAIN add}) \ remove

\* The labels are added in order, each dropping what its groups exclude.
LabelsAfter(current, replace, add, remove) ==
  LET base == Pick(replace, current)
      kept == {l \in base : \A i \in DOMAIN add : ~Excludes(l, add[i])}
      added == {add[i] : i \in {j \in DOMAIN add :
                  \A n \in (j + 1)..Len(add) : ~Excludes(add[j], add[n])}}
  IN (kept \cup added) \ remove

-----------------------------------------------------------------------------
(***************************************************************************)
(* Issues                                                                  *)
(***************************************************************************)

\* Mutant: the counter is read before it is advanced.
NewKeyEarly == issueSeq

NewKey == issueSeq + 1

CreateIssue(in) ==
  LET key == NewKey
      type == StatusType[in.status]
  IN
  /\ ~KeySpent("issue", in.idem)
  /\ key \notin Keys
  /\ in.parent \in Keys \cup {0}
  /\ LabelsAccepted(in.labels, << >>, {})
  /\ \E m \in Resolved(in.project, in.milestone) :
       LET row == [details |-> in.details, description |-> in.description,
                   status |-> in.status, project |-> in.project,
                   milestone |-> m, parent |-> in.parent,
                   labels |-> in.labels,
                   startedAt |-> PhaseStamp(0, type = "started", Now),
                   completedAt |-> PhaseStamp(0, type = "completed", Now),
                   canceledAt |-> PhaseStamp(0, type = "canceled", Now),
                   archivedAt |-> 0, version |-> 0]
       IN /\ issues' = [j \in Keys \cup {key} |-> IF j = key THEN row ELSE issues[j]]
          /\ Record("issue.created", key, None, Loaded(row))
  /\ issueSeq' = key
  /\ spent' = IF in.idem = None THEN spent
              ELSE spent \cup {<<"issue", in.idem, key>>}
  /\ UNCHANGED <<comments, relations, milestones, labels, groups>>

Moves(row, p) == p.project # Keep /\ p.project # row.project

\* Mutant: a move keeps the milestone.
MilestonesAfterMove(row, p) ==
  IF p.milestone = Keep THEN {row.milestone}
  ELSE Resolved(Pick(p.project, row.project), p.milestone)

\* Restating the project is not a move; a move without a milestone clears the
\* one the issue had.
MilestonesAfter(row, p) ==
  IF p.milestone = Keep
    THEN {IF Moves(row, p) THEN 0 ELSE row.milestone}
    ELSE Resolved(Pick(p.project, row.project), p.milestone)

\* started_at is sticky; completed_at and canceled_at follow the status.
StatusAfter(row, p) ==
  LET status == Pick(p.status, row.status)
      type == StatusType[status]
  IN IF status = row.status THEN row
     ELSE [row EXCEPT
            !.status = status,
            !.startedAt = IF type = "started" THEN PhaseStamp(@, TRUE, Now) ELSE @,
            !.completedAt = PhaseStamp(@, type = "completed", Now),
            !.canceledAt = PhaseStamp(@, type = "canceled", Now)]

Patched(row, p, milestone) ==
  [StatusAfter(row, p) EXCEPT
     !.details = Pick(p.details, @),
     !.description = Pick(p.description, @),
     !.project = Pick(p.project, @),
     !.milestone = milestone,
     !.parent = Pick(p.parent, @),
     !.archivedAt = IF p.archived = Keep THEN @ ELSE PhaseStamp(@, p.archived, Now),
     !.labels = LabelsAfter(@, p.labels, p.add, p.remove)]

\* Mutant: the version is not moved.
NotBumped(row) == row

\* Every write of an issue's own columns moves its version.
Bumped(row) == [row EXCEPT !.version = @ + 1]

\* A description is append-only unless the caller says otherwise.
DescriptionAllowed(row, p) ==
  p.description # Keep => row.description = << >> \/ p.replace

UpdateIssue(k, p) ==
  LET before == issues[k] IN
  /\ p.expect \in {Keep, before.version}
  /\ DescriptionAllowed(before, p)
  /\ p.parent \in {Keep, 0} \/ ParentAllowed(k, p.parent)
  /\ LabelsAccepted(p.labels, p.add, p.remove)
  /\ \E m \in MilestonesAfter(before, p) :
       LET after == Patched(before, p, m) IN
       /\ Loaded(after) # Loaded(before)
       /\ issues' = [issues EXCEPT ![k] = Bumped(after)]
       /\ Record("issue.updated", k, Loaded(before), Loaded(Bumped(after)))
  /\ UNCHANGED <<issueSeq, comments, relations, milestones, labels, groups, spent>>

AppendDescription(k, text) ==
  LET before == issues[k]
      after == Bumped([before EXCEPT !.description = Append(@, text)])
  IN
  /\ issues' = [issues EXCEPT ![k] = after]
  /\ Record("issue.updated", k, Loaded(before), Loaded(after))
  /\ UNCHANGED <<issueSeq, comments, relations, milestones, labels, groups, spent>>

-----------------------------------------------------------------------------
(***************************************************************************)
(* Comments and relations                                                  *)
(***************************************************************************)

\* Mutant: a comment moves the version of its issue.
AddCommentBumping(k, body, parent, idem) ==
  LET id == Len(comments) + 1
      comment == [issue |-> k, body |-> body, parent |-> parent]
  IN
  /\ ~KeySpent("comment", idem)
  /\ parent # 0 => parent \in DOMAIN comments /\ comments[parent].issue = k
  /\ comments' = Append(comments, comment)
  /\ issues' = [issues EXCEPT ![k] = Bumped(@)]
  /\ Record("comment.created", id, None, comment)
  /\ spent' = IF idem = None THEN spent
              ELSE spent \cup {<<"comment", idem, id>>}
  /\ UNCHANGED <<issueSeq, relations, milestones, labels, groups>>

AddComment(k, body, parent, idem) ==
  LET id == Len(comments) + 1
      comment == [issue |-> k, body |-> body, parent |-> parent]
  IN
  /\ ~KeySpent("comment", idem)
  /\ parent # 0 => parent \in DOMAIN comments /\ comments[parent].issue = k
  /\ comments' = Append(comments, comment)
  /\ Record("comment.created", id, None, comment)
  /\ spent' = IF idem = None THEN spent
              ELSE spent \cup {<<"comment", idem, id>>}
  /\ UNCHANGED <<issues, issueSeq, relations, milestones, labels, groups>>

\* Mutant: the row is read after it is written.
UpdateCommentReadLate(id, body) ==
  LET after == [comments[id] EXCEPT !.body = body] IN
  /\ comments' = [comments EXCEPT ![id] = after]
  /\ Record("comment.updated", id, after, after)
  /\ UNCHANGED <<issues, issueSeq, relations, milestones, labels, groups, spent>>

\* An edit always records, even when it leaves the body as it was.
UpdateComment(id, body) ==
  LET after == [comments[id] EXCEPT !.body = body] IN
  /\ comments' = [comments EXCEPT ![id] = after]
  /\ Record("comment.updated", id, comments[id], after)
  /\ UNCHANGED <<issues, issueSeq, relations, milestones, labels, groups, spent>>

\* The check that an issue does not relate to itself compares the keys as
\* spelled; the rows are then found without regard to case.
AddRelation(from, to, type) ==
  LET rel == [from |-> from.key, type |-> type, to |-> to.key] IN
  /\ from # to
  /\ rel \notin relations
  /\ relations' = relations \cup {rel}
  /\ Record("relation.added", rel.from, None, rel)
  /\ UNCHANGED <<issues, issueSeq, comments, milestones, labels, groups, spent>>

\* Mutant: removing what is not there is recorded too.
RemoveRelationAlways(from, to, type) ==
  LET rel == [from |-> from.key, type |-> type, to |-> to.key] IN
  /\ relations' = relations \ {rel}
  /\ Record("relation.removed", rel.from, rel, None)
  /\ UNCHANGED <<issues, issueSeq, comments, milestones, labels, groups, spent>>

RemoveRelation(from, to, type) ==
  LET rel == [from |-> from.key, type |-> type, to |-> to.key] IN
  /\ rel \in relations
  /\ relations' = relations \ {rel}
  /\ Record("relation.removed", rel.from, rel, None)
  /\ UNCHANGED <<issues, issueSeq, comments, milestones, labels, groups, spent>>

-----------------------------------------------------------------------------
(***************************************************************************)
(* Milestones, labels and the label_groups setting                         *)
(***************************************************************************)

\* The unique index: a name is free among the live milestones of its project
\* as it is spelled, case included.
NameFree(id, project, name) ==
  \A m \in DOMAIN milestones \ {id} :
    ~ /\ milestones[m].project = project
      /\ milestones[m].name = name
      /\ milestones[m].archivedAt = 0

CreateMilestone(project, name) ==
  LET id == Len(milestones) + 1
      row == [project |-> project, name |-> name, archivedAt |-> 0]
  IN
  /\ NameFree(id, project, name)
  /\ milestones' = Append(milestones, row)
  /\ Record("milestone.created", id, None, row)
  /\ UNCHANGED <<issues, issueSeq, comments, relations, labels, groups, spent>>

UpdateMilestone(id, p) ==
  LET before == milestones[id]
      after == [before EXCEPT
                 !.name = Pick(p.name, @),
                 !.archivedAt = IF p.archived = Keep THEN @
                                ELSE PhaseStamp(@, p.archived, Now)]
  IN
  /\ after.archivedAt = 0 => NameFree(id, after.project, after.name)
  /\ milestones' = [milestones EXCEPT ![id] = after]
  /\ Record("milestone.updated", id, before, after)
  /\ UNCHANGED <<issues, issueSeq, comments, relations, labels, groups, spent>>

\* The one write that records no event.
EnsureLabel(l) ==
  /\ l \notin labels
  /\ labels' = labels \cup {l}
  /\ UNCHANGED <<issues, issueSeq, comments, relations, milestones, groups,
                 spent, events>>

\* Refused when an issue, archived or not, already holds two labels of a group.
UpdateLabelGroups(value) ==
  /\ \A k \in Keys : AtMostOnePerGroup(issues[k].labels, value)
  /\ groups' = value
  /\ Record("setting.updated", 0, [value |-> groups], [value |-> value])
  /\ UNCHANGED <<issues, issueSeq, comments, relations, milestones, labels, spent>>

-----------------------------------------------------------------------------
\* An issue key in a request, in the stored spelling or not.
KeyRef == [key: Keys, stored: BOOLEAN]

Init ==
  /\ issues = << >>
  /\ issueSeq = 0
  /\ comments = << >>
  /\ relations = {}
  /\ milestones = << >>
  /\ labels = {}
  /\ groups = {}
  /\ spent = {}
  /\ events = << >>

IssueNext ==
  \/ \E in \in NewIssues : CreateIssue(in)
  \/ \E k \in Keys, p \in Patches : UpdateIssue(k, p)
  \/ \E k \in Keys, text \in Texts : AppendDescription(k, text)

CommentNext ==
  \/ \E k \in Keys, body \in Bodies, parent \in 0..Len(comments),
        idem \in IdemKeys \cup {None} : AddComment(k, body, parent, idem)
  \/ \E id \in DOMAIN comments, body \in Bodies : UpdateComment(id, body)

RelationNext ==
  \E from, to \in KeyRef, type \in RelationTypes :
    AddRelation(from, to, type) \/ RemoveRelation(from, to, type)

MilestoneNext ==
  \/ \E project \in Projects, name \in MilestoneNames : CreateMilestone(project, name)
  \/ \E id \in DOMAIN milestones, p \in MilestonePatches : UpdateMilestone(id, p)

LabelNext ==
  \/ \E l \in Labels : EnsureLabel(l)
  \/ \E value \in GroupSettings : UpdateLabelGroups(value)

Next == IssueNext \/ CommentNext \/ RelationNext \/ MilestoneNext \/ LabelNext

Spec == Init /\ [][Next]_vars
=============================================================================
