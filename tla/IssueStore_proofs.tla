-------------------------- MODULE IssueStore_proofs --------------------------
(***************************************************************************)
(* Theorems about the issue tables, for every value of the constants:      *)
(* types, the audit trail, and the safety invariants.                      *)
(***************************************************************************)
EXTENDS IssueProperties, TLAPS

USE InputAssumption, BoundAssumption

-----------------------------------------------------------------------------
(***************************************************************************)
(* What the helpers return.                                                *)
(***************************************************************************)

LEMMA PhaseStampType ==
  ASSUME NEW stamp \in Nat, NEW inPhase, NEW now \in Nat
  PROVE  PhaseStamp(stamp, inPhase, now) \in Nat
BY DEF PhaseStamp

LEMMA NowType == TypeOK => Now \in Nat
BY DEF TypeOK, Now

LEMMA LoadedType ==
  ASSUME TypeOK, NEW row \in Issue
  PROVE  Loaded(row) \in LoadedIssue
<1> DEFINE name == IF row.milestone \in DOMAIN milestones
                     THEN milestones[row.milestone].name ELSE None
<1>1. name \in MilestoneNames \cup {None}
  <2>1. milestones \in Seq(Milestone)
    BY DEF TypeOK
  <2>2. \A m \in DOMAIN milestones : milestones[m] \in Milestone
    BY <2>1
  <2>3. \A m \in DOMAIN milestones : milestones[m].name \in MilestoneNames
    BY <2>2 DEF Milestone
  <2>4. QED
    BY <2>3
<1>2. Loaded(row) = [row EXCEPT !.milestone = name]
  BY DEF Loaded
<1> HIDE DEF name
<1>3. QED
  BY <1>1, <1>2 DEF Issue, LoadedIssue

LEMMA ResolvedType ==
  ASSUME TypeOK, NEW project, NEW ref
  PROVE  Resolved(project, ref) \subseteq Nat
BY DEF TypeOK, Resolved, MilestonesNamed

LEMMA MilestonesAfterType ==
  ASSUME TypeOK, NEW row \in Issue, NEW p
  PROVE  MilestonesAfter(row, p) \subseteq Nat
BY ResolvedType DEF MilestonesAfter, Issue

LEMMA LabelsAfterType ==
  ASSUME NEW p \in Patches, NEW current \in SUBSET Labels
  PROVE  LabelsAfter(current, p.labels, p.add, p.remove) \in SUBSET Labels
<1>1. /\ p.labels \in (SUBSET Labels) \cup {Keep}
      /\ p.add \in Seq(Labels)
  BY DEF Patch
<1>2. Pick(p.labels, current) \subseteq Labels
  BY <1>1 DEF Pick
<1>3. \A i \in DOMAIN p.add : p.add[i] \in Labels
  BY <1>1
<1>4. QED
  BY <1>2, <1>3 DEF LabelsAfter

LEMMA StatusAfterType ==
  ASSUME TypeOK, NEW row \in Issue, NEW p \in Patches
  PROVE  StatusAfter(row, p) \in Issue
<1>1. Pick(p.status, row.status) \in Statuses
  BY DEF Patch, Issue, Pick
<1>2. Now \in Nat
  BY NowType
<1>3. QED
  BY <1>1, <1>2, PhaseStampType DEF StatusAfter, Issue

LEMMA PatchedType ==
  ASSUME TypeOK, NEW row \in Issue, NEW p \in Patches, NEW m \in Nat
  PROVE  Patched(row, p, m) \in Issue
<1> DEFINE s == StatusAfter(row, p)
<1>1. s \in Issue
  BY StatusAfterType
<1> HIDE DEF s
<1>2. /\ Pick(p.details, s.details) \in Details
      /\ Pick(p.description, s.description) \in Seq(Texts)
      /\ Pick(p.project, s.project) \in Projects \cup {None}
      /\ Pick(p.parent, s.parent) \in Nat
  BY <1>1 DEF Patch, Issue, Pick
<1>3. (IF p.archived = Keep THEN s.archivedAt
       ELSE PhaseStamp(s.archivedAt, p.archived, Now)) \in Nat
  BY <1>1, PhaseStampType, NowType DEF Issue
<1>4. LabelsAfter(s.labels, p.labels, p.add, p.remove) \in SUBSET Labels
  BY <1>1, LabelsAfterType DEF Issue
<1>5. QED
  BY <1>1, <1>2, <1>3, <1>4 DEF Patched, Issue, s

LEMMA BumpedType ==
  ASSUME NEW row \in Issue
  PROVE  Bumped(row) \in Issue
BY DEF Bumped, Issue

LEMMA RecordType ==
  ASSUME TypeOK, NEW e \in Event, events' = Append(events, e)
  PROVE  events' \in Seq(Event)
BY DEF TypeOK

-----------------------------------------------------------------------------
(***************************************************************************)
(* Type correctness, one action at a time.                                 *)
(***************************************************************************)

LEMMA InitTypeOK == Init => TypeOK
<1> SUFFICES ASSUME Init PROVE TypeOK
  OBVIOUS
<1>1. issues \in [1..issueSeq -> Issue]
  BY DEF Init
<1>2. QED
  BY <1>1 DEF Init, TypeOK

LEMMA CreateIssueTypeOK ==
  ASSUME TypeOK, NEW in \in NewIssues, CreateIssue(in)
  PROVE  TypeOK'
<1> DEFINE type == StatusType[in.status]
           row(m) == [details |-> in.details, description |-> in.description,
                      status |-> in.status, project |-> in.project,
                      milestone |-> m, parent |-> in.parent,
                      labels |-> in.labels,
                      startedAt |-> PhaseStamp(0, type = "started", Now),
                      completedAt |-> PhaseStamp(0, type = "completed", Now),
                      canceledAt |-> PhaseStamp(0, type = "canceled", Now),
                      archivedAt |-> 0, version |-> 0]
<1>1. PICK m \in Resolved(in.project, in.milestone) :
        /\ issues' = [j \in Keys \cup {NewKey} |-> IF j = NewKey THEN row(m) ELSE issues[j]]
        /\ Record("issue.created", NewKey, None, Loaded(row(m)))
  BY DEF CreateIssue
<1>2. row(m) \in Issue
  <2>1. m \in Nat
    BY ResolvedType
  <2>2. /\ PhaseStamp(0, type = "started", Now) \in Nat
        /\ PhaseStamp(0, type = "completed", Now) \in Nat
        /\ PhaseStamp(0, type = "canceled", Now) \in Nat
    BY PhaseStampType, NowType
  <2> HIDE DEF type
  <2>3. QED
    BY <2>1, <2>2 DEF NewIssue, Issue
<1> HIDE DEF row
<1>3. Keys = 1..issueSeq /\ NewKey = issueSeq + 1 /\ issueSeq \in Nat
  BY DEF TypeOK, Keys, NewKey
<1>4. issueSeq' \in Nat /\ issues' \in [1..issueSeq' -> Issue]
  <2>1. issueSeq' = issueSeq + 1 /\ Keys \cup {NewKey} = 1..issueSeq'
    BY <1>3 DEF CreateIssue
  <2>2. QED
    BY <1>1, <1>2, <1>3, <2>1 DEF TypeOK
<1>5. events' \in Seq(Event)
  BY <1>1, <1>2, <1>3, LoadedType, RecordType DEF Record, Event, IssueActions
<1>6. spent' \subseteq {"issue", "comment"} \X IdemKeys \X Nat
  BY <1>3 DEF CreateIssue, TypeOK, NewIssue
<1>7. QED
  BY <1>4, <1>5, <1>6 DEF CreateIssue, TypeOK

\* An update of one issue's row.
LEMMA IssueWriteTypeOK ==
  ASSUME TypeOK, NEW k \in Keys, NEW row \in Issue,
         issues' = [issues EXCEPT ![k] = row],
         Record("issue.updated", k, Loaded(issues[k]), Loaded(row)),
         UNCHANGED <<issueSeq, comments, relations, milestones, labels, groups, spent>>
  PROVE  TypeOK'
<1>1. issues[k] \in Issue /\ k \in Nat
  BY DEF TypeOK, Keys
<1>2. issues' \in [1..issueSeq -> Issue]
  BY DEF TypeOK
<1>3. events' \in Seq(Event)
  BY <1>1, LoadedType, RecordType DEF Record, Event, IssueActions
<1>4. QED
  BY <1>2, <1>3 DEF TypeOK

LEMMA UpdateIssueTypeOK ==
  ASSUME TypeOK, NEW k \in Keys, NEW p \in Patches, UpdateIssue(k, p)
  PROVE  TypeOK'
<1>1. issues[k] \in Issue
  BY DEF TypeOK, Keys
<1>2. PICK m \in MilestonesAfter(issues[k], p) :
        LET after == Bumped(Patched(issues[k], p, m)) IN
        /\ issues' = [issues EXCEPT ![k] = after]
        /\ Record("issue.updated", k, Loaded(issues[k]), Loaded(after))
  BY DEF UpdateIssue
<1>3. Bumped(Patched(issues[k], p, m)) \in Issue
  BY <1>1, MilestonesAfterType, PatchedType, BumpedType
<1>4. QED
  BY <1>2, <1>3, IssueWriteTypeOK DEF UpdateIssue

LEMMA AppendDescriptionTypeOK ==
  ASSUME TypeOK, NEW k \in Keys, NEW text \in Texts, AppendDescription(k, text)
  PROVE  TypeOK'
<1>1. issues[k] \in Issue
  BY DEF TypeOK, Keys
<1>2. [issues[k] EXCEPT !.description = Append(@, text)] \in Issue
  <2>1. issues[k].description \in Seq(Texts)
    BY <1>1 DEF Issue
  <2>2. Append(issues[k].description, text) \in Seq(Texts)
    BY <2>1
  <2>3. QED
    BY <1>1, <2>2 DEF Issue
<1>3. QED
  BY <1>2, BumpedType, IssueWriteTypeOK DEF AppendDescription

LEMMA CommentTypeOK ==
  ASSUME TypeOK,
         \/ \E k \in Keys, body \in Bodies, parent \in 0..Len(comments),
               idem \in IdemKeys \cup {None} : AddComment(k, body, parent, idem)
         \/ \E id \in DOMAIN comments, body \in Bodies : UpdateComment(id, body)
  PROVE  TypeOK'
<1>1. Len(comments) \in Nat /\ DOMAIN comments = 1..Len(comments) /\ Keys \subseteq Nat
  BY DEF TypeOK, Keys
<1>2. ASSUME NEW k \in Keys, NEW body \in Bodies, NEW parent \in 0..Len(comments),
             NEW idem \in IdemKeys \cup {None}, AddComment(k, body, parent, idem)
      PROVE  TypeOK'
  <2> DEFINE comment == [issue |-> k, body |-> body, parent |-> parent]
  <2>1. comment \in Comment
    BY <1>1 DEF Comment
  <2>2. comments' \in Seq(Comment)
    BY <1>2, <2>1 DEF AddComment, TypeOK
  <2>3. events' \in Seq(Event)
    BY <1>1, <1>2, <2>1, RecordType DEF AddComment, Record, Event
  <2>4. spent' \subseteq {"issue", "comment"} \X IdemKeys \X Nat
    BY <1>1, <1>2 DEF AddComment, TypeOK
  <2>5. QED
    BY <1>2, <2>2, <2>3, <2>4 DEF AddComment, TypeOK
<1>3. ASSUME NEW id \in DOMAIN comments, NEW body \in Bodies, UpdateComment(id, body)
      PROVE  TypeOK'
  <2> DEFINE after == [comments[id] EXCEPT !.body = body]
  <2>1. comments[id] \in Comment
    BY DEF TypeOK
  <2>2. after \in Comment
    BY <2>1 DEF Comment
  <2>3. /\ comments' = [comments EXCEPT ![id] = after]
        /\ Record("comment.updated", id, comments[id], after)
    BY <1>3 DEF UpdateComment
  <2> HIDE DEF after
  <2>4. comments' \in Seq(Comment)
    BY <2>2, <2>3 DEF TypeOK
  <2>5. events' \in Seq(Event)
    BY <1>1, <2>1, <2>2, <2>3, RecordType DEF Record, Event
  <2>6. QED
    BY <1>3, <2>4, <2>5 DEF UpdateComment, TypeOK
<1>4. QED
  BY <1>2, <1>3

LEMMA RelationTypeOK ==
  ASSUME TypeOK, NEW from \in KeyRef, NEW to \in KeyRef, NEW type \in RelationTypes,
         AddRelation(from, to, type) \/ RemoveRelation(from, to, type)
  PROVE  TypeOK'
<1> DEFINE rel == [from |-> from.key, type |-> type, to |-> to.key]
<1>1. from.key \in Nat /\ to.key \in Nat
  BY DEF TypeOK, Keys, KeyRef
<1>2. rel \in Relation
  BY <1>1 DEF Relation
<1>3. relations' \subseteq Relation
  BY <1>2 DEF AddRelation, RemoveRelation, TypeOK
<1>4. events' \in Seq(Event)
  BY <1>1, <1>2, RecordType DEF AddRelation, RemoveRelation, Record, Event
<1>5. QED
  BY <1>3, <1>4 DEF AddRelation, RemoveRelation, TypeOK

LEMMA MilestoneTypeOK ==
  ASSUME TypeOK,
         \/ \E project \in Projects, name \in MilestoneNames :
              CreateMilestone(project, name)
         \/ \E id \in DOMAIN milestones, p \in MilestonePatches : UpdateMilestone(id, p)
  PROVE  TypeOK'
<1>1. Len(milestones) \in Nat /\ DOMAIN milestones = 1..Len(milestones)
  BY DEF TypeOK
<1>2. ASSUME NEW project \in Projects, NEW name \in MilestoneNames,
             CreateMilestone(project, name)
      PROVE  TypeOK'
  <2> DEFINE row == [project |-> project, name |-> name, archivedAt |-> 0]
  <2>1. row \in Milestone
    BY DEF Milestone
  <2>2. milestones' \in Seq(Milestone)
    BY <1>2, <2>1 DEF CreateMilestone, TypeOK
  <2>3. events' \in Seq(Event)
    BY <1>1, <1>2, <2>1, RecordType DEF CreateMilestone, Record, Event
  <2>4. QED
    BY <1>2, <2>2, <2>3 DEF CreateMilestone, TypeOK
<1>3. ASSUME NEW id \in DOMAIN milestones, NEW p \in MilestonePatches,
             UpdateMilestone(id, p)
      PROVE  TypeOK'
  <2> DEFINE before == milestones[id]
             stamp == IF p.archived = Keep THEN before.archivedAt
                      ELSE PhaseStamp(before.archivedAt, p.archived, Now)
             after == [before EXCEPT !.name = Pick(p.name, @), !.archivedAt = stamp]
  <2>1. before \in Milestone
    BY DEF TypeOK
  <2>2. Pick(p.name, before.name) \in MilestoneNames
    BY <2>1 DEF Milestone, MilestonePatch, Pick
  <2>3. stamp \in Nat
    BY <2>1, PhaseStampType, NowType DEF Milestone
  <2>4. after \in Milestone
    BY <2>1, <2>2, <2>3 DEF Milestone
  <2>5. /\ milestones' = [milestones EXCEPT ![id] = after]
        /\ Record("milestone.updated", id, before, after)
    BY <1>3 DEF UpdateMilestone
  <2> HIDE DEF after, before
  <2>6. milestones' \in Seq(Milestone)
    BY <2>4, <2>5 DEF TypeOK
  <2>7. events' \in Seq(Event)
    BY <1>1, <2>1, <2>4, <2>5, RecordType DEF Record, Event
  <2>8. QED
    BY <1>3, <2>6, <2>7 DEF UpdateMilestone, TypeOK
<1>4. QED
  BY <1>2, <1>3

LEMMA LabelTypeOK ==
  ASSUME TypeOK,
         \/ \E l \in Labels : EnsureLabel(l)
         \/ \E value \in GroupSettings : UpdateLabelGroups(value)
  PROVE  TypeOK'
<1>1. ASSUME NEW l \in Labels, EnsureLabel(l)
      PROVE  TypeOK'
  BY <1>1 DEF EnsureLabel, TypeOK
<1>2. ASSUME NEW value \in GroupSettings, UpdateLabelGroups(value)
      PROVE  TypeOK'
  <2>1. [value |-> groups] \in GroupSetting /\ [value |-> value] \in GroupSetting
    BY DEF TypeOK, GroupSetting
  <2>2. events' \in Seq(Event)
    BY <1>2, <2>1, RecordType DEF UpdateLabelGroups, Record, Event
  <2>3. QED
    BY <1>2, <2>2 DEF UpdateLabelGroups, TypeOK
<1>3. QED
  BY <1>1, <1>2

LEMMA NextTypeOK == TypeOK /\ [Next]_vars => TypeOK'
<1> SUFFICES ASSUME TypeOK, [Next]_vars PROVE TypeOK'
  OBVIOUS
<1>1. CASE IssueNext
  BY <1>1, CreateIssueTypeOK, UpdateIssueTypeOK, AppendDescriptionTypeOK DEF IssueNext
<1>2. CASE CommentNext
  BY <1>2, CommentTypeOK DEF CommentNext
<1>3. CASE RelationNext
  BY <1>3, RelationTypeOK DEF RelationNext
<1>4. CASE MilestoneNext
  BY <1>4, MilestoneTypeOK DEF MilestoneNext
<1>5. CASE LabelNext
  BY <1>5, LabelTypeOK DEF LabelNext
<1>6. CASE UNCHANGED vars
  BY <1>6 DEF vars, TypeOK
<1>7. QED
  BY <1>1, <1>2, <1>3, <1>4, <1>5, <1>6 DEF Next

\* The store is type correct, and issue keys are the numbers up to issue_seq:
\* whatever fails or is retried, a key is never handed out twice.
THEOREM TypeCorrect == Spec => []TypeOK
<1>1. QED
  BY InitTypeOK, NextTypeOK, PTL DEF Spec

-----------------------------------------------------------------------------
(***************************************************************************)
(* Issues are an audited table.                                            *)
(***************************************************************************)

TrailP == INSTANCE AuditedRows_proofs WITH
  rows <- issues, log <- events, NoRow <- None,
  Fields <- IssueFields, Actions <- IssueActions

LEMMA SameStep == [Trail!Next]_(Trail!vars) => [TrailP!Next]_(TrailP!vars)
  BY DEF Trail!Next, Trail!vars, Trail!Create, Trail!Write, Trail!Elsewhere,
         Trail!Extended, Trail!NewEvent, Trail!IsAbout, Trail!Agree,
         TrailP!Next, TrailP!vars, TrailP!Create, TrailP!Write, TrailP!Elsewhere,
         TrailP!Extended, TrailP!NewEvent, TrailP!IsAbout, TrailP!Agree

LEMMA SameInit == Trail!Init => TrailP!Init
  BY DEF Trail!Init, TrailP!Init

LEMMA SameTrail == TrailP!AuditTrail => IssueTrail
  BY DEF IssueTrail, Trail!AuditTrail, Trail!Current, Trail!Chained, Trail!Born,
         Trail!Precedes, Trail!IsAbout, Trail!Agree,
         TrailP!AuditTrail, TrailP!Current, TrailP!Chained, TrailP!Born,
         TrailP!Precedes, TrailP!IsAbout, TrailP!Agree

LEMMA AuditedHasTrail == IssuesAudited => []IssueTrail
  <1>1. Trail!Spec => TrailP!Spec
    BY SameInit, SameStep, PTL DEF Trail!Spec, TrailP!Spec
  <1>2. QED
    BY <1>1, SameTrail, TrailP!TrailComplete, PTL DEF IssuesAudited

\* An event shows an issue as it is but for the milestone.
LEMMA LoadedAgrees ==
  ASSUME NEW row \in Issue
  PROVE  Trail!Agree(Loaded(row), row)
BY DEF Trail!Agree, Loaded, Issue, IssueFields

LEMMA RecordExtends ==
  ASSUME TypeOK, NEW action, NEW row, NEW before, NEW after,
         Record(action, row, before, after)
  PROVE  /\ Trail!Extended
         /\ Trail!NewEvent = [action |-> action, row |-> row,
                              before |-> before, after |-> after]
<1> DEFINE e == [action |-> action, row |-> row, before |-> before, after |-> after]
<1>1. events \in Seq(Event) /\ events' = Append(events, e)
  BY DEF TypeOK, Record
<1> HIDE DEF e
<1>2. QED
  BY <1>1 DEF Trail!Extended, Trail!NewEvent, e

\* Whatever records an event about something else leaves the issues' trail.
LEMMA RecordElsewhere ==
  ASSUME TypeOK, NEW action, NEW row, NEW before, NEW after,
         Record(action, row, before, after), issues' = issues,
         action \notin IssueActions
  PROVE  Trail!Elsewhere
BY RecordExtends DEF Trail!Elsewhere

LEMMA CreateIssueTrail ==
  ASSUME TypeOK, NEW in \in NewIssues, CreateIssue(in)
  PROVE  Trail!Create(NewKey) /\ NewKey \in DOMAIN issues'
<1>1. PICK m \in Resolved(in.project, in.milestone) :
        LET type == StatusType[in.status]
            row == [details |-> in.details, description |-> in.description,
                    status |-> in.status, project |-> in.project,
                    milestone |-> m, parent |-> in.parent,
                    labels |-> in.labels,
                    startedAt |-> PhaseStamp(0, type = "started", Now),
                    completedAt |-> PhaseStamp(0, type = "completed", Now),
                    canceledAt |-> PhaseStamp(0, type = "canceled", Now),
                    archivedAt |-> 0, version |-> 0]
        IN /\ issues' = [j \in Keys \cup {NewKey} |-> IF j = NewKey THEN row ELSE issues[j]]
           /\ Record("issue.created", NewKey, None, Loaded(row))
  BY DEF CreateIssue
<1>2. NewKey \notin Keys
  BY DEF CreateIssue
<1>3. TypeOK'
  BY CreateIssueTypeOK
<1>4. issues'[NewKey] \in Issue /\ NewKey \in DOMAIN issues'
  BY <1>1, <1>3 DEF TypeOK
<1>5. Record("issue.created", NewKey, None, Loaded(issues'[NewKey]))
  BY <1>1
<1>6. QED
  BY <1>1, <1>2, <1>4, <1>5, LoadedAgrees, RecordExtends
  DEF Trail!Create, Trail!IsAbout, Trail!Agree, IssueActions, Keys

LEMMA IssueWriteTrail ==
  ASSUME TypeOK, NEW k \in Keys, NEW row \in Issue,
         issues' = [issues EXCEPT ![k] = row],
         Record("issue.updated", k, Loaded(issues[k]), Loaded(row))
  PROVE  Trail!Write(k)
<1>1. issues[k] \in Issue /\ issues'[k] = row
  BY DEF TypeOK, Keys
<1>2. Loaded(issues[k]) # None
  BY <1>1, LoadedType, NoneAssumption
<1>3. QED
  BY <1>1, <1>2, LoadedAgrees, RecordExtends
  DEF Trail!Write, Trail!IsAbout, Trail!Agree, IssueActions, Keys

LEMMA UpdateIssueTrail ==
  ASSUME TypeOK, NEW k \in Keys, NEW p \in Patches, UpdateIssue(k, p)
  PROVE  Trail!Write(k)
<1>1. issues[k] \in Issue
  BY DEF TypeOK, Keys
<1>2. PICK m \in MilestonesAfter(issues[k], p) :
        LET after == Bumped(Patched(issues[k], p, m)) IN
        /\ issues' = [issues EXCEPT ![k] = after]
        /\ Record("issue.updated", k, Loaded(issues[k]), Loaded(after))
  BY DEF UpdateIssue
<1>3. Bumped(Patched(issues[k], p, m)) \in Issue
  BY <1>1, MilestonesAfterType, PatchedType, BumpedType
<1>4. QED
  BY <1>2, <1>3, IssueWriteTrail

LEMMA AppendDescriptionTrail ==
  ASSUME TypeOK, NEW k \in Keys, NEW text \in Texts, AppendDescription(k, text)
  PROVE  Trail!Write(k)
<1>1. PICK after \in Issue :
        /\ issues' = [issues EXCEPT ![k] = after]
        /\ Record("issue.updated", k, Loaded(issues[k]), Loaded(after))
  <2>1. issues[k] \in Issue
    BY DEF TypeOK, Keys
  <2>2. issues[k].description \in Seq(Texts)
    BY <2>1 DEF Issue
  <2>3. Append(issues[k].description, text) \in Seq(Texts)
    BY <2>2
  <2>4. [issues[k] EXCEPT !.description = Append(@, text)] \in Issue
    BY <2>1, <2>3 DEF Issue
  <2>5. QED
    BY <2>4, BumpedType DEF AppendDescription
<1>2. QED
  BY <1>1, IssueWriteTrail

\* The steps that leave every issue's row as it is.
NoIssueStep == CommentNext \/ RelationNext \/ MilestoneNext \/ LabelNext \/ UNCHANGED vars

LEMMA NoIssueStepRecordsElsewhere ==
  ASSUME TypeOK, NoIssueStep
  PROVE  Trail!Elsewhere \/ UNCHANGED Trail!vars
<1>1. ASSUME NEW k, NEW body, NEW parent, NEW idem, AddComment(k, body, parent, idem)
      PROVE  Trail!Elsewhere
  BY <1>1, RecordElsewhere DEF AddComment, IssueActions
<1>2. ASSUME NEW id, NEW body, UpdateComment(id, body)
      PROVE  Trail!Elsewhere
  BY <1>2, RecordElsewhere DEF UpdateComment, IssueActions
<1>3. ASSUME NEW from, NEW to, NEW type,
             AddRelation(from, to, type) \/ RemoveRelation(from, to, type)
      PROVE  Trail!Elsewhere
  BY <1>3, RecordElsewhere DEF AddRelation, RemoveRelation, IssueActions
<1>4. ASSUME NEW project, NEW name, CreateMilestone(project, name)
      PROVE  Trail!Elsewhere
  BY <1>4, RecordElsewhere DEF CreateMilestone, IssueActions
<1>5. ASSUME NEW id, NEW p, UpdateMilestone(id, p)
      PROVE  Trail!Elsewhere
  BY <1>5, RecordElsewhere DEF UpdateMilestone, IssueActions
<1>6. ASSUME NEW l, EnsureLabel(l)
      PROVE  UNCHANGED Trail!vars
  BY <1>6 DEF EnsureLabel, Trail!vars
<1>7. ASSUME NEW value, UpdateLabelGroups(value)
      PROVE  Trail!Elsewhere
  BY <1>7, RecordElsewhere DEF UpdateLabelGroups, IssueActions
<1>8. CASE UNCHANGED vars
  BY <1>8 DEF vars, Trail!vars
<1>9. QED
  BY <1>1, <1>2, <1>3, <1>4, <1>5, <1>6, <1>7, <1>8
  DEF NoIssueStep, CommentNext, RelationNext, MilestoneNext, LabelNext

\* The issues are kept as an audited table: every step of the store is a
\* recorded write of one issue, a recorded write elsewhere, or leaves the
\* issues and the events alone.
LEMMA NextTrail == TypeOK /\ [Next]_vars => [Trail!Next]_(Trail!vars)
<1> SUFFICES ASSUME TypeOK, [Next]_vars PROVE [Trail!Next]_(Trail!vars)
  OBVIOUS
<1>1. CASE IssueNext
  <2>1. ASSUME NEW k \in DOMAIN issues', Trail!Create(k) \/ Trail!Write(k)
        PROVE  Trail!Next
    BY <2>1 DEF Trail!Next
  <2>2. ASSUME NEW k \in Keys, Trail!Write(k)
        PROVE  Trail!Next
    BY <2>1, <2>2 DEF Trail!Write, Keys
  <2>3. QED
    BY <1>1, <2>1, <2>2, CreateIssueTrail, UpdateIssueTrail, AppendDescriptionTrail
    DEF IssueNext
<1>2. CASE NoIssueStep
  BY <1>2, NoIssueStepRecordsElsewhere DEF Trail!Next
<1>3. QED
  BY <1>1, <1>2 DEF Next, NoIssueStep

\* The store implements the audited table of issues: no write of an issue
\* misses its event, and no event shows a state the issue was not in.
THEOREM ImplementsAuditedIssues == Spec => IssuesAudited
<1>1. Init => Trail!Init
  BY DEF Init, Trail!Init
<1>2. QED
  BY <1>1, NextTrail, TypeCorrect, PTL DEF Spec, IssuesAudited, Trail!Spec

\* The one log is extended whichever table looks at it.
LEMMA SameExtended ==
  /\ Trail!Extended => CommentTrail!Extended /\ MilestoneTrail!Extended
  /\ CommentTrail!NewEvent = Trail!NewEvent
  /\ MilestoneTrail!NewEvent = Trail!NewEvent
BY DEF Trail!Extended, CommentTrail!Extended, MilestoneTrail!Extended,
       Trail!NewEvent, CommentTrail!NewEvent, MilestoneTrail!NewEvent

\* What the steps on the other tables record.
LEMMA IssueStepRecords ==
  ASSUME IssueNext
  PROVE  /\ comments' = comments /\ milestones' = milestones
         /\ \E action \in IssueActions : \E row, before, after :
              Record(action, row, before, after)
<1>1. ASSUME NEW in, CreateIssue(in)
      PROVE  /\ comments' = comments /\ milestones' = milestones
             /\ \E row, before, after : Record("issue.created", row, before, after)
  BY <1>1 DEF CreateIssue
<1>2. ASSUME NEW k, NEW p, UpdateIssue(k, p)
      PROVE  /\ comments' = comments /\ milestones' = milestones
             /\ \E row, before, after : Record("issue.updated", row, before, after)
  BY <1>2 DEF UpdateIssue
<1>3. ASSUME NEW k, NEW text, AppendDescription(k, text)
      PROVE  /\ comments' = comments /\ milestones' = milestones
             /\ \E row, before, after : Record("issue.updated", row, before, after)
  BY <1>3 DEF AppendDescription
<1>4. QED
  BY <1>1, <1>2, <1>3 DEF IssueNext, IssueActions

LEMMA CommentStepRecords ==
  ASSUME CommentNext
  PROVE  /\ milestones' = milestones
         /\ \E action \in {"comment.created", "comment.updated"} :
              \E row, before, after : Record(action, row, before, after)
<1>1. ASSUME NEW k, NEW body, NEW parent, NEW idem, AddComment(k, body, parent, idem)
      PROVE  /\ milestones' = milestones
             /\ \E row, before, after : Record("comment.created", row, before, after)
  BY <1>1 DEF AddComment
<1>2. ASSUME NEW id, NEW body, UpdateComment(id, body)
      PROVE  /\ milestones' = milestones
             /\ \E row, before, after : Record("comment.updated", row, before, after)
  BY <1>2 DEF UpdateComment
<1>3. QED
  BY <1>1, <1>2 DEF CommentNext

LEMMA MilestoneStepRecords ==
  ASSUME MilestoneNext
  PROVE  /\ comments' = comments
         /\ \E action \in {"milestone.created", "milestone.updated"} :
              \E row, before, after : Record(action, row, before, after)
<1>1. ASSUME NEW project, NEW name, CreateMilestone(project, name)
      PROVE  /\ comments' = comments
             /\ \E row, before, after : Record("milestone.created", row, before, after)
  BY <1>1 DEF CreateMilestone
<1>2. ASSUME NEW id, NEW p, UpdateMilestone(id, p)
      PROVE  /\ comments' = comments
             /\ \E row, before, after : Record("milestone.updated", row, before, after)
  BY <1>2 DEF UpdateMilestone
<1>3. QED
  BY <1>1, <1>2 DEF MilestoneNext

\* Comments, edited or not, are an audited table too: the before of an edit is
\* the body it replaces.
LEMMA NextCommentTrail == TypeOK /\ [Next]_vars => [CommentTrail!Next]_(CommentTrail!vars)
<1> SUFFICES ASSUME TypeOK, [Next]_vars
             PROVE  CommentTrail!Next \/ UNCHANGED CommentTrail!vars
  OBVIOUS
<1>0. comments \in Seq(Comment) /\ Len(comments) \in Nat
      /\ DOMAIN comments = 1..Len(comments)
  BY DEF TypeOK
<1>1. ASSUME NEW k, NEW body, NEW parent, NEW idem, AddComment(k, body, parent, idem)
      PROVE  CommentTrail!Next
  <2> DEFINE id == Len(comments) + 1
             comment == [issue |-> k, body |-> body, parent |-> parent]
  <2>1. /\ comments' = Append(comments, comment)
        /\ Record("comment.created", id, None, comment)
    BY <1>1 DEF AddComment
  <2> HIDE DEF comment
  <2>2. /\ id \notin DOMAIN comments
        /\ DOMAIN comments' = DOMAIN comments \cup {id}
        /\ \A j \in DOMAIN comments : comments'[j] = comments[j]
        /\ comments'[id] = comment
    BY <1>0, <2>1
  <2>3. CommentTrail!Extended /\ CommentTrail!NewEvent =
          [action |-> "comment.created", row |-> id, before |-> None, after |-> comment]
    BY <2>1, RecordExtends, SameExtended
  <2> HIDE DEF id
  <2>4. CommentTrail!Create(id)
    BY <2>2, <2>3 DEF CommentTrail!Create, CommentTrail!IsAbout, CommentTrail!Agree
  <2>5. QED
    BY <2>2, <2>4 DEF CommentTrail!Next
<1>2. ASSUME NEW id \in DOMAIN comments, NEW body, UpdateComment(id, body)
      PROVE  CommentTrail!Next
  <2> DEFINE after == [comments[id] EXCEPT !.body = body]
  <2>1. /\ comments' = [comments EXCEPT ![id] = after]
        /\ Record("comment.updated", id, comments[id], after)
    BY <1>2 DEF UpdateComment
  <2> HIDE DEF after
  <2>2. /\ DOMAIN comments' = DOMAIN comments
        /\ \A j \in DOMAIN comments \ {id} : comments'[j] = comments[j]
        /\ comments'[id] = after
    BY <1>0, <2>1
  <2>3. CommentTrail!Extended /\ CommentTrail!NewEvent =
          [action |-> "comment.updated", row |-> id,
           before |-> comments[id], after |-> after]
    BY <2>1, RecordExtends, SameExtended
  <2>4. comments[id] # None
    BY <1>0, NoneAssumption
  <2>5. CommentTrail!Write(id)
    BY <2>2, <2>3, <2>4
    DEF CommentTrail!Write, CommentTrail!IsAbout, CommentTrail!Agree
  <2>6. QED
    BY <2>2, <2>5 DEF CommentTrail!Next
<1>3. ASSUME NEW action, NEW row, NEW before, NEW after,
             Record(action, row, before, after), comments' = comments,
             action \notin {"comment.created", "comment.updated"}
      PROVE  CommentTrail!Next
  BY <1>3, RecordExtends, SameExtended
  DEF CommentTrail!Next, CommentTrail!Elsewhere
<1>4. CASE IssueNext \/ RelationNext \/ MilestoneNext \/ UNCHANGED vars
  <2>1. ASSUME IssueNext PROVE CommentTrail!Next
    BY <1>3, <2>1, IssueStepRecords DEF IssueActions
  <2>2. ASSUME RelationNext PROVE CommentTrail!Next
    BY <1>3, <2>2 DEF RelationNext, AddRelation, RemoveRelation
  <2>3. ASSUME MilestoneNext PROVE CommentTrail!Next
    BY <1>3, <2>3, MilestoneStepRecords
  <2>4. QED
    BY <1>4, <2>1, <2>2, <2>3 DEF vars, CommentTrail!vars
<1>5. CASE LabelNext
  <2>1. ASSUME NEW l, EnsureLabel(l) PROVE UNCHANGED CommentTrail!vars
    BY <2>1 DEF EnsureLabel, CommentTrail!vars
  <2>2. ASSUME NEW value, UpdateLabelGroups(value) PROVE CommentTrail!Next
    BY <1>3, <2>2 DEF UpdateLabelGroups
  <2>3. QED
    BY <1>5, <2>1, <2>2 DEF LabelNext
<1>6. QED
  BY <1>1, <1>2, <1>4, <1>5 DEF Next, CommentNext

\* And so are milestones.
LEMMA NextMilestoneTrail ==
  TypeOK /\ [Next]_vars => [MilestoneTrail!Next]_(MilestoneTrail!vars)
<1> SUFFICES ASSUME TypeOK, [Next]_vars
             PROVE  MilestoneTrail!Next \/ UNCHANGED MilestoneTrail!vars
  OBVIOUS
<1>0. milestones \in Seq(Milestone) /\ Len(milestones) \in Nat
      /\ DOMAIN milestones = 1..Len(milestones)
  BY DEF TypeOK
<1>1. ASSUME NEW project, NEW name, CreateMilestone(project, name)
      PROVE  MilestoneTrail!Next
  <2> DEFINE id == Len(milestones) + 1
             row == [project |-> project, name |-> name, archivedAt |-> 0]
  <2>1. /\ milestones' = Append(milestones, row)
        /\ Record("milestone.created", id, None, row)
    BY <1>1 DEF CreateMilestone
  <2> HIDE DEF row
  <2>2. /\ id \notin DOMAIN milestones
        /\ DOMAIN milestones' = DOMAIN milestones \cup {id}
        /\ \A j \in DOMAIN milestones : milestones'[j] = milestones[j]
        /\ milestones'[id] = row
    BY <1>0, <2>1
  <2>3. MilestoneTrail!Extended /\ MilestoneTrail!NewEvent =
          [action |-> "milestone.created", row |-> id, before |-> None, after |-> row]
    BY <2>1, RecordExtends, SameExtended
  <2> HIDE DEF id
  <2>4. MilestoneTrail!Create(id)
    BY <2>2, <2>3
    DEF MilestoneTrail!Create, MilestoneTrail!IsAbout, MilestoneTrail!Agree
  <2>5. QED
    BY <2>2, <2>4 DEF MilestoneTrail!Next
<1>2. ASSUME NEW id \in DOMAIN milestones, NEW p, UpdateMilestone(id, p)
      PROVE  MilestoneTrail!Next
  <2>1. PICK after :
          /\ milestones' = [milestones EXCEPT ![id] = after]
          /\ Record("milestone.updated", id, milestones[id], after)
    BY <1>2 DEF UpdateMilestone
  <2>2. /\ DOMAIN milestones' = DOMAIN milestones
        /\ \A j \in DOMAIN milestones \ {id} : milestones'[j] = milestones[j]
        /\ milestones'[id] = after
    BY <1>0, <2>1
  <2>3. MilestoneTrail!Extended /\ MilestoneTrail!NewEvent =
          [action |-> "milestone.updated", row |-> id,
           before |-> milestones[id], after |-> after]
    BY <2>1, RecordExtends, SameExtended
  <2>4. milestones[id] # None
    BY <1>0, NoneAssumption
  <2>5. MilestoneTrail!Write(id)
    BY <2>2, <2>3, <2>4
    DEF MilestoneTrail!Write, MilestoneTrail!IsAbout, MilestoneTrail!Agree
  <2>6. QED
    BY <2>2, <2>5 DEF MilestoneTrail!Next
<1>3. ASSUME NEW action, NEW row, NEW before, NEW after,
             Record(action, row, before, after), milestones' = milestones,
             action \notin {"milestone.created", "milestone.updated"}
      PROVE  MilestoneTrail!Next
  BY <1>3, RecordExtends, SameExtended
  DEF MilestoneTrail!Next, MilestoneTrail!Elsewhere
<1>4. CASE IssueNext \/ RelationNext \/ CommentNext \/ UNCHANGED vars
  <2>1. ASSUME IssueNext PROVE MilestoneTrail!Next
    BY <1>3, <2>1, IssueStepRecords DEF IssueActions
  <2>2. ASSUME RelationNext PROVE MilestoneTrail!Next
    BY <1>3, <2>2 DEF RelationNext, AddRelation, RemoveRelation
  <2>3. ASSUME CommentNext PROVE MilestoneTrail!Next
    BY <1>3, <2>3, CommentStepRecords
  <2>4. QED
    BY <1>4, <2>1, <2>2, <2>3 DEF vars, MilestoneTrail!vars
<1>5. CASE LabelNext
  <2>1. ASSUME NEW l, EnsureLabel(l) PROVE UNCHANGED MilestoneTrail!vars
    BY <2>1 DEF EnsureLabel, MilestoneTrail!vars
  <2>2. ASSUME NEW value, UpdateLabelGroups(value) PROVE MilestoneTrail!Next
    BY <1>3, <2>2 DEF UpdateLabelGroups
  <2>3. QED
    BY <1>5, <2>1, <2>2 DEF LabelNext
<1>6. QED
  BY <1>1, <1>2, <1>4, <1>5 DEF Next, MilestoneNext

\* The store implements three audited tables in one log: no write of an issue,
\* a comment or a milestone misses its event, and no event shows a state its
\* row was not in.
THEOREM ImplementsAuditedRows == Spec => RowsAudited
<1>1. Init => CommentTrail!Init /\ MilestoneTrail!Init
  BY DEF Init, CommentTrail!Init, MilestoneTrail!Init
<1>2. QED
  BY <1>1, NextCommentTrail, NextMilestoneTrail, TypeCorrect,
     ImplementsAuditedIssues, PTL
  DEF Spec, RowsAudited, CommentTrail!Spec, MilestoneTrail!Spec

\* So the trail of every issue is its complete history.
THEOREM IssueHistoryComplete == Spec => []IssueTrail
  BY ImplementsAuditedIssues, AuditedHasTrail, PTL
-----------------------------------------------------------------------------
(***************************************************************************)
(* The safety invariants.  Each proof first says what every step does to   *)
(* the rows the invariant reads, then treats the steps that disturb it.    *)
(***************************************************************************)

LEMMA NoIssueStepKeepsIssues ==
  ASSUME NoIssueStep
  PROVE  issues' = issues
BY DEF NoIssueStep, CommentNext, RelationNext, MilestoneNext, LabelNext, vars,
       AddComment, UpdateComment, AddRelation, RemoveRelation, CreateMilestone,
       UpdateMilestone, EnsureLabel, UpdateLabelGroups

LEMMA NextCases ==
  ASSUME [Next]_vars
  PROVE  IssueNext \/ NoIssueStep
BY DEF Next, NoIssueStep

\* What a new issue's row holds.
LEMMA CreatedRow ==
  ASSUME TypeOK, NEW in \in NewIssues, CreateIssue(in)
  PROVE  /\ NewKey \notin Keys /\ NewKey # 0
         /\ DOMAIN issues' = Keys \cup {NewKey}
         /\ \A k \in Keys : issues'[k] = issues[k]
         /\ issues'[NewKey].parent = in.parent
         /\ issues'[NewKey].project = in.project
         /\ issues'[NewKey].labels = in.labels
         /\ issues'[NewKey].milestone \in Resolved(in.project, in.milestone)
         /\ issues'[NewKey].version = 0
<1>1. NewKey \notin Keys /\ NewKey # 0
  BY DEF CreateIssue, NewKey, TypeOK
<1>2. PICK m \in Resolved(in.project, in.milestone) :
        LET type == StatusType[in.status]
            row == [details |-> in.details, description |-> in.description,
                    status |-> in.status, project |-> in.project,
                    milestone |-> m, parent |-> in.parent,
                    labels |-> in.labels,
                    startedAt |-> PhaseStamp(0, type = "started", Now),
                    completedAt |-> PhaseStamp(0, type = "completed", Now),
                    canceledAt |-> PhaseStamp(0, type = "canceled", Now),
                    archivedAt |-> 0, version |-> 0]
        IN issues' = [j \in Keys \cup {NewKey} |-> IF j = NewKey THEN row ELSE issues[j]]
  BY DEF CreateIssue
<1>3. QED
  BY <1>1, <1>2

\* What an update leaves in the row it writes.
LEMMA UpdatedRow ==
  ASSUME TypeOK, NEW k \in Keys, NEW p \in Patches, UpdateIssue(k, p)
  PROVE  /\ DOMAIN issues' = Keys
         /\ \A j \in Keys \ {k} : issues'[j] = issues[j]
         /\ issues'[k].parent = Pick(p.parent, issues[k].parent)
         /\ issues'[k].project = Pick(p.project, issues[k].project)
         /\ issues'[k].labels = LabelsAfter(issues[k].labels, p.labels, p.add, p.remove)
         /\ issues'[k].milestone \in MilestonesAfter(issues[k], p)
         /\ issues'[k].version = issues[k].version + 1
<1>1. issues[k] \in Issue /\ DOMAIN issues = Keys
  BY DEF TypeOK, Keys
<1>2. PICK m \in MilestonesAfter(issues[k], p) :
        issues' = [issues EXCEPT ![k] = Bumped(Patched(issues[k], p, m))]
  BY DEF UpdateIssue
<1>3. StatusAfter(issues[k], p) \in Issue
  BY <1>1, StatusAfterType
<1>4. /\ StatusAfter(issues[k], p).parent = issues[k].parent
      /\ StatusAfter(issues[k], p).project = issues[k].project
      /\ StatusAfter(issues[k], p).labels = issues[k].labels
      /\ StatusAfter(issues[k], p).version = issues[k].version
  BY <1>1 DEF StatusAfter, Issue
<1> DEFINE q == Patched(issues[k], p, m)
<1>5. /\ q.parent = Pick(p.parent, issues[k].parent)
      /\ q.project = Pick(p.project, issues[k].project)
      /\ q.labels = LabelsAfter(issues[k].labels, p.labels, p.add, p.remove)
      /\ q.milestone = m
      /\ q.version = issues[k].version
  BY <1>3, <1>4 DEF Patched, Issue
<1>6. q \in Issue
  BY <1>1, PatchedType, MilestonesAfterType
<1> HIDE DEF q
<1>7. /\ Bumped(q).parent = q.parent /\ Bumped(q).project = q.project
      /\ Bumped(q).labels = q.labels /\ Bumped(q).milestone = q.milestone
      /\ Bumped(q).version = q.version + 1
  BY <1>6 DEF Bumped, Issue
<1>8. QED
  BY <1>1, <1>2, <1>5, <1>7 DEF q

\* What appending to a description leaves in the row.
LEMMA AppendedRow ==
  ASSUME TypeOK, NEW k \in Keys, NEW text \in Texts, AppendDescription(k, text)
  PROVE  /\ DOMAIN issues' = Keys
         /\ \A j \in Keys \ {k} : issues'[j] = issues[j]
         /\ issues'[k].parent = issues[k].parent
         /\ issues'[k].project = issues[k].project
         /\ issues'[k].labels = issues[k].labels
         /\ issues'[k].milestone = issues[k].milestone
         /\ issues'[k].version = issues[k].version + 1
<1>1. issues[k] \in Issue /\ DOMAIN issues = Keys
  BY DEF TypeOK, Keys
<1>2. QED
  BY <1>1 DEF AppendDescription, Bumped, Issue

-----------------------------------------------------------------------------
(***************************************************************************)
(* Exclusive labels.  The invariant is inductive as it stands.             *)
(***************************************************************************)

\* Adding labels in order keeps a set that holds one label of each group so,
\* whatever the starting set and the labels removed.
LEMMA LabelsAfterExclusive ==
  ASSUME NEW current, NEW replace, NEW add \in Seq(Labels), NEW remove,
         AtMostOnePerGroup(Pick(replace, current), groups)
  PROVE  AtMostOnePerGroup(LabelsAfter(current, replace, add, remove), groups)
<1> DEFINE base == Pick(replace, current)
<1>1. Len(add) \in Nat /\ DOMAIN add = 1..Len(add)
  OBVIOUS
<1> SUFFICES ASSUME NEW g \in groups,
                    NEW l \in LabelsAfter(current, replace, add, remove) \cap g,
                    NEW m \in LabelsAfter(current, replace, add, remove) \cap g
             PROVE  l = m
  BY DEF AtMostOnePerGroup
<1> DEFINE kept == {x \in base : \A i \in DOMAIN add : ~Excludes(x, add[i])}
           lasting == {j \in DOMAIN add :
                         \A n \in (j + 1)..Len(add) : ~Excludes(add[j], add[n])}
<1>2. /\ l \in kept \/ \E j \in lasting : l = add[j]
      /\ m \in kept \/ \E j \in lasting : m = add[j]
  BY DEF LabelsAfter
<1>3. Excludes(l, m) /\ Excludes(m, l)
  BY DEF Excludes
<1>4. CASE l \in kept /\ m \in kept
  BY <1>4 DEF AtMostOnePerGroup
<1>5. CASE \E j \in lasting : (l \in kept /\ m = add[j]) \/ (m \in kept /\ l = add[j])
  BY <1>3, <1>5
<1>6. ASSUME NEW i \in lasting, NEW j \in lasting, l = add[i], m = add[j]
      PROVE  l = m
  <2>1. CASE i < j
    <3>1. j \in (i + 1)..Len(add)
      BY <1>1, <2>1
    <3>2. QED
      BY <1>3, <1>6, <3>1
  <2>2. CASE j < i
    <3>1. i \in (j + 1)..Len(add)
      BY <1>1, <2>2
    <3>2. QED
      BY <1>3, <1>6, <3>1
  <2>3. CASE i = j
    BY <1>6, <2>3
  <2>4. QED
    BY <1>1, <2>1, <2>2, <2>3
<1>7. QED
  BY <1>2, <1>4, <1>5, <1>6

LEMMA ExclusiveStep == TypeOK /\ ExclusiveLabels /\ [Next]_vars => ExclusiveLabels'
<1> SUFFICES ASSUME TypeOK, ExclusiveLabels, [Next]_vars
             PROVE  ExclusiveLabels'
  OBVIOUS
<1>1. ASSUME NEW in \in NewIssues, CreateIssue(in)
      PROVE  ExclusiveLabels'
  <2>1. in.labels # Keep => AtMostOnePerGroup(in.labels, groups)
    BY <1>1 DEF CreateIssue, LabelsAccepted
  <2>2. in.labels # Keep
    BY KeepAssumption DEF NewIssue
  <2>3. groups' = groups
    BY <1>1 DEF CreateIssue
  <2>4. QED
    BY <1>1, <2>1, <2>2, <2>3, CreatedRow DEF ExclusiveLabels, AtMostOnePerGroup, Keys
<1>2. ASSUME NEW k \in Keys, NEW p \in Patches, UpdateIssue(k, p)
      PROVE  ExclusiveLabels'
  <2>1. AtMostOnePerGroup(Pick(p.labels, issues[k].labels), groups)
    BY <1>2 DEF UpdateIssue, LabelsAccepted, Pick, ExclusiveLabels
  <2>2. AtMostOnePerGroup(issues'[k].labels, groups)
    <3>1. p.add \in Seq(Labels)
      BY DEF Patch
    <3>2. QED
      BY <1>2, <2>1, <3>1, LabelsAfterExclusive, UpdatedRow
  <2>3. groups' = groups
    BY <1>2 DEF UpdateIssue
  <2>4. QED
    BY <1>2, <2>2, <2>3, UpdatedRow DEF ExclusiveLabels, AtMostOnePerGroup, Keys
<1>3. ASSUME NEW k \in Keys, NEW text \in Texts, AppendDescription(k, text)
      PROVE  ExclusiveLabels'
  <2>1. groups' = groups
    BY <1>3 DEF AppendDescription
  <2>2. QED
    BY <1>3, <2>1, AppendedRow DEF ExclusiveLabels, AtMostOnePerGroup, Keys
<1>4. CASE NoIssueStep
  <2>1. issues' = issues
    BY <1>4, NoIssueStepKeepsIssues
  <2>2. CASE groups' = groups
    BY <2>1, <2>2 DEF ExclusiveLabels, AtMostOnePerGroup, Keys
  <2>3. ASSUME NEW value, UpdateLabelGroups(value)
        PROVE  ExclusiveLabels'
    BY <2>1, <2>3 DEF UpdateLabelGroups, ExclusiveLabels, AtMostOnePerGroup, Keys
  <2>4. QED
    BY <1>4, <2>2, <2>3
    DEF NoIssueStep, CommentNext, RelationNext, MilestoneNext, LabelNext, vars,
        AddComment, UpdateComment, AddRelation, RemoveRelation, CreateMilestone,
        UpdateMilestone, EnsureLabel
<1>5. QED
  BY <1>1, <1>2, <1>3, <1>4, NextCases DEF IssueNext

\* No order of label writes, group settings and label edits leaves an issue
\* with two labels of one exclusive group.
THEOREM LabelsExclusive == Spec => []ExclusiveLabels
<1>1. Init => ExclusiveLabels
  BY DEF Init, ExclusiveLabels, Keys
<1>2. QED
  BY <1>1, ExclusiveStep, TypeCorrect, PTL DEF Spec

-----------------------------------------------------------------------------
(***************************************************************************)
(* Milestones stay in their project.                                       *)
(***************************************************************************)

\* Milestones are never deleted and never change project.
LEMMA MilestonesKeepProject ==
  ASSUME TypeOK, [Next]_vars
  PROVE  \A m \in DOMAIN milestones :
           m \in DOMAIN milestones' /\ milestones'[m].project = milestones[m].project
<1>1. milestones \in Seq(Milestone)
  BY DEF TypeOK
<1>2. ASSUME NEW project, NEW name, CreateMilestone(project, name)
      PROVE  \A m \in DOMAIN milestones :
               m \in DOMAIN milestones' /\ milestones'[m] = milestones[m]
  <2> DEFINE row == [project |-> project, name |-> name, archivedAt |-> 0]
  <2>1. milestones' = Append(milestones, row)
    BY <1>2 DEF CreateMilestone
  <2> HIDE DEF row
  <2>2. QED
    BY <1>1, <2>1
<1>3. ASSUME NEW id \in DOMAIN milestones, NEW p, UpdateMilestone(id, p)
      PROVE  \A m \in DOMAIN milestones :
               m \in DOMAIN milestones' /\ milestones'[m].project = milestones[m].project
  <2>1. \A m \in DOMAIN milestones : milestones[m] \in Milestone
    BY <1>1
  <2>2. QED
    BY <1>3, <2>1 DEF UpdateMilestone, Milestone
<1>4. CASE milestones' = milestones
  BY <1>4
<1>5. QED
  BY <1>2, <1>3, <1>4
  DEF Next, IssueNext, CommentNext, RelationNext, MilestoneNext, LabelNext, vars,
      CreateIssue, UpdateIssue, AppendDescription, AddComment, UpdateComment,
      AddRelation, RemoveRelation, EnsureLabel, UpdateLabelGroups

LEMMA MilestoneStep == TypeOK /\ MilestoneInProject /\ [Next]_vars => MilestoneInProject'
<1> SUFFICES ASSUME TypeOK, MilestoneInProject, [Next]_vars,
                    NEW k \in DOMAIN issues', issues'[k].milestone # 0
             PROVE  /\ issues'[k].milestone \in DOMAIN milestones'
                    /\ milestones'[issues'[k].milestone].project = issues'[k].project
  BY DEF MilestoneInProject, Keys
<1> SUFFICES /\ issues'[k].milestone \in DOMAIN milestones
             /\ milestones[issues'[k].milestone].project = issues'[k].project
  BY MilestonesKeepProject
<1>1. CASE k \in Keys /\ issues'[k].milestone = issues[k].milestone
                      /\ issues'[k].project = issues[k].project
  BY <1>1 DEF MilestoneInProject
<1>2. ASSUME NEW in \in NewIssues, CreateIssue(in)
      PROVE  /\ issues'[k].milestone \in DOMAIN milestones
             /\ milestones[issues'[k].milestone].project = issues'[k].project
  BY <1>1, <1>2, CreatedRow DEF Resolved, MilestonesNamed
<1>3. ASSUME NEW j \in Keys, NEW p \in Patches, UpdateIssue(j, p)
      PROVE  /\ issues'[k].milestone \in DOMAIN milestones
             /\ milestones[issues'[k].milestone].project = issues'[k].project
  <2>1. CASE k # j
    BY <1>1, <1>3, <2>1, UpdatedRow
  <2>2. CASE k = j
    <3>1. /\ issues'[k].project = Pick(p.project, issues[k].project)
          /\ issues'[k].milestone \in MilestonesAfter(issues[k], p)
      BY <1>3, <2>2, UpdatedRow
    <3>2. CASE p.milestone = Keep
      BY <1>1, <2>2, <3>1, <3>2 DEF MilestonesAfter, Moves, Pick
    <3>3. CASE p.milestone # Keep
      BY <3>1, <3>3 DEF MilestonesAfter, Resolved, MilestonesNamed
    <3>4. QED
      BY <3>2, <3>3
  <2>3. QED
    BY <2>1, <2>2
<1>4. ASSUME NEW j \in Keys, NEW text \in Texts, AppendDescription(j, text)
      PROVE  /\ issues'[k].milestone \in DOMAIN milestones
             /\ milestones[issues'[k].milestone].project = issues'[k].project
  BY <1>1, <1>4, AppendedRow
<1>5. CASE NoIssueStep
  BY <1>1, <1>5, NoIssueStepKeepsIssues DEF Keys
<1>6. QED
  BY <1>2, <1>3, <1>4, <1>5, NextCases DEF IssueNext

\* However an issue moved between projects, and whatever became of the
\* milestone since, the milestone it shows is one of its own project.
THEOREM MilestonesInProject == Spec => []MilestoneInProject
<1>1. Init => MilestoneInProject
  BY DEF Init, MilestoneInProject, Keys
<1>2. QED
  BY <1>1, MilestoneStep, TypeCorrect, PTL DEF Spec

-----------------------------------------------------------------------------
(***************************************************************************)
(* The hierarchy.  A loop is a nonempty set of issues whose parents are    *)
(* all in the set.  When an update gives k the parent q, a loop after the  *)
(* step either misses k, and was one before it, or holds k; then it holds  *)
(* q, and the part of it on the path that ParentAllowed walked from q is a *)
(* loop that was there before.                                             *)
(***************************************************************************)

Loop(set) == set # {} /\ \A k \in set : issues[k].parent \in set

\* Parents are issues, so a new key is the parent of none.
ParentsExist == \A k \in Keys : issues[k].parent \in Keys \cup {0}

HierarchyInv == ParentsExist /\ \A set \in SUBSET Keys : ~Loop(set)

LEMMA CreateKeepsHierarchy ==
  ASSUME TypeOK, HierarchyInv, NEW in \in NewIssues, CreateIssue(in)
  PROVE  HierarchyInv'
<1>1. /\ NewKey \notin Keys \cup {0}
      /\ Keys' = Keys \cup {NewKey}
      /\ \A k \in Keys : issues'[k] = issues[k]
      /\ issues'[NewKey].parent \in Keys \cup {0}
  BY CreatedRow DEF CreateIssue, Keys
<1>2. ParentsExist'
  BY <1>1 DEF HierarchyInv, ParentsExist
<1>3. ASSUME NEW set \in SUBSET Keys', Loop(set)'
      PROVE  FALSE
  <2>1. set \ {NewKey} \in SUBSET Keys
    BY <1>1
  <2>2. set \ {NewKey} # {}
    BY <1>1, <1>3 DEF Loop
  <2>3. \A k \in set \ {NewKey} : issues[k].parent \in set \ {NewKey}
    BY <1>1, <1>3 DEF Loop, HierarchyInv, ParentsExist
  <2>4. QED
    BY <2>1, <2>2, <2>3 DEF HierarchyInv, Loop
<1>4. QED
  BY <1>2, <1>3 DEF HierarchyInv

\* A step that gives issue k the parent q, walked up from before, or none.
LEMMA ReparentKeepsHierarchy ==
  ASSUME TypeOK, HierarchyInv, NEW k \in Keys, NEW q,
         q = 0 \/ ParentAllowed(k, q),
         Keys' = Keys, issues'[k].parent = q,
         \A j \in Keys \ {k} : issues'[j] = issues[j]
  PROVE  HierarchyInv'
<1>1. 0 \notin Keys
  BY DEF TypeOK, Keys
<1>2. ParentsExist'
  BY DEF HierarchyInv, ParentsExist, ParentAllowed
<1>3. ASSUME NEW set \in SUBSET Keys, Loop(set)'
      PROVE  FALSE
  <2>1. CASE k \notin set
    BY <1>3, <2>1 DEF Loop, HierarchyInv
  <2>2. CASE k \in set
    <3>1. q \in set /\ q # 0
      BY <1>1, <1>3, <2>2 DEF Loop
    <3>2. PICK depth \in 1..MaxDepth : \E path \in [1..depth -> Keys] :
            /\ path[1] = q
            /\ \A d \in 1..(depth - 1) : path[d + 1] = issues[path[d]].parent
            /\ issues[path[depth]].parent = 0
            /\ \A d \in 1..depth : path[d] # k
      BY <3>1 DEF ParentAllowed
    <3>3. PICK path \in [1..depth -> Keys] :
            /\ path[1] = q
            /\ \A d \in 1..(depth - 1) : path[d + 1] = issues[path[d]].parent
            /\ issues[path[depth]].parent = 0
            /\ \A d \in 1..depth : path[d] # k
      BY <3>2
    <3> DEFINE part == {j \in set : \E d \in 1..depth : j = path[d]}
    <3>4. q \in part
      BY <3>1, <3>3
    <3>5. ASSUME NEW j \in part
          PROVE  issues[j].parent \in part
      <4>1. PICK d \in 1..depth : j = path[d]
        OBVIOUS
      <4>2. issues[j].parent \in set
        BY <1>3, <3>3, <4>1 DEF Loop
      <4>3. d # depth
        BY <1>1, <3>3, <4>1, <4>2
      <4>4. d + 1 \in 1..depth /\ d \in 1..(depth - 1)
        BY <4>3
      <4>5. issues[j].parent = path[d + 1]
        BY <3>3, <4>1, <4>4
      <4>6. QED
        BY <4>2, <4>4, <4>5
    <3>6. Loop(part) /\ part \in SUBSET Keys
      BY <3>4, <3>5 DEF Loop
    <3>7. QED
      BY <3>6 DEF HierarchyInv
  <2>3. QED
    BY <2>1, <2>2
<1>4. QED
  BY <1>2, <1>3 DEF HierarchyInv

LEMMA SameParentsKeepHierarchy ==
  ASSUME HierarchyInv, Keys' = Keys, \A k \in Keys : issues'[k].parent = issues[k].parent
  PROVE  HierarchyInv'
BY DEF HierarchyInv, ParentsExist, Loop

LEMMA HierarchyStep == TypeOK /\ HierarchyInv /\ [Next]_vars => HierarchyInv'
<1> SUFFICES ASSUME TypeOK, HierarchyInv, [Next]_vars
             PROVE  HierarchyInv'
  OBVIOUS
<1>1. ASSUME NEW in \in NewIssues, CreateIssue(in)
      PROVE  HierarchyInv'
  BY <1>1, CreateKeepsHierarchy
<1>2. ASSUME NEW k \in Keys, NEW p \in Patches, UpdateIssue(k, p)
      PROVE  HierarchyInv'
  <2>1. /\ Keys' = Keys
        /\ \A j \in Keys \ {k} : issues'[j] = issues[j]
        /\ issues'[k].parent = Pick(p.parent, issues[k].parent)
    BY <1>2, UpdatedRow DEF Keys
  <2>2. CASE p.parent = Keep
    BY <2>1, <2>2, SameParentsKeepHierarchy DEF Pick
  <2>3. CASE p.parent # Keep
    <3>1. p.parent = 0 \/ ParentAllowed(k, p.parent)
      BY <1>2, <2>3 DEF UpdateIssue
    <3>2. QED
      BY <2>1, <2>3, <3>1, ReparentKeepsHierarchy DEF Pick
  <2>4. QED
    BY <2>2, <2>3
<1>3. ASSUME NEW k \in Keys, NEW text \in Texts, AppendDescription(k, text)
      PROVE  HierarchyInv'
  <2>1. Keys' = Keys /\ \A j \in Keys : issues'[j].parent = issues[j].parent
    BY <1>3, AppendedRow DEF Keys
  <2>2. QED
    BY <2>1, SameParentsKeepHierarchy
<1>4. CASE NoIssueStep
  BY <1>4, NoIssueStepKeepsIssues, SameParentsKeepHierarchy DEF Keys
<1>5. QED
  BY <1>1, <1>2, <1>3, <1>4, NextCases DEF IssueNext

\* No sequence of creates and reparentings puts an issue above itself.
THEOREM HierarchyHasNoLoop == Spec => []HierarchyAcyclic
<1>1. Init => HierarchyInv
  BY DEF Init, HierarchyInv, ParentsExist, Loop, Keys
<1>2. HierarchyInv => HierarchyAcyclic
  BY DEF HierarchyInv, HierarchyAcyclic, Loop
<1>3. QED
  BY <1>1, <1>2, HierarchyStep, TypeCorrect, PTL DEF Spec

-----------------------------------------------------------------------------
(***************************************************************************)
(* Versions.  The row's version is at least that of every event about it,  *)
(* so the next write's version is above them all.                          *)
(***************************************************************************)

AboutIssue(n) == Trail!IsAbout(events[n], events[n].row)

VersionsBounded ==
  \A n \in DOMAIN events :
    AboutIssue(n) =>
      /\ events[n].row \in Keys
      /\ events[n].after.version <= issues[events[n].row].version

VersionsInv == VersionsNeverReused /\ VersionsBounded

\* A step that records nothing about an issue.
LEMMA NoIssueEventKeepsVersions ==
  ASSUME TypeOK, VersionsInv, issues' = issues,
         Trail!Elsewhere \/ events' = events
  PROVE  VersionsInv'
<1>1. events \in Seq(Event)
  BY DEF TypeOK
<1>2. CASE events' = events
  BY <1>2 DEF VersionsInv, VersionsNeverReused, VersionsBounded, AboutIssue, Keys
<1>3. CASE Trail!Elsewhere
  <2>1. \A n \in DOMAIN events' :
          AboutIssue(n)' => n \in DOMAIN events /\ events'[n] = events[n]
    BY <1>1, <1>3
    DEF AboutIssue, Trail!IsAbout, Trail!Elsewhere, Trail!Extended, Trail!NewEvent
  <2>2. VersionsBounded'
    BY <2>1 DEF VersionsInv, VersionsBounded, AboutIssue, Keys
  <2>3. VersionsNeverReused'
    BY <2>1 DEF VersionsInv, VersionsNeverReused, AboutIssue, Trail!IsAbout
  <2>4. QED
    BY <2>2, <2>3 DEF VersionsInv
<1>4. QED
  BY <1>2, <1>3

\* A recorded write of issue k that raises its version, or creates it.
LEMMA RaisedVersionKeepsVersions ==
  ASSUME TypeOK, TypeOK', VersionsInv, NEW k,
         Trail!Create(k) \/ (Trail!Write(k) /\ issues'[k].version = issues[k].version + 1)
  PROVE  VersionsInv'
<1> DEFINE last == Len(events) + 1
<1>1. /\ Len(events) \in Nat /\ DOMAIN events = 1..Len(events)
      /\ DOMAIN events' = 1..last
      /\ \A n \in DOMAIN events : events'[n] = events[n]
  BY DEF TypeOK, Trail!Create, Trail!Write, Trail!Extended
<1>2. /\ Trail!IsAbout(events'[last], k)
      /\ events'[last].after.version = issues'[k].version
  BY DEF Trail!Create, Trail!Write, Trail!NewEvent, Trail!Agree, IssueFields
<1>3. /\ Keys' = Keys \cup {k}
      /\ \A j \in Keys \ {k} : issues'[j] = issues[j]
  BY DEF Trail!Create, Trail!Write, Keys
<1>4. /\ \A j \in Keys : issues[j].version \in Nat
      /\ \A j \in Keys' : issues'[j].version \in Nat
  BY DEF TypeOK, Keys, Issue
<1>5. \A n \in DOMAIN events : AboutIssue(n) =>
        /\ events[n].row \in Keys
        /\ events[n].after.version \in Nat
        /\ events[n].after.version <= issues[events[n].row].version
  <2>1. \A n \in DOMAIN events : events[n] \in Event
    BY DEF TypeOK
  <2>2. \A n \in DOMAIN events : AboutIssue(n) => events[n].after \in LoadedIssue
    BY <2>1 DEF AboutIssue, Trail!IsAbout, IssueActions, Event
  <2>3. QED
    BY <2>2 DEF VersionsInv, VersionsBounded, LoadedIssue
<1>6. \A n \in DOMAIN events :
        AboutIssue(n) /\ events[n].row = k =>
          events[n].after.version < issues'[k].version
  BY <1>3, <1>4, <1>5 DEF Trail!Create, Keys
<1> HIDE DEF last
<1>7. VersionsBounded'
  <2>1. ASSUME NEW n \in DOMAIN events', AboutIssue(n)'
        PROVE  /\ events'[n].row \in Keys'
               /\ events'[n].after.version <= issues'[events'[n].row].version
    <3>1. CASE n = last
      BY <1>2, <1>3, <1>4, <3>1 DEF Trail!IsAbout
    <3>2. CASE n # last
      <4>1. n \in DOMAIN events /\ events'[n] = events[n] /\ AboutIssue(n)
        BY <1>1, <2>1, <3>2 DEF AboutIssue, last
      <4>2. QED
        BY <1>3, <1>4, <1>5, <1>6, <4>1
    <3>3. QED
      BY <3>1, <3>2
  <2>2. QED
    BY <2>1 DEF VersionsBounded
<1>8. VersionsNeverReused'
  <2>1. ASSUME NEW m \in DOMAIN events', NEW n \in DOMAIN events', m < n,
               Trail!IsAbout(events'[m], events'[m].row),
               Trail!IsAbout(events'[n], events'[m].row)
        PROVE  events'[m].after.version < events'[n].after.version
    <3>1. m \in DOMAIN events /\ events'[m] = events[m]
      BY <1>1, <2>1 DEF last
    <3>2. CASE n = last
      BY <1>2, <1>6, <2>1, <3>1, <3>2 DEF AboutIssue, Trail!IsAbout
    <3>3. CASE n # last
      <4>1. n \in DOMAIN events /\ events'[n] = events[n]
        BY <1>1, <3>3 DEF last
      <4>2. QED
        BY <2>1, <3>1, <4>1 DEF VersionsInv, VersionsNeverReused
    <3>4. QED
      BY <3>2, <3>3
  <2>2. QED
    BY <2>1 DEF VersionsNeverReused, Trail!IsAbout
<1>9. QED
  BY <1>7, <1>8 DEF VersionsInv

LEMMA VersionsStep == TypeOK /\ VersionsInv /\ [Next]_vars => VersionsInv'
<1> SUFFICES ASSUME TypeOK, VersionsInv, [Next]_vars
             PROVE  VersionsInv'
  OBVIOUS
<1>1. TypeOK'
  BY NextTypeOK
<1>2. ASSUME NEW in \in NewIssues, CreateIssue(in)
      PROVE  VersionsInv'
  BY <1>1, <1>2, CreateIssueTrail, RaisedVersionKeepsVersions
<1>3. ASSUME NEW k \in Keys, NEW p \in Patches, UpdateIssue(k, p)
      PROVE  VersionsInv'
  BY <1>1, <1>3, UpdateIssueTrail, UpdatedRow, RaisedVersionKeepsVersions
<1>4. ASSUME NEW k \in Keys, NEW text \in Texts, AppendDescription(k, text)
      PROVE  VersionsInv'
  BY <1>1, <1>4, AppendDescriptionTrail, AppendedRow, RaisedVersionKeepsVersions
<1>5. CASE NoIssueStep
  <2>1. issues' = issues
    BY <1>5, NoIssueStepKeepsIssues
  <2>2. Trail!Elsewhere \/ events' = events
    BY <1>5, NoIssueStepRecordsElsewhere DEF Trail!vars
  <2>3. QED
    BY <2>1, <2>2, NoIssueEventKeepsVersions
<1>6. QED
  BY <1>2, <1>3, <1>4, <1>5, NextCases DEF IssueNext

\* The versions on record for an issue only go up: a version names one state
\* of the issue for ever, which is what a conditional write relies on.
THEOREM VersionsOnlyGrow == Spec => []VersionsNeverReused
<1>1. Init => VersionsInv
  BY DEF Init, VersionsInv, VersionsNeverReused, VersionsBounded
<1>2. VersionsInv => VersionsNeverReused
  BY DEF VersionsInv
<1>3. QED
  BY <1>1, <1>2, VersionsStep, TypeCorrect, PTL DEF Spec

-----------------------------------------------------------------------------
(***************************************************************************)
(* Relations.  The invariant follows one relation: among the events about  *)
(* it there is a latest before any position, each says the opposite of the *)
(* latest before it, and the relation is there when the latest says so.    *)
(***************************************************************************)
Latest(about, n, m) ==
  /\ m \in about /\ m < n
  /\ \A i \in about : i < n => i <= m

\* about are the positions of the events about rel, among the first last ones,
\* added those that say it was added.
Alternates(about, added, last, rel, rels) ==
  /\ last \in Nat /\ about \subseteq 1..last /\ added \subseteq about
  /\ \A n \in 1..(last + 1) : (\E i \in about : i < n) => \E m : Latest(about, n, m)
  /\ \A n \in about : n \in added <=> \A m : Latest(about, n, m) => m \notin added
  /\ rel \in rels <=> \E m : Latest(about, last + 1, m) /\ m \in added

LEMMA LatestUnique ==
  ASSUME NEW last \in Nat, NEW about \in SUBSET (1..last),
         NEW n, NEW a, NEW b, Latest(about, n, a), Latest(about, n, b)
  PROVE  a = b
<1>1. a \in Nat /\ b \in Nat /\ a <= b /\ b <= a
  BY DEF Latest
<1>2. QED
  BY <1>1

\* An event about something else.
LEMMA AlternatesOn ==
  ASSUME NEW about, NEW added, NEW last, NEW rel, NEW rels, NEW now,
         Alternates(about, added, last, rel, rels), rel \in now <=> rel \in rels
  PROVE  Alternates(about, added, last + 1, rel, now)
<1>1. last \in Nat /\ about \subseteq 1..last /\ added \subseteq about
  BY DEF Alternates
<1>2. about \subseteq 1..(last + 1)
  BY <1>1
<1>3. \A m : Latest(about, last + 2, m) <=> Latest(about, last + 1, m)
  <2>1. \A i \in about : i < last + 2 /\ i < last + 1
    BY <1>1
  <2>2. QED
    BY <2>1 DEF Latest
<1>4. (\E i \in about : i < last + 2) => \E i \in about : i < last + 1
  <2>1. \A i \in about : i < last + 1
    BY <1>1
  <2>2. QED
    BY <2>1
<1>5. \A n \in 1..(last + 2) : (\E i \in about : i < n) => \E m : Latest(about, n, m)
  <2>1. \A n \in 1..(last + 2) : n \in 1..(last + 1) \/ n = last + 2
    BY <1>1
  <2>2. last + 1 \in 1..(last + 1)
    BY <1>1
  <2>3. \A n \in 1..(last + 1) : (\E i \in about : i < n) => \E m : Latest(about, n, m)
    BY DEF Alternates
  <2>4. QED
    BY <1>3, <1>4, <2>1, <2>2, <2>3
<1>6. last + 1 \in Nat /\ (last + 1) + 1 = last + 2
  BY <1>1
<1>7. QED
  BY <1>1, <1>2, <1>3, <1>5, <1>6 DEF Alternates

\* An event about the relation, which turns it around.
LEMMA AlternatesTurned ==
  ASSUME NEW about, NEW added, NEW last, NEW rel, NEW rels,
         Alternates(about, added, last, rel, rels),
         NEW next, next = last + 1, NEW now, rel \in now <=> rel \notin rels,
         NEW more, more = added \cup (IF rel \in now THEN {next} ELSE {})
  PROVE  Alternates(about \cup {next}, more, next, rel, now)
<1>1. last \in Nat /\ about \subseteq 1..last /\ added \subseteq about
  BY DEF Alternates
<1>2. PICK all : all = about \cup {next}
  OBVIOUS
<1>3. /\ next \in Nat /\ all \subseteq 1..next /\ more \subseteq all /\ next \notin about
      /\ \A m \in about : m < next
  BY <1>1, <1>2
<1>4. \A m : Latest(all, next + 1, m) <=> m = next
  <2>1. \A i \in all : i \in Nat /\ i < next + 1 /\ i <= next
    BY <1>3
  <2>2. next \in all /\ next \in Nat
    BY <1>2, <1>3
  <2>3. ASSUME NEW m, Latest(all, next + 1, m)
        PROVE  m = next
    <3>1. m \in all /\ next <= m
      BY <2>1, <2>2, <2>3 DEF Latest
    <3>2. QED
      BY <2>1, <2>2, <3>1
  <2>4. Latest(all, next + 1, next)
    BY <2>1, <2>2 DEF Latest
  <2>5. QED
    BY <2>3, <2>4
<1>5. ASSUME NEW n \in 1..next, NEW m
      PROVE  Latest(all, n, m) <=> Latest(about, n, m)
  <2>1. n <= next /\ n \in Nat
    BY <1>3, <1>5
  <2>2. \A i \in all : i < n => i \in about
    BY <1>2, <1>3, <2>1
  <2>3. QED
    BY <1>2, <2>2 DEF Latest
<1>6. \A m \in about : m \in more <=> m \in added
  BY <1>3
<1>7. \A n \in 1..(next + 1) : (\E i \in all : i < n) => \E m : Latest(all, n, m)
  <2>1. ASSUME NEW n \in 1..next, NEW i \in all, i < n
        PROVE  \E m : Latest(all, n, m)
    <3>1. i \in about
      BY <1>2, <1>3, <2>1
    <3>2. \E m : Latest(about, n, m)
      BY <2>1, <3>1 DEF Alternates
    <3>3. QED
      BY <1>5, <3>2
  <2>2. \A n \in 1..(next + 1) : n \in 1..next \/ n = next + 1
    BY <1>3
  <2>3. QED
    BY <1>4, <2>1, <2>2
<1>8. ASSUME NEW n \in all
      PROVE  n \in more <=> \A m : Latest(all, n, m) => m \notin more
  <2>1. n \in 1..next
    BY <1>3
  <2>2. \A m : Latest(all, n, m) <=> Latest(about, n, m)
    BY <1>5, <2>1
  <2>3. \A m : Latest(about, n, m) => (m \in more <=> m \in added)
    BY <1>6 DEF Latest
  <2>4. CASE n \in about
    BY <1>6, <2>2, <2>3, <2>4 DEF Alternates
  <2>5. CASE n = next
    <3>1. rel \in rels <=> \E m : Latest(about, next, m) /\ m \in added
      BY DEF Alternates
    <3>2. \A a, b : Latest(about, next, a) /\ Latest(about, next, b) => a = b
      BY <1>1, LatestUnique
    <3>3. next \in more <=> rel \notin rels
      BY <1>1, <1>3
    <3>4. rel \notin rels <=> \A m : Latest(about, next, m) => m \notin added
      BY <3>1
    <3>5. QED
      BY <2>2, <2>3, <2>5, <3>3, <3>4
  <2>6. QED
    BY <1>2, <2>4, <2>5
<1>9. rel \in now <=> \E m : Latest(all, next + 1, m) /\ m \in more
  <2>1. next \in more <=> rel \in now
    BY <1>1, <1>3
  <2>2. QED
    BY <1>4, <2>1
<1>10. QED
  BY <1>2, <1>3, <1>7, <1>8, <1>9 DEF Alternates

RelationEvents(rel) ==
  {n \in DOMAIN events :
     \/ events[n].action = "relation.added" /\ events[n].after = rel
     \/ events[n].action = "relation.removed" /\ events[n].before = rel}

AddedEvents(rel) == {n \in RelationEvents(rel) : events[n].action = "relation.added"}

RelationsFollow ==
  \A rel : Alternates(RelationEvents(rel), AddedEvents(rel), Len(events), rel, relations)

\* What a step that records adds to the events about a relation.
LEMMA RelationEventsMove ==
  ASSUME TypeOK, Trail!Extended, NEW rel, NEW last, last = Len(events) + 1,
         NEW e, e = events'[last], NEW set, set = RelationEvents(rel)
  PROVE  /\ Len(events') = last /\ Len(events) \in Nat
         /\ ~ \/ e.action = "relation.added" /\ e.after = rel
              \/ e.action = "relation.removed" /\ e.before = rel
            => RelationEvents(rel)' = set /\ AddedEvents(rel)' = AddedEvents(rel)
         /\ e.action = "relation.added" /\ e.after = rel
            => /\ RelationEvents(rel)' = set \cup {last}
               /\ AddedEvents(rel)' = AddedEvents(rel) \cup {last}
         /\ e.action = "relation.removed" /\ e.before = rel
            => /\ RelationEvents(rel)' = set \cup {last}
               /\ AddedEvents(rel)' = AddedEvents(rel)
<1>1. Len(events) \in Nat /\ DOMAIN events = 1..Len(events)
  BY DEF TypeOK
<1>2. /\ Len(events') = last /\ DOMAIN events' = DOMAIN events \cup {last}
      /\ \A n \in DOMAIN events : events'[n] = events[n]
      /\ last \notin DOMAIN events
  BY <1>1 DEF Trail!Extended
<1>3. /\ \A n : n \in RelationEvents(rel)' <=>
           \/ n \in set
           \/ /\ n = last
              /\ \/ e.action = "relation.added" /\ e.after = rel
                 \/ e.action = "relation.removed" /\ e.before = rel
      /\ last \notin set
  BY <1>2 DEF RelationEvents
<1>4. \A n : n \in AddedEvents(rel)' <=>
        \/ n \in AddedEvents(rel)
        \/ n = last /\ e.action = "relation.added" /\ e.after = rel
  <2>1. \A n \in set : events'[n] = events[n]
    BY <1>2 DEF RelationEvents
  <2>2. QED
    BY <1>3, <2>1 DEF AddedEvents
<1>5. QED
  BY <1>1, <1>2, <1>3, <1>4

\* The steps on the other tables.
LEMMA NoRelationStep ==
  ASSUME TypeOK, IssueNext \/ CommentNext \/ MilestoneNext \/ LabelNext \/ UNCHANGED vars
  PROVE  /\ relations' = relations
         /\ \/ events' = events
            \/ /\ Trail!Extended
               /\ events'[Now].action \notin {"relation.added", "relation.removed"}
<1>1. relations' = relations
  BY DEF IssueNext, CommentNext, MilestoneNext, LabelNext, vars, CreateIssue,
     UpdateIssue, AppendDescription, AddComment, UpdateComment, CreateMilestone,
     UpdateMilestone, EnsureLabel, UpdateLabelGroups
<1>2. ASSUME NEW action, NEW row, NEW before, NEW after,
             Record(action, row, before, after),
             action \notin {"relation.added", "relation.removed"}
      PROVE  /\ Trail!Extended
             /\ events'[Now].action \notin {"relation.added", "relation.removed"}
  <2>1. events'[Now] = [action |-> action, row |-> row, before |-> before, after |-> after]
    BY <1>2, RecordExtends DEF Trail!NewEvent, Now
  <2>2. events'[Now].action = action
    BY <2>1
  <2>3. QED
    BY <1>2, <2>2, RecordExtends
<1>3. CASE IssueNext
  BY <1>1, <1>2, <1>3, IssueStepRecords DEF IssueActions
<1>4. CASE CommentNext
  BY <1>1, <1>2, <1>4, CommentStepRecords
<1>5. CASE MilestoneNext
  BY <1>1, <1>2, <1>5, MilestoneStepRecords
<1>6. CASE LabelNext
  <2>1. ASSUME NEW l, EnsureLabel(l) PROVE events' = events
    BY <2>1 DEF EnsureLabel
  <2>2. ASSUME NEW value, UpdateLabelGroups(value)
        PROVE  \E row, before, after : Record("setting.updated", row, before, after)
    BY <2>2 DEF UpdateLabelGroups
  <2>3. QED
    BY <1>1, <1>2, <1>6, <2>1, <2>2 DEF LabelNext
<1>7. CASE UNCHANGED vars
  BY <1>1, <1>7 DEF vars
<1>8. QED
  BY <1>3, <1>4, <1>5, <1>6, <1>7

LEMMA RelationsStep == TypeOK /\ RelationsFollow /\ [Next]_vars => RelationsFollow'
<1> SUFFICES ASSUME TypeOK, RelationsFollow, [Next]_vars, NEW rel
             PROVE  Alternates(RelationEvents(rel), AddedEvents(rel), Len(events),
                               rel, relations)'
  BY DEF RelationsFollow
<1>1. PICK about, added, len, there, last :
        /\ about = RelationEvents(rel) /\ added = AddedEvents(rel) /\ len = Len(events)
        /\ there = relations /\ last = Len(events) + 1
  OBVIOUS
<1>2. Alternates(about, added, len, rel, there)
  BY <1>1 DEF RelationsFollow
<1>3. (Alternates(RelationEvents(rel), AddedEvents(rel), Len(events), rel, relations))'
        <=> Alternates(RelationEvents(rel)', AddedEvents(rel)', Len(events'), rel, relations')
  BY DEF Alternates, Latest
<1>4. CASE IssueNext \/ CommentNext \/ MilestoneNext \/ LabelNext \/ UNCHANGED vars
  <2>1. relations' = there
    BY <1>1, <1>4, NoRelationStep
  <2>2. CASE events' = events
    BY <1>1, <1>2, <1>3, <2>1, <2>2 DEF RelationEvents, AddedEvents
  <2>3. CASE /\ Trail!Extended
             /\ events'[last].action \notin {"relation.added", "relation.removed"}
    <3>1. /\ RelationEvents(rel)' = about /\ AddedEvents(rel)' = added
          /\ Len(events') = len + 1
      BY <1>1, <2>3, RelationEventsMove
    <3>2. QED
      BY <1>2, <1>3, <2>1, <3>1, AlternatesOn
  <2>4. QED
    BY <1>1, <1>4, <2>2, <2>3, NoRelationStep DEF Now
<1>5. ASSUME NEW from, NEW to, NEW type, AddRelation(from, to, type)
      PROVE  (Alternates(RelationEvents(rel), AddedEvents(rel), Len(events), rel, relations))'
  <2> DEFINE new == [from |-> from.key, type |-> type, to |-> to.key]
  <2>1. /\ new \notin relations /\ relations' = relations \cup {new}
        /\ Record("relation.added", new.from, None, new)
    BY <1>5 DEF AddRelation
  <2> HIDE DEF new
  <2>2. /\ Trail!Extended
        /\ events'[last].action = "relation.added" /\ events'[last].after = new
    <3>1. /\ Trail!Extended
          /\ events'[last] = [action |-> "relation.added", row |-> new.from,
                              before |-> None, after |-> new]
      BY <1>1, <2>1, RecordExtends DEF Trail!NewEvent
    <3>2. QED
      BY <3>1
  <2>3. CASE rel = new
    <3>1. /\ RelationEvents(rel)' = about \cup {last}
          /\ AddedEvents(rel)' = added \cup {last} /\ Len(events') = last
      BY <1>1, <2>2, <2>3, RelationEventsMove
    <3>2. rel \notin there /\ rel \in relations' /\ last = len + 1
      BY <1>1, <2>1, <2>3
    <3>3. QED
      BY <1>2, <1>3, <3>1, <3>2, AlternatesTurned
  <2>4. CASE rel # new
    <3>1. /\ RelationEvents(rel)' = about /\ AddedEvents(rel)' = added
          /\ Len(events') = len + 1
      BY <1>1, <2>2, <2>4, RelationEventsMove
    <3>2. rel \in relations' <=> rel \in there
      BY <1>1, <2>1, <2>4
    <3>3. QED
      BY <1>2, <1>3, <3>1, <3>2, AlternatesOn
  <2>5. QED
    BY <2>3, <2>4
<1>6. ASSUME NEW from, NEW to, NEW type, RemoveRelation(from, to, type)
      PROVE  (Alternates(RelationEvents(rel), AddedEvents(rel), Len(events), rel, relations))'
  <2> DEFINE old == [from |-> from.key, type |-> type, to |-> to.key]
  <2>1. /\ old \in relations /\ relations' = relations \ {old}
        /\ Record("relation.removed", old.from, old, None)
    BY <1>6 DEF RemoveRelation
  <2> HIDE DEF old
  <2>2. /\ Trail!Extended
        /\ events'[last].action = "relation.removed" /\ events'[last].before = old
    <3>1. /\ Trail!Extended
          /\ events'[last] = [action |-> "relation.removed", row |-> old.from,
                              before |-> old, after |-> None]
      BY <1>1, <2>1, RecordExtends DEF Trail!NewEvent
    <3>2. QED
      BY <3>1
  <2>3. CASE rel = old
    <3>1. /\ RelationEvents(rel)' = about \cup {last}
          /\ AddedEvents(rel)' = added /\ Len(events') = last
      BY <1>1, <2>2, <2>3, RelationEventsMove
    <3>2. rel \in there /\ rel \notin relations' /\ last = len + 1
      BY <1>1, <2>1, <2>3
    <3>3. added = added \cup (IF rel \in relations' THEN {last} ELSE {})
      BY <3>2
    <3>4. QED
      BY <1>2, <1>3, <3>1, <3>2, <3>3, AlternatesTurned
  <2>4. CASE rel # old
    <3>1. /\ RelationEvents(rel)' = about /\ AddedEvents(rel)' = added
          /\ Len(events') = len + 1
      BY <1>1, <2>2, <2>4, RelationEventsMove
    <3>2. rel \in relations' <=> rel \in there
      BY <1>1, <2>1, <2>4
    <3>3. QED
      BY <1>2, <1>3, <3>1, <3>2, AlternatesOn
  <2>5. QED
    BY <2>3, <2>4
<1>7. QED
  BY <1>4, <1>5, <1>6 DEF Next, RelationNext

\* The latest is the maximum, where the runs compute it.
LEMMA LatestIsMax ==
  ASSUME NEW about, NEW last, about \subseteq 1..last, last \in Nat, NEW n,
         NEW previous, previous = {m \in about : m < n}, NEW m, Latest(about, n, m)
  PROVE  previous # {} /\ Max(previous) = m
<1>1. m \in previous /\ \A i \in previous : m >= i
  BY DEF Latest
<1>2. Max(previous) \in previous /\ \A i \in previous : Max(previous) >= i
  BY <1>1 DEF Max
<1>3. m \in Nat /\ Max(previous) \in Nat
  <2>1. \A i \in previous : i \in 1..last
    OBVIOUS
  <2>2. PICK max : max = Max(previous)
    OBVIOUS
  <2>3. m \in 1..last /\ max \in 1..last
    BY <1>1, <1>2, <2>1, <2>2
  <2>4. QED
    BY <2>2, <2>3
<1>4. m >= Max(previous) /\ Max(previous) >= m
  BY <1>1, <1>2
<1>5. QED
  BY <1>1, <1>3, <1>4

\* Every relation is as the last event about it says, and no event about it
\* repeats the one before (AddRelation, RemoveRelation).
THEOREM RelationsAsRecorded == Spec => []RelationsFollowTrail
<1>1. ASSUME Init
      PROVE  RelationsFollow
  <2>1. Len(events) = 0 /\ DOMAIN events = {} /\ relations = {}
    BY <1>1 DEF Init
  <2>2. \A rel : RelationEvents(rel) = {} /\ AddedEvents(rel) = {}
    BY <2>1 DEF RelationEvents, AddedEvents
  <2>3. QED
    BY <2>1, <2>2 DEF RelationsFollow, Alternates, Latest
<1>2. ASSUME RelationsFollow
      PROVE  RelationsFollowTrail
  <2>1. ASSUME NEW rel
        PROVE  LET about == RelationEvents(rel)
                   added(n) == events[n].action = "relation.added"
                   previous(n) == {m \in about : m < n}
               IN /\ \A n \in about :
                       added(n) <=> (previous(n) = {} \/ ~added(Max(previous(n))))
                  /\ rel \in relations <=> (about # {} /\ added(Max(about)))
    <3>1. PICK about, added, last :
            /\ about = RelationEvents(rel) /\ added = AddedEvents(rel) /\ last = Len(events)
      OBVIOUS
    <3>2. Alternates(about, added, last, rel, relations)
      BY <1>2, <3>1 DEF RelationsFollow
    <3>3. last \in Nat /\ about \subseteq 1..last /\ added \subseteq about
      BY <3>2 DEF Alternates
    <3>4. \A n \in about : events[n].action = "relation.added" <=> n \in added
      BY <3>1 DEF AddedEvents
    <3>5. ASSUME NEW n \in 1..(last + 1), NEW previous, previous = {m \in about : m < n}
          PROVE  \/ previous = {} /\ \A m : ~Latest(about, n, m)
                 \/ /\ Latest(about, n, Max(previous)) /\ previous # {}
                    /\ \A m : Latest(about, n, m) => m = Max(previous)
                    /\ Max(previous) \in about
      <4>1. CASE previous = {}
        BY <3>5, <4>1 DEF Latest
      <4>2. CASE previous # {}
        <5>1. PICK m : Latest(about, n, m)
          BY <3>2, <3>5, <4>2 DEF Alternates
        <5>2. \A i : Latest(about, n, i) => i = Max(previous)
          BY <3>3, <3>5, LatestIsMax
        <5>3. Max(previous) = m /\ m \in about
          BY <5>1, <5>2 DEF Latest
        <5>4. QED
          BY <4>2, <5>1, <5>2, <5>3
      <4>3. QED
        BY <4>1, <4>2
    <3>6. ASSUME NEW n \in about, NEW previous, previous = {m \in about : m < n}
          PROVE  n \in added <=> (previous = {} \/ Max(previous) \notin added)
      <4>1. n \in 1..(last + 1)
        BY <3>3, <3>6
      <4>2. n \in added <=> \A m : Latest(about, n, m) => m \notin added
        BY <3>2, <3>6 DEF Alternates
      <4>3. QED
        BY <3>5, <3>6, <4>1, <4>2
    <3>7. rel \in relations <=> (about # {} /\ Max(about) \in added)
      <4>1. last + 1 \in 1..(last + 1) /\ about = {m \in about : m < last + 1}
        <5>1. \A m \in about : m < last + 1
          BY <3>3
        <5>2. last + 1 \in 1..(last + 1)
          BY <3>3
        <5>3. QED
          BY <5>1, <5>2
      <4>2. rel \in relations <=> \E m : Latest(about, last + 1, m) /\ m \in added
        BY <3>2 DEF Alternates
      <4>3. QED
        BY <3>5, <4>1, <4>2
    <3>8. ASSUME NEW n \in about, NEW previous, previous = {m \in about : m < n}
          PROVE  events[n].action = "relation.added" <=>
                   (previous = {} \/ events[Max(previous)].action # "relation.added")
      <4>1. n \in 1..(last + 1)
        BY <3>3, <3>8
      <4>2. previous # {} => Max(previous) \in about
        BY <3>5, <3>8, <4>1
      <4>3. QED
        BY <3>4, <3>6, <3>8, <4>2
    <3>9. rel \in relations <=>
            (about # {} /\ events[Max(about)].action = "relation.added")
      <4>1. last + 1 \in 1..(last + 1) /\ about = {m \in about : m < last + 1}
        <5>1. \A m \in about : m < last + 1
          BY <3>3
        <5>2. last + 1 \in 1..(last + 1)
          BY <3>3
        <5>3. QED
          BY <5>1, <5>2
      <4>2. about # {} => Max(about) \in about
        BY <3>5, <4>1
      <4>3. QED
        BY <3>3, <3>4, <3>7, <4>2
    <3>10. QED
      BY <3>1, <3>8, <3>9
  <2>2. QED
    BY <2>1 DEF RelationsFollowTrail, RelationEvents
<1>3. QED
  BY <1>1, <1>2, RelationsStep, TypeCorrect, PTL DEF Spec

-----------------------------------------------------------------------------
(***************************************************************************)
(* Stamps.  The invariant follows one issue and one phase through the      *)
(* events about the issue.                                                 *)
(***************************************************************************)

\* about are the positions of the events about the issue, entries those that
\* leave it in the phase and entering those that found it out of it: if the
\* issue is here, in the phase, the stamp is the entry it has stayed since.
Dated(about, entries, entering, here, stamp, last) ==
  /\ last \in Nat /\ about \subseteq 1..last
  /\ IF here THEN /\ stamp \in about \cap entries \cap entering
                  /\ \A m \in about : m > stamp => m \in entries
             ELSE stamp = 0

\* The stamp is the first entry ever.
FirstDated(entries, here, stamp, last) ==
  /\ last \in Nat /\ entries \subseteq 1..last
  /\ here => entries # {}
  /\ IF entries = {} THEN stamp = 0
                     ELSE stamp \in entries /\ \A m \in entries : stamp <= m

LEMMA DatedOn ==
  ASSUME NEW about, NEW entries, NEW entering, NEW here, NEW stamp, NEW last,
         Dated(about, entries, entering, here, stamp, last),
         NEW next, next = last + 1
  PROVE  Dated(about, entries, entering, here, stamp, next)
<1>1. last \in Nat /\ about \subseteq 1..last
  BY DEF Dated
<1>2. next \in Nat /\ about \subseteq 1..next
  BY <1>1
<1>3. QED
  BY <1>2 DEF Dated

LEMMA DatedWrite ==
  ASSUME NEW about, NEW entries, NEW entering, NEW here, NEW stamp, NEW last,
         Dated(about, entries, entering, here, stamp, last),
         NEW next, next = last + 1, NEW now,
         NEW new, new = PhaseStamp(stamp, now, next)
  PROVE  Dated(about \cup {next}, entries \cup (IF now THEN {next} ELSE {}),
               entering \cup (IF here THEN {} ELSE {next}), now, new, next)
<1>1. last \in Nat /\ about \subseteq 1..last
  BY DEF Dated
<1>2. PICK all, inside, came :
        /\ all = about \cup {next} /\ inside = entries \cup (IF now THEN {next} ELSE {})
        /\ came = entering \cup (IF here THEN {} ELSE {next})
  OBVIOUS
<1>3. next \in Nat /\ all \subseteq 1..next /\ next # 0
  BY <1>1, <1>2
<1>4. CASE ~now
  BY <1>2, <1>3, <1>4 DEF Dated, PhaseStamp
<1>5. CASE now /\ ~here
  <2>1. new = next
    BY <1>5 DEF Dated, PhaseStamp
  <2>2. \A m \in all : ~(m > next)
    BY <1>3
  <2>3. next \in all \cap inside \cap came
    BY <1>2, <1>5
  <2>4. QED
    BY <1>2, <1>3, <1>5, <2>1, <2>2, <2>3 DEF Dated
<1>6. CASE now /\ here
  <2>1. stamp \in about \cap entries \cap entering
    BY <1>6 DEF Dated
  <2>2. new = stamp
    <3>1. stamp # 0
      BY <1>1, <2>1
    <3>2. QED
      BY <1>6, <3>1 DEF PhaseStamp
  <2>3. \A m \in all : m > new => m \in inside
    BY <1>2, <1>6, <2>2 DEF Dated
  <2>4. QED
    BY <1>2, <1>3, <1>6, <2>1, <2>2, <2>3 DEF Dated
<1>7. QED
  BY <1>4, <1>5, <1>6

\* Staying in the phase, or out of it, moves no stamp.
LEMMA DatedStays ==
  ASSUME NEW about, NEW entries, NEW entering, NEW here, NEW stamp, NEW last, NEW next,
         Dated(about, entries, entering, here, stamp, last)
  PROVE  stamp = PhaseStamp(stamp, here, next)
<1>1. CASE here
  <2>1. stamp # 0
    BY <1>1 DEF Dated
  <2>2. QED
    BY <1>1, <2>1 DEF PhaseStamp
<1>2. CASE ~here
  BY <1>2 DEF Dated, PhaseStamp
<1>3. QED
  BY <1>1, <1>2

LEMMA FirstDatedOn ==
  ASSUME NEW entries, NEW here, NEW stamp, NEW last, FirstDated(entries, here, stamp, last),
         NEW next, next = last + 1
  PROVE  FirstDated(entries, here, stamp, next)
<1>1. last \in Nat /\ entries \subseteq 1..last
  BY DEF FirstDated
<1>2. next \in Nat /\ entries \subseteq 1..next
  BY <1>1
<1>3. QED
  BY <1>2 DEF FirstDated

LEMMA FirstDatedWrite ==
  ASSUME NEW entries, NEW here, NEW stamp, NEW last, FirstDated(entries, here, stamp, last),
         NEW next, next = last + 1, NEW now,
         NEW new, new = IF now THEN PhaseStamp(stamp, TRUE, next) ELSE stamp
  PROVE  FirstDated(entries \cup (IF now THEN {next} ELSE {}), now, new, next)
<1>1. last \in Nat /\ entries \subseteq 1..last
  BY DEF FirstDated
<1>2. PICK inside : inside = entries \cup (IF now THEN {next} ELSE {})
  OBVIOUS
<1>3. next \in Nat /\ inside \subseteq 1..next /\ \A m \in inside : m <= next
  BY <1>1, <1>2
<1>4. CASE ~now
  BY <1>2, <1>3, <1>4 DEF FirstDated
<1>5. CASE now /\ entries = {}
  <2>1. new = next /\ inside = {next}
    BY <1>2, <1>5 DEF FirstDated, PhaseStamp
  <2>2. QED
    BY <1>2, <1>3, <2>1 DEF FirstDated
<1>6. CASE now /\ entries # {}
  <2>1. stamp \in entries /\ \A m \in entries : stamp <= m
    BY <1>6 DEF FirstDated
  <2>2. stamp # 0 /\ stamp <= next
    BY <1>1, <2>1
  <2>3. new = stamp
    BY <1>6, <2>2 DEF PhaseStamp
  <2>4. QED
    BY <1>2, <1>3, <1>6, <2>1, <2>2, <2>3 DEF FirstDated
<1>7. QED
  BY <1>4, <1>5, <1>6

LEMMA FirstDatedStays ==
  ASSUME NEW entries, NEW stamp, NEW last, NEW next, FirstDated(entries, TRUE, stamp, last)
  PROVE  stamp = PhaseStamp(stamp, TRUE, next)
<1>1. last \in Nat /\ entries \subseteq 1..last /\ stamp \in entries
  BY DEF FirstDated
<1>2. stamp # 0
  BY <1>1
<1>3. QED
  BY <1>2 DEF PhaseStamp

Stamp(row, type) == IF type = "completed" THEN row.completedAt ELSE row.canceledAt

Entering(k, type) == {n \in About(k) : ~InPhase(events[n].before, type)}

StampsOf(k) ==
  /\ \A type \in {"completed", "canceled"} :
       Dated(About(k), Entries(k, type), Entering(k, type),
             InPhase(issues[k], type), Stamp(issues[k], type), Len(events))
  /\ FirstDated(Entries(k, "started"), InPhase(issues[k], "started"),
           issues[k].startedAt, Len(events))

StampsFollow ==
  /\ \A k : \A n \in DOMAIN events : Trail!IsAbout(events[n], k) => k \in Keys
  /\ \A k \in Keys : StampsOf(k)

\* What the status switch does to the stamps of a row.
StampsMove(old, new, now) ==
  LET type == StatusType[new.status] IN
  \/ /\ new.status = old.status /\ new.startedAt = old.startedAt
     /\ \A t \in {"completed", "canceled"} : Stamp(new, t) = Stamp(old, t)
  \/ /\ \A t \in {"completed", "canceled"} :
          Stamp(new, t) = PhaseStamp(Stamp(old, t), type = t, now)
     /\ new.startedAt = IF type = "started" THEN PhaseStamp(old.startedAt, TRUE, now)
                                            ELSE old.startedAt

LEMMA StatusAfterStamps ==
  ASSUME NEW row \in Issue, NEW p, NEW new, new = StatusAfter(row, p)
  PROVE  StampsMove(row, new, Now)
<1>1. CASE Pick(p.status, row.status) = row.status
  <2>1. new = row
    BY <1>1 DEF StatusAfter
  <2>2. QED
    BY <2>1 DEF StampsMove
<1>2. CASE Pick(p.status, row.status) # row.status
  <2>1. PICK status, type : status = Pick(p.status, row.status) /\ type = StatusType[status]
    OBVIOUS
  <2>2. /\ new.status = status
        /\ new.startedAt = IF type = "started" THEN PhaseStamp(row.startedAt, TRUE, Now)
                                               ELSE row.startedAt
        /\ new.completedAt = PhaseStamp(row.completedAt, type = "completed", Now)
        /\ new.canceledAt = PhaseStamp(row.canceledAt, type = "canceled", Now)
    BY <1>2, <2>1 DEF StatusAfter, Issue
  <2>3. QED
    BY <2>1, <2>2 DEF StampsMove, Stamp
<1>3. QED
  BY <1>1, <1>2

\* What a write of an issue does to its stamps.
LEMMA UpdateMovesStamps ==
  ASSUME TypeOK, NEW k \in Keys, NEW p \in Patches, UpdateIssue(k, p)
  PROVE  StampsMove(issues[k], issues'[k], Now)
<1>1. issues[k] \in Issue
  BY DEF TypeOK, Keys
<1>2. PICK m \in MilestonesAfter(issues[k], p) :
        issues' = [issues EXCEPT ![k] = Bumped(Patched(issues[k], p, m))]
  BY DEF UpdateIssue
<1>3. PICK new : new = StatusAfter(issues[k], p)
  OBVIOUS
<1>4. new \in Issue /\ StampsMove(issues[k], new, Now)
  BY <1>1, <1>3, StatusAfterType, StatusAfterStamps
<1>5. PICK row : row = Bumped(Patched(issues[k], p, m))
  OBVIOUS
<1>6. /\ row.status = new.status /\ row.startedAt = new.startedAt
      /\ row.completedAt = new.completedAt /\ row.canceledAt = new.canceledAt
  BY <1>3, <1>4, <1>5 DEF Patched, Bumped, Issue
<1>7. issues'[k] = row
  BY <1>2, <1>5 DEF TypeOK, Keys
<1>8. QED
  BY <1>4, <1>6, <1>7 DEF StampsMove, Stamp

LEMMA AppendMovesStamps ==
  ASSUME TypeOK, NEW k \in Keys, NEW text \in Texts, AppendDescription(k, text)
  PROVE  StampsMove(issues[k], issues'[k], Now)
<1>1. issues[k] \in Issue
  BY DEF TypeOK, Keys
<1>2. PICK row : row = Bumped([issues[k] EXCEPT !.description = Append(@, text)])
  OBVIOUS
<1>3. issues'[k] = row
  BY <1>2 DEF AppendDescription, TypeOK, Keys
<1>4. /\ row.status = issues[k].status /\ row.startedAt = issues[k].startedAt
      /\ row.completedAt = issues[k].completedAt /\ row.canceledAt = issues[k].canceledAt
  BY <1>1, <1>2 DEF Bumped, Issue
<1>5. QED
  BY <1>3, <1>4 DEF StampsMove, Stamp

\* What a step that records adds to the events about an issue.
LEMMA PhaseEventsMove ==
  ASSUME TypeOK, Trail!Extended, NEW k, NEW type, NEW last, last = Len(events) + 1,
         NEW e, e = events'[last], NEW about, about = About(k),
         NEW entries, entries = Entries(k, type),
         NEW entering, entering = Entering(k, type)
  PROVE  /\ Len(events') = last /\ Len(events) \in Nat
         /\ ~Trail!IsAbout(e, k)
            => About(k)' = about /\ Entries(k, type)' = entries
               /\ Entering(k, type)' = entering
         /\ Trail!IsAbout(e, k)
            => /\ About(k)' = about \cup {last}
               /\ Entries(k, type)' =
                    entries \cup (IF InPhase(e.after, type) THEN {last} ELSE {})
               /\ Entering(k, type)' =
                    entering \cup (IF InPhase(e.before, type) THEN {} ELSE {last})
<1>1. Len(events) \in Nat /\ DOMAIN events = 1..Len(events)
  BY DEF TypeOK
<1>2. /\ Len(events') = last /\ DOMAIN events' = DOMAIN events \cup {last}
      /\ \A n \in DOMAIN events : events'[n] = events[n]
      /\ last \notin DOMAIN events
  BY <1>1 DEF Trail!Extended
<1>3. /\ \A n : n \in About(k)' <=> n \in about \/ (n = last /\ Trail!IsAbout(e, k))
      /\ last \notin about /\ \A n \in about : events'[n] = events[n]
  BY <1>2 DEF About, Trail!IsAbout
<1>4. \A n : n \in Entries(k, type)' <=>
        n \in entries \/ (n = last /\ Trail!IsAbout(e, k) /\ InPhase(e.after, type))
  BY <1>3 DEF Entries, InPhase
<1>5. \A n : n \in Entering(k, type)' <=>
        n \in entering \/ (n = last /\ Trail!IsAbout(e, k) /\ ~InPhase(e.before, type))
  BY <1>3 DEF Entering, InPhase
<1>6. CASE ~Trail!IsAbout(e, k)
  BY <1>1, <1>2, <1>3, <1>4, <1>5, <1>6
<1>7. CASE Trail!IsAbout(e, k)
  <2>1. About(k)' = about \cup {last}
    BY <1>3, <1>7
  <2>2. Entries(k, type)' = entries \cup (IF InPhase(e.after, type) THEN {last} ELSE {})
    BY <1>4, <1>7
  <2>3. Entering(k, type)' = entering \cup (IF InPhase(e.before, type) THEN {} ELSE {last})
    BY <1>5, <1>7
  <2>4. QED
    BY <1>1, <1>2, <1>7, <2>1, <2>2, <2>3
<1>8. QED
  BY <1>6, <1>7

\* An issue nobody wrote.
LEMMA UnwrittenStamps ==
  ASSUME TypeOK, NEW k, StampsOf(k), issues'[k] = issues[k],
         \/ events' = events
         \/ /\ Trail!Extended
            /\ ~Trail!IsAbout(events'[Now], k)
  PROVE  StampsOf(k)'
<1>1. CASE events' = events
  BY <1>1 DEF StampsOf, Dated, FirstDated, InPhase, Stamp, About, Entries, Entering
<1>2. CASE Trail!Extended /\ ~Trail!IsAbout(events'[Now], k)
  <2>1. PICK last, row : last = Len(events) + 1 /\ row = issues[k]
    OBVIOUS
  <2>2. ASSUME NEW type
        PROVE  /\ About(k)' = About(k) /\ Entries(k, type)' = Entries(k, type)
               /\ Entering(k, type)' = Entering(k, type) /\ Len(events') = last
    BY <1>2, <2>1, PhaseEventsMove DEF Now
  <2>3. ASSUME NEW type \in {"completed", "canceled"}
        PROVE  Dated(About(k), Entries(k, type), Entering(k, type),
                     InPhase(row, type), Stamp(row, type), last)
    BY <2>1, DatedOn DEF StampsOf
  <2>4. FirstDated(Entries(k, "started"), InPhase(row, "started"), row.startedAt, last)
    BY <2>1, FirstDatedOn DEF StampsOf
  <2>5. ASSUME NEW type \in {"completed", "canceled"}
        PROVE  Dated(About(k), Entries(k, type), Entering(k, type),
                     InPhase(issues[k], type), Stamp(issues[k], type), Len(events))'
    BY <2>1, <2>2, <2>3 DEF Dated, InPhase, Stamp
  <2>6. FirstDated(Entries(k, "started"), InPhase(issues[k], "started"),
              issues[k].startedAt, Len(events))'
    BY <2>1, <2>2, <2>4 DEF FirstDated, InPhase
  <2>7. QED
    BY <2>5, <2>6 DEF StampsOf
<1>3. QED
  BY <1>1, <1>2

\* An issue that was written: the event knows the phase before and after.
LEMMA WrittenStamps ==
  ASSUME TypeOK, Trail!Extended, NEW k, NEW last, last = Len(events) + 1,
         NEW e, e = events'[last], Trail!IsAbout(e, k),
         NEW row, row = issues'[k], NEW old,
         \A type : InPhase(e.after, type) <=> InPhase(row, type),
         \A type \in {"completed", "canceled"} :
           /\ Dated(About(k), Entries(k, type), Entering(k, type),
                    InPhase(e.before, type), Stamp(old, type), Len(events))
           /\ Stamp(row, type) = PhaseStamp(Stamp(old, type), InPhase(row, type), last),
         NEW here, FirstDated(Entries(k, "started"), here, old.startedAt, Len(events)),
         row.startedAt = IF InPhase(row, "started")
                           THEN PhaseStamp(old.startedAt, TRUE, last) ELSE old.startedAt
  PROVE  StampsOf(k)'
<1>1. ASSUME NEW type
      PROVE  /\ About(k)' = About(k) \cup {last}
             /\ Entries(k, type)' =
                  Entries(k, type) \cup (IF InPhase(row, type) THEN {last} ELSE {})
             /\ Entering(k, type)' =
                  Entering(k, type) \cup (IF InPhase(e.before, type) THEN {} ELSE {last})
             /\ Len(events') = last
  BY PhaseEventsMove
<1>2. ASSUME NEW type \in {"completed", "canceled"}
      PROVE  Dated(About(k), Entries(k, type), Entering(k, type),
                   InPhase(issues[k], type), Stamp(issues[k], type), Len(events))'
  <2>1. PICK now, was : now = InPhase(row, type) /\ was = InPhase(e.before, type)
    OBVIOUS
  <2>2. PICK about, entries, entering, len :
          /\ about = About(k) /\ entries = Entries(k, type)
          /\ entering = Entering(k, type) /\ len = Len(events)
    OBVIOUS
  <2>3. /\ Dated(about, entries, entering, was, Stamp(old, type), len)
        /\ Stamp(row, type) = PhaseStamp(Stamp(old, type), now, last)
    BY <2>1, <2>2
  <2>4. Dated(about \cup {last}, entries \cup (IF now THEN {last} ELSE {}),
              entering \cup (IF was THEN {} ELSE {last}), now, Stamp(row, type), last)
    BY <2>2, <2>3, DatedWrite
  <2>5. Dated(About(k)', Entries(k, type)', Entering(k, type)', now, Stamp(row, type), last)
    BY <1>1, <2>1, <2>2, <2>4
  <2>6. QED
    BY <1>1, <2>1, <2>5 DEF Dated, InPhase, Stamp
<1>3. FirstDated(Entries(k, "started"), InPhase(issues[k], "started"),
            issues[k].startedAt, Len(events))'
  <2>1. PICK entries, now, len :
          /\ entries = Entries(k, "started") /\ now = InPhase(row, "started")
          /\ len = Len(events)
    OBVIOUS
  <2>2. /\ FirstDated(entries, here, old.startedAt, len)
        /\ row.startedAt = IF now THEN PhaseStamp(old.startedAt, TRUE, last)
                                  ELSE old.startedAt
    BY <2>1
  <2>3. FirstDated(entries \cup (IF now THEN {last} ELSE {}), now, row.startedAt, last)
    BY <2>1, <2>2, FirstDatedWrite
  <2>4. FirstDated(Entries(k, "started")', now, row.startedAt, last)
    BY <1>1, <2>1, <2>3
  <2>5. QED
    BY <1>1, <2>1, <2>4 DEF FirstDated, InPhase
<1>4. QED
  BY <1>2, <1>3 DEF StampsOf

\* An event about an issue shows the issue.
LEMMA EventShows ==
  ASSUME NEW e \in Event, NEW k, Trail!IsAbout(e, k), NEW row \in Issue,
         Trail!Agree(e.after, row)
  PROVE  \A type : InPhase(e.after, type) <=> InPhase(row, type)
<1>1. e.after # None /\ row # None
  <2>1. e.after \in LoadedIssue
    BY DEF Event, Trail!IsAbout, IssueActions
  <2>2. QED
    BY <2>1, NoneAssumption
<1>2. e.after.status = row.status
  BY DEF Trail!Agree, IssueFields
<1>3. QED
  BY <1>1, <1>2 DEF InPhase

\* A write keeps the stamps with the phases it records.
LEMMA WriteKeepsStamps ==
  ASSUME TypeOK, TypeOK', NEW k \in Keys, StampsOf(k), Trail!Write(k),
         StampsMove(issues[k], issues'[k], Now)
  PROVE  StampsOf(k)'
<1>1. PICK last, e, old, row :
        last = Len(events) + 1 /\ e = events'[last] /\ old = issues[k] /\ row = issues'[k]
  OBVIOUS
<1>2. old \in Issue /\ row \in Issue
  BY <1>1 DEF TypeOK, Trail!Write, Keys
<1>3. /\ Trail!Extended /\ Trail!IsAbout(e, k) /\ e.before # None
      /\ Trail!Agree(e.before, old) /\ Trail!Agree(e.after, row)
  BY <1>1 DEF Trail!Write, Trail!NewEvent
<1>4. e \in Event
  BY <1>1, <1>3 DEF TypeOK, Trail!Extended
<1>5. \A type : InPhase(e.after, type) <=> InPhase(row, type)
  BY <1>2, <1>3, <1>4, EventShows
<1>6. ASSUME NEW type
      PROVE  InPhase(e.before, type) <=> InPhase(old, type)
  BY <1>2, <1>3, NoneAssumption DEF InPhase, Trail!Agree, IssueFields
<1>7. ASSUME NEW type
      PROVE  InPhase(row, type) <=> StatusType[row.status] = type
  BY <1>2, NoneAssumption DEF InPhase
<1>8. ASSUME NEW type
      PROVE  InPhase(old, type) <=> StatusType[old.status] = type
  BY <1>2, NoneAssumption DEF InPhase
<1>9. StampsMove(old, row, last)
  BY <1>1 DEF Now
<1>10. ASSUME NEW type \in {"completed", "canceled"}
       PROVE  /\ Dated(About(k), Entries(k, type), Entering(k, type),
                       InPhase(e.before, type), Stamp(old, type), Len(events))
              /\ Stamp(row, type) = PhaseStamp(Stamp(old, type), InPhase(row, type), last)
  <2>1. Dated(About(k), Entries(k, type), Entering(k, type),
              InPhase(old, type), Stamp(old, type), Len(events))
    BY <1>1 DEF StampsOf
  <2>2. Dated(About(k), Entries(k, type), Entering(k, type),
              InPhase(e.before, type), Stamp(old, type), Len(events))
    BY <1>6, <2>1 DEF Dated
  <2>3. CASE row.status = old.status /\ Stamp(row, type) = Stamp(old, type)
    <3>1. Stamp(old, type) = PhaseStamp(Stamp(old, type), InPhase(old, type), last)
      BY <2>1, DatedStays
    <3>2. QED
      BY <1>7, <1>8, <2>2, <2>3, <3>1 DEF PhaseStamp
  <2>4. CASE Stamp(row, type) =
               PhaseStamp(Stamp(old, type), StatusType[row.status] = type, last)
    BY <1>7, <2>2, <2>4 DEF PhaseStamp
  <2>5. QED
    BY <1>9, <2>3, <2>4 DEF StampsMove
<1>11. row.startedAt = IF InPhase(row, "started")
                         THEN PhaseStamp(old.startedAt, TRUE, last) ELSE old.startedAt
  <2>1. CASE row.status = old.status /\ row.startedAt = old.startedAt
    <3>1. CASE InPhase(old, "started")
      <4>1. FirstDated(Entries(k, "started"), TRUE, old.startedAt, Len(events))
        BY <1>1, <3>1 DEF StampsOf, FirstDated
      <4>2. QED
        BY <2>1, <4>1, FirstDatedStays
    <3>2. CASE ~InPhase(old, "started")
      BY <1>7, <1>8, <2>1, <3>2
    <3>3. QED
      BY <3>1, <3>2
  <2>2. CASE row.startedAt = IF StatusType[row.status] = "started"
                               THEN PhaseStamp(old.startedAt, TRUE, last)
                               ELSE old.startedAt
    BY <1>7, <2>2
  <2>3. QED
    BY <1>9, <2>1, <2>2 DEF StampsMove
<1>12. FirstDated(Entries(k, "started"), InPhase(old, "started"), old.startedAt, Len(events))
  BY <1>1 DEF StampsOf
<1>13. QED
  BY <1>1, <1>3, <1>5, <1>10, <1>11, <1>12, WrittenStamps

\* A new issue has the stamps of the phase it begins in.
LEMMA CreateGivesStamps ==
  ASSUME TypeOK, TypeOK', NEW in \in NewIssues, CreateIssue(in), NEW key, key = NewKey,
         About(key) = {}
  PROVE  StampsOf(key)'
<1>1. PICK last, e, row, type :
        /\ last = Len(events) + 1 /\ e = events'[last] /\ row = issues'[key]
        /\ type = StatusType[in.status]
  OBVIOUS
<1>2. Trail!Create(key) /\ key \in DOMAIN issues'
  BY CreateIssueTrail
<1>3. row \in Issue
  BY <1>1, <1>2 DEF TypeOK
<1>4. /\ Trail!Extended /\ Trail!IsAbout(e, key) /\ e.before = None
      /\ Trail!Agree(e.after, row)
  BY <1>1, <1>2 DEF Trail!Create, Trail!NewEvent
<1>5. e \in Event
  BY <1>1, <1>4 DEF TypeOK, Trail!Extended
<1>6. \A t : InPhase(e.after, t) <=> InPhase(row, t)
  BY <1>3, <1>4, <1>5, EventShows
<1>7. /\ row.status = in.status
      /\ row.startedAt = PhaseStamp(0, type = "started", last)
      /\ row.completedAt = PhaseStamp(0, type = "completed", last)
      /\ row.canceledAt = PhaseStamp(0, type = "canceled", last)
  BY <1>1 DEF CreateIssue, Now
<1>8. ASSUME NEW t
      PROVE  InPhase(row, t) <=> type = t
  BY <1>1, <1>3, <1>7, NoneAssumption DEF InPhase
<1>9. PICK old : old = [startedAt |-> 0, completedAt |-> 0, canceledAt |-> 0]
  OBVIOUS
<1>10. Len(events) \in Nat /\ \A t : Entries(key, t) = {}
  BY DEF TypeOK, Entries
<1>11. ASSUME NEW t \in {"completed", "canceled"}
       PROVE  /\ Dated(About(key), Entries(key, t), Entering(key, t),
                       InPhase(e.before, t), Stamp(old, t), Len(events))
              /\ Stamp(row, t) = PhaseStamp(Stamp(old, t), InPhase(row, t), last)
  <2>1. Stamp(old, t) = 0 /\ ~InPhase(e.before, t)
    BY <1>4, <1>9 DEF Stamp, InPhase
  <2>2. Stamp(row, t) = PhaseStamp(0, InPhase(row, t), last)
    BY <1>7, <1>8 DEF Stamp, PhaseStamp
  <2>3. QED
    BY <1>10, <2>1, <2>2 DEF Dated
<1>12. FirstDated(Entries(key, "started"), FALSE, old.startedAt, Len(events))
  BY <1>9, <1>10 DEF FirstDated
<1>13. row.startedAt = IF InPhase(row, "started")
                         THEN PhaseStamp(old.startedAt, TRUE, last) ELSE old.startedAt
  BY <1>7, <1>8, <1>9 DEF PhaseStamp
<1>14. QED
  BY <1>1, <1>4, <1>6, <1>11, <1>12, <1>13, WrittenStamps

\* Events are about issues that exist.
LEMMA AboutExisting ==
  ASSUME TypeOK, StampsFollow, Trail!Extended, Keys \subseteq Keys',
         \A k : Trail!IsAbout(events'[Now], k) => k \in Keys'
  PROVE  (\A k : \A n \in DOMAIN events : Trail!IsAbout(events[n], k) => k \in Keys)'
<1>1. Len(events) \in Nat /\ DOMAIN events = 1..Len(events)
  BY DEF TypeOK
<1>2. PICK last : last = Len(events) + 1
  OBVIOUS
<1>3. ASSUME NEW n \in DOMAIN events', NEW k, Trail!IsAbout(events'[n], k)
      PROVE  k \in Keys'
  <2>1. CASE n = last
    BY <1>2, <1>3, <2>1 DEF Now
  <2>2. CASE n # last
    <3>1. n \in DOMAIN events /\ events'[n] = events[n]
      BY <1>1, <1>2, <2>2 DEF Trail!Extended
    <3>2. QED
      BY <1>3, <3>1 DEF StampsFollow
  <2>3. QED
    BY <2>1, <2>2
<1>4. QED
  BY <1>3 DEF Trail!IsAbout

\* A write of issue k leaves the stamps of the others alone.
LEMMA OneWritten ==
  ASSUME TypeOK, StampsFollow, Trail!Extended, NEW k, NEW keys, keys = Keys \cup {k},
         Keys' = keys, Trail!IsAbout(events'[Now], k), StampsOf(k)',
         \A j \in Keys \ {k} : issues'[j] = issues[j]
  PROVE  StampsFollow'
<1>1. ASSUME NEW j \in keys
      PROVE  StampsOf(j)'
  <2>1. CASE j = k
    BY <2>1
  <2>2. CASE j # k
    <3>1. ~Trail!IsAbout(events'[Now], j)
      BY <2>2 DEF Trail!IsAbout
    <3>2. j \in Keys /\ issues'[j] = issues[j] /\ StampsOf(j)
      BY <2>2 DEF StampsFollow
    <3>3. QED
      BY <3>1, <3>2, UnwrittenStamps
  <2>3. QED
    BY <2>1, <2>2
<1>2. \A j : Trail!IsAbout(events'[Now], j) => j \in Keys'
  BY DEF Trail!IsAbout
<1>3. (\A j : \A n \in DOMAIN events : Trail!IsAbout(events[n], j) => j \in Keys)'
  BY <1>2, AboutExisting
<1>4. QED
  BY <1>1, <1>3 DEF StampsFollow

LEMMA StampsStep == TypeOK /\ StampsFollow /\ [Next]_vars => StampsFollow'
<1> SUFFICES ASSUME TypeOK, StampsFollow, [Next]_vars
             PROVE  StampsFollow'
  OBVIOUS
<1>1. TypeOK'
  BY NextTypeOK
<1>2. ASSUME NEW in \in NewIssues, CreateIssue(in)
      PROVE  StampsFollow'
  <2>1. PICK key : key = NewKey
    OBVIOUS
  <2>2. /\ key \notin Keys /\ DOMAIN issues' = Keys \cup {key}
        /\ \A j \in Keys : issues'[j] = issues[j]
    BY <1>2, <2>1, CreatedRow
  <2>3. About(key) = {}
    BY <2>2 DEF StampsFollow, About
  <2>4. StampsOf(key)'
    BY <1>1, <1>2, <2>1, <2>3, CreateGivesStamps
  <2>5. Trail!Create(key)
    BY <1>2, <2>1, CreateIssueTrail
  <2>6. Trail!Extended /\ Trail!IsAbout(events'[Now], key)
    BY <2>5 DEF Trail!Create, Trail!NewEvent, Now
  <2>7. Keys' = Keys \cup {key}
    BY <2>2 DEF Keys
  <2>8. QED
    BY <2>2, <2>4, <2>6, <2>7, OneWritten
<1>3. ASSUME NEW k \in Keys, Trail!Write(k), StampsMove(issues[k], issues'[k], Now),
             Keys' = Keys, \A j \in Keys \ {k} : issues'[j] = issues[j]
      PROVE  StampsFollow'
  <2>1. StampsOf(k)
    BY DEF StampsFollow
  <2>2. StampsOf(k)'
    BY <1>1, <1>3, <2>1, WriteKeepsStamps
  <2>3. Trail!Extended /\ Trail!IsAbout(events'[Now], k)
    BY <1>3 DEF Trail!Write, Trail!NewEvent, Now
  <2>4. Keys = Keys \cup {k}
    OBVIOUS
  <2>5. QED
    BY <1>3, <2>2, <2>3, <2>4, OneWritten
<1>4. ASSUME NEW k \in Keys, NEW p \in Patches, UpdateIssue(k, p)
      PROVE  StampsFollow'
  <2>1. Keys' = Keys /\ \A j \in Keys \ {k} : issues'[j] = issues[j]
    BY <1>4, UpdatedRow DEF Keys
  <2>2. QED
    BY <1>3, <1>4, <2>1, UpdateIssueTrail, UpdateMovesStamps
<1>5. ASSUME NEW k \in Keys, NEW text \in Texts, AppendDescription(k, text)
      PROVE  StampsFollow'
  <2>1. Keys' = Keys /\ \A j \in Keys \ {k} : issues'[j] = issues[j]
    BY <1>5, AppendedRow DEF Keys
  <2>2. QED
    BY <1>3, <1>5, <2>1, AppendDescriptionTrail, AppendMovesStamps
<1>6. CASE NoIssueStep
  <2>1. issues' = issues /\ Keys' = Keys
    BY <1>6, NoIssueStepKeepsIssues DEF Keys
  <2>2. \/ events' = events
        \/ /\ Trail!Extended
           /\ \A j : ~Trail!IsAbout(events'[Now], j)
    BY <1>6, NoIssueStepRecordsElsewhere
    DEF Trail!Elsewhere, Trail!NewEvent, Trail!IsAbout, Trail!vars, Now
  <2>3. ASSUME NEW j \in Keys
        PROVE  StampsOf(j)'
    BY <2>1, <2>2, UnwrittenStamps DEF StampsFollow
  <2>4. (\A k : \A n \in DOMAIN events : Trail!IsAbout(events[n], k) => k \in Keys)'
    <3>1. CASE events' = events
      BY <2>1, <3>1 DEF StampsFollow, Trail!IsAbout
    <3>2. CASE Trail!Extended /\ \A j : ~Trail!IsAbout(events'[Now], j)
      BY <2>1, <3>2, AboutExisting
    <3>3. QED
      BY <2>2, <3>1, <3>2
  <2>5. QED
    BY <2>1, <2>3, <2>4 DEF StampsFollow
<1>7. QED
  BY <1>2, <1>4, <1>5, <1>6, NextCases DEF IssueNext

\* What the invariant says of one issue is what the stamps promise.
LEMMA StampsTell ==
  ASSUME NEW k, StampsOf(k)
  PROVE  LET row == issues[k] IN
         /\ IF InPhase(row, "completed")
              THEN LastEntry(k, "completed", row.completedAt)
              ELSE row.completedAt = 0
         /\ IF InPhase(row, "canceled")
              THEN LastEntry(k, "canceled", row.canceledAt)
              ELSE row.canceledAt = 0
         /\ row.startedAt = IF Entries(k, "started") = {} THEN 0
                            ELSE CHOOSE n \in Entries(k, "started") :
                                   \A m \in Entries(k, "started") : n <= m
<1>1. ASSUME NEW type \in {"completed", "canceled"}
      PROVE  IF InPhase(issues[k], type)
               THEN LastEntry(k, type, Stamp(issues[k], type))
               ELSE Stamp(issues[k], type) = 0
  BY DEF StampsOf, Dated, LastEntry, Entering
<1>2. Stamp(issues[k], "completed") = issues[k].completedAt
      /\ Stamp(issues[k], "canceled") = issues[k].canceledAt
  BY DEF Stamp
<1>3. issues[k].startedAt = IF Entries(k, "started") = {} THEN 0
                            ELSE CHOOSE n \in Entries(k, "started") :
                                   \A m \in Entries(k, "started") : n <= m
  <2>1. PICK entries, stamp, last :
          entries = Entries(k, "started") /\ stamp = issues[k].startedAt /\ last = Len(events)
    OBVIOUS
  <2>2. PICK here : FirstDated(entries, here, stamp, last)
    BY <2>1 DEF StampsOf
  <2>3. CASE entries = {}
    BY <2>1, <2>2, <2>3 DEF FirstDated
  <2>4. CASE entries # {}
    <3>1. last \in Nat /\ entries \subseteq 1..last
      BY <2>2 DEF FirstDated
    <3>2. stamp \in entries /\ \A m \in entries : stamp <= m
      BY <2>2, <2>4 DEF FirstDated
    <3>3. PICK first : first = CHOOSE n \in entries : \A m \in entries : n <= m
      OBVIOUS
    <3>4. first \in entries /\ \A m \in entries : first <= m
      BY <3>2, <3>3
    <3>5. first = stamp
      <4>1. first \in Nat /\ stamp \in Nat /\ first <= stamp /\ stamp <= first
        BY <3>1, <3>2, <3>4
      <4>2. QED
        BY <4>1
    <3>6. QED
      BY <2>1, <2>4, <3>3, <3>5
  <2>5. QED
    BY <2>3, <2>4
<1>4. QED
  BY <1>1, <1>2, <1>3

\* The stamps of an issue tell when it entered its phase, however often its
\* status changed (CreateIssue, UpdateIssue).
THEOREM StampsTellHistory == Spec => []StampsFollowHistory
<1>1. ASSUME Init
      PROVE  StampsFollow
  BY <1>1 DEF Init, StampsFollow, Keys
<1>2. StampsFollow => StampsFollowHistory
  BY StampsTell DEF StampsFollow, StampsFollowHistory
<1>3. QED
  BY <1>1, <1>2, StampsStep, TypeCorrect, PTL DEF Spec
=============================================================================
