--------------------------- MODULE IssueProperties ---------------------------
(***************************************************************************)
(* What the issue tables promise.  The audit trail is stated once, in      *)
(* AuditedRows, and instantiated for issues, comments and milestones.      *)
(***************************************************************************)
EXTENDS IssueStore, SequencesExt

\* The columns of an issue the trail follows: all but the milestone, which
\* events spell by the name it had at the time.
IssueFields ==
  {"details", "description", "status", "project", "parent", "labels",
   "startedAt", "completedAt", "canceledAt", "archivedAt", "version"}

IssueActions == {"issue.created", "issue.updated"}

Trail == INSTANCE AuditedRows WITH
  rows <- issues, log <- events, NoRow <- None,
  Fields <- IssueFields, Actions <- IssueActions

CommentTrail == INSTANCE AuditedRows WITH
  rows <- comments, log <- events, NoRow <- None,
  Fields <- {"issue", "body", "parent"},
  Actions <- {"comment.created", "comment.updated"}

MilestoneTrail == INSTANCE AuditedRows WITH
  rows <- milestones, log <- events, NoRow <- None,
  Fields <- {"project", "name", "archivedAt"},
  Actions <- {"milestone.created", "milestone.updated"}

-----------------------------------------------------------------------------
\* An issue as events show it.
LoadedIssue ==
  [details: Details, description: Seq(Texts), status: Statuses,
   project: Projects \cup {None}, milestone: MilestoneNames \cup {None},
   parent: Nat, labels: SUBSET Labels, startedAt: Nat, completedAt: Nat,
   canceledAt: Nat, archivedAt: Nat, version: Nat]

GroupSetting == [value: SUBSET SUBSET Labels]

\* The empty "before" of a created row is no row.
ASSUME NoneAssumption ==
  None \notin Issue \cup LoadedIssue \cup Comment \cup Milestone

Event ==
  [action: IssueActions, row: Nat,
   before: LoadedIssue \cup {None}, after: LoadedIssue]
  \cup [action: {"comment.created", "comment.updated"}, row: Nat,
        before: Comment \cup {None}, after: Comment]
  \cup [action: {"relation.added", "relation.removed"}, row: Nat,
        before: Relation \cup {None}, after: Relation \cup {None}]
  \cup [action: {"milestone.created", "milestone.updated"}, row: Nat,
        before: Milestone \cup {None}, after: Milestone]
  \cup [action: {"setting.updated"}, row: Nat,
        before: GroupSetting, after: GroupSetting]

\* Each table holds rows of its type under ids handed out without a gap:
\* issues under the numbers issue_seq has reached, so a key is never used
\* twice, comments and milestones in insertion order.
TypeOK ==
  /\ issueSeq \in Nat
  /\ issues \in [1..issueSeq -> Issue]
  /\ comments \in Seq(Comment)
  /\ relations \subseteq Relation
  /\ milestones \in Seq(Milestone)
  /\ labels \subseteq Labels
  /\ groups \subseteq SUBSET Labels
  /\ spent \subseteq {"issue", "comment"} \X IdemKeys \X Nat
  /\ events \in Seq(Event)

\* Every write of an issue is one step that records the row before and after
\* it, and nothing else touches the row (CreateIssue, UpdateIssue,
\* AppendDescription; comments, relations, milestones and settings must not).
IssuesAudited == Trail!Spec

\* The same of issues, of comments, where an edit keeps the original in the
\* audit trail (AddComment, UpdateComment), and of milestones (CreateMilestone,
\* UpdateMilestone), all of them in one log.
RowsAudited == IssuesAudited /\ CommentTrail!Spec /\ MilestoneTrail!Spec

\* The trail of an issue, read from the event that created it, is its whole
\* history: each event starts where the one before it ended, and the row
\* stands where the last one left it.
IssueTrail == Trail!AuditTrail

\* A version names one state of an issue for ever: along the trail of an issue
\* the versions only go up, so a writer whose expected_version matches has seen
\* the latest write (UpdateIssue's check against the row it loaded).
VersionsNeverReused ==
  \A m, n \in DOMAIN events :
    m < n /\ Trail!IsAbout(events[m], events[m].row)
          /\ Trail!IsAbout(events[n], events[m].row)
      => events[m].after.version < events[n].after.version

-----------------------------------------------------------------------------
\* The events about issue k whose row was in a status of the given type.
About(k) == {n \in DOMAIN events : Trail!IsAbout(events[n], k)}

InPhase(row, type) == row # None /\ StatusType[row.status] = type

Entries(k, type) == {n \in About(k) : InPhase(events[n].after, type)}

\* n is the write that took issue k into the phase it has been in ever since.
LastEntry(k, type, n) ==
  /\ n \in Entries(k, type)
  /\ ~InPhase(events[n].before, type)
  /\ \A m \in About(k) : m > n => m \in Entries(k, type)

\* completed_at and canceled_at are the moment the issue last entered that
\* phase and empty when it has left it; started_at is the moment it was first
\* started, whatever happened since (the status switch of UpdateIssue and the
\* stamps of CreateIssue).
StampsFollowHistory ==
  \A k \in Keys :
    LET row == issues[k] IN
    /\ IF InPhase(row, "completed")
         THEN LastEntry(k, "completed", row.completedAt)
         ELSE row.completedAt = 0
    /\ IF InPhase(row, "canceled")
         THEN LastEntry(k, "canceled", row.canceledAt)
         ELSE row.canceledAt = 0
    /\ row.startedAt = IF Entries(k, "started") = {} THEN 0
                       ELSE CHOOSE n \in Entries(k, "started") :
                              \A m \in Entries(k, "started") : n <= m

-----------------------------------------------------------------------------
\* No issue is above itself: in every set of issues one has its parent outside
\* the set (parentIssueID refuses an edge that closes a loop).
HierarchyAcyclic ==
  \A set \in SUBSET Keys :
    set # {} => \E k \in set : issues[k].parent \notin set

\* An issue's milestone belongs to the issue's project, whatever moved the
\* issue between projects (UpdateIssue clears what no longer applies).
MilestoneInProject ==
  \A k \in Keys :
    issues[k].milestone # 0 =>
      /\ issues[k].milestone \in DOMAIN milestones
      /\ milestones[issues[k].milestone].project = issues[k].project

\* An issue, archived or not, holds at most one label of each exclusive group,
\* whichever of the labels and the setting was written last.
ExclusiveLabels ==
  \A k \in Keys : AtMostOnePerGroup(issues[k].labels, groups)

\* The events about one relation alternate between added and removed, and the
\* relation is there exactly when the last of them says so: no call that
\* changed nothing is on record, and none that did is missing.
RelationsFollowTrail ==
  \A rel \in [from: Keys, type: RelationTypes, to: Keys] :
    LET about == {n \in DOMAIN events :
                    \/ events[n].action = "relation.added" /\ events[n].after = rel
                    \/ events[n].action = "relation.removed" /\ events[n].before = rel}
        added(n) == events[n].action = "relation.added"
        previous(n) == {m \in about : m < n}
    IN /\ \A n \in about :
            added(n) <=> (previous(n) = {} \/ ~added(Max(previous(n))))
       /\ rel \in relations <=> (about # {} /\ added(Max(about)))

-----------------------------------------------------------------------------
\* "issue cannot relate to itself" (issues.go:739).
NoSelfRelation == \A rel \in relations : rel.from # rel.to

\* Milestone lookups are case-insensitive and "Milestone names are unique among
\* a project's unarchived milestones" (docs/CONCEPTS.md), so a name in a
\* request means at most one milestone.
MilestoneNameMeansOne ==
  \A project \in Projects, name \in MilestoneNames :
    Cardinality(MilestonesNamed(project, <<"name", name>>)) <= 1
=============================================================================
