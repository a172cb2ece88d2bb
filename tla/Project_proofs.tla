---------------------------- MODULE Project_proofs ----------------------------
(***************************************************************************)
(* Theorems about projects, for any number of them and any requests.  The  *)
(* writes of the issue tables leave projects alone, and their events are   *)
(* about other rows; so each proof treats a create, an update, an import   *)
(* and, where the setting matters, a change of the label groups.           *)
(***************************************************************************)
EXTENDS ProjectProperties, IssueStore_proofs

USE ProjectAssumption

-----------------------------------------------------------------------------
(***************************************************************************)
(* What the steps do to projects and to the events about them.             *)
(***************************************************************************)

\* The events are a list, whatever is in it.
EventsListed ==
  /\ Len(events) \in Nat
  /\ events \in [1..Len(events) -> {events[n] : n \in DOMAIN events}]

ProjectsTyped == projects \in Seq(Project) /\ EventsListed

LEMMA RecordListed ==
  ASSUME EventsListed, NEW action, NEW row, NEW before, NEW after,
         Record(action, row, before, after)
  PROVE  /\ EventsListed' /\ Len(events') = Len(events) + 1
         /\ \A n \in DOMAIN events : events'[n] = events[n]
         /\ events'[Len(events) + 1] =
              [action |-> action, row |-> row, before |-> before, after |-> after]
  <1> DEFINE new == [action |-> action, row |-> row, before |-> before, after |-> after]
             kinds == {events[n] : n \in DOMAIN events} \cup {new}
  <1>1. events' = Append(events, new)
    BY DEF Record
  <1> HIDE DEF new
  <1>2. events \in Seq(kinds) /\ new \in kinds
    <2>1. PICK length \in Nat : length = Len(events)
      BY DEF EventsListed
    <2>2. DOMAIN events = 1..length /\ events \in [1..length -> {events[n] : n \in DOMAIN events}]
      BY <2>1 DEF EventsListed
    <2>3. events \in [1..length -> kinds]
      BY <2>2
    <2> QED
      BY <2>1, <2>3
  <1> HIDE DEF kinds
  <1>3. /\ events' \in Seq(kinds) /\ Len(events') = Len(events) + 1
        /\ \A n \in DOMAIN events : events'[n] = events[n]
        /\ events'[Len(events) + 1] = new
    BY <1>1, <1>2
  <1>4. EventsListed'
    <2>1. Len(events') \in Nat /\ events' \in [1..Len(events') -> kinds]
      BY <1>3
    <2> QED
      BY <2>1 DEF EventsListed
  <1> QED
    BY <1>3, <1>4 DEF new

\* What a write elsewhere records is not about a project.
RecordsElsewhere ==
  \E action, row, before, after :
    action \notin ProjectActions /\ Record(action, row, before, after)

LEMMA IssueStepElsewhere ==
  ASSUME IssueStep
  PROVE  events' = events \/ RecordsElsewhere
  <1>1. \A action \in {"issue.created", "issue.updated", "comment.created",
                       "comment.updated", "relation.added", "relation.removed",
                       "milestone.created", "milestone.updated", "setting.updated"} :
          action \notin ProjectActions
    BY DEF ProjectActions
  <1>2. ASSUME NEW in, CreateIssue(in)
        PROVE  RecordsElsewhere
    BY <1>1, <1>2 DEF CreateIssue, RecordsElsewhere
  <1>3. ASSUME NEW k, NEW p, UpdateIssue(k, p)
        PROVE  RecordsElsewhere
    BY <1>1, <1>3 DEF UpdateIssue, RecordsElsewhere
  <1>4. ASSUME NEW k, NEW text, AppendDescription(k, text)
        PROVE  RecordsElsewhere
    BY <1>1, <1>4 DEF AppendDescription, RecordsElsewhere
  <1>5. CASE CommentNext
    BY <1>1, <1>5 DEF CommentNext, AddComment, UpdateComment, RecordsElsewhere
  <1>6. CASE RelationNext
    BY <1>1, <1>6 DEF RelationNext, AddRelation, RemoveRelation, RecordsElsewhere
  <1>7. ASSUME NEW project, NEW name, CreateMilestone(project, name)
        PROVE  RecordsElsewhere
    BY <1>1, <1>7 DEF CreateMilestone, RecordsElsewhere
  <1>8. ASSUME NEW id, NEW p, UpdateMilestone(id, p)
        PROVE  RecordsElsewhere
    BY <1>1, <1>8 DEF UpdateMilestone, RecordsElsewhere
  <1>9. ASSUME NEW l, EnsureLabel(l)
        PROVE  events' = events
    BY <1>9 DEF EnsureLabel
  <1>10. ASSUME NEW value, UpdateLabelGroups(value)
         PROVE  RecordsElsewhere
    BY <1>1, <1>10 DEF UpdateLabelGroups, RecordsElsewhere
  <1> QED
    BY <1>2, <1>3, <1>4, <1>5, <1>6, <1>7, <1>8, <1>9, <1>10 DEF IssueStep

LEMMA ElsewhereKeepsEvents ==
  ASSUME EventsListed, RecordsElsewhere
  PROVE  /\ EventsListed' /\ Len(events') = Len(events) + 1
         /\ \A n \in DOMAIN events : events'[n] = events[n]
         /\ events'[Len(events) + 1].action \notin ProjectActions
  <1>1. PICK action, row, before, after :
          action \notin ProjectActions /\ Record(action, row, before, after)
    BY DEF RecordsElsewhere
  <1>2. /\ EventsListed' /\ Len(events') = Len(events) + 1
        /\ \A n \in DOMAIN events : events'[n] = events[n]
        /\ events'[Len(events) + 1] =
             [action |-> action, row |-> row, before |-> before, after |-> after]
    BY <1>1, RecordListed
  <1> QED
    BY <1>1, <1>2

\* The row a create adds.
LEMMA CreatedProject ==
  ASSUME ProjectsTyped, NEW in \in NewProjects, CreateProject(in)
  PROVE  \E row \in Project :
           /\ projects' = Append(projects, row)
           /\ Record("project.created", Len(projects) + 1, None, row)
           /\ ProjectNameFree(row.name, 0) /\ Slugged(row.slug) = {}
           /\ row.labels = in.labels /\ row.status = in.status
           /\ row.completedAt = PhaseStamp(0, in.status = "completed", Now)
  <1>1. in \in NewProject
    OBVIOUS
  <1>2. Now \in Nat
    BY DEF ProjectsTyped, EventsListed, Now
  <1>3. PhaseStamp(0, in.status = "completed", Now) \in Nat
    BY <1>2, PhaseStampType
  <1>4. SlugOf[in.name] \in Projects \cup {None}
    BY <1>1 DEF NewProject
  <1> DEFINE slug == IF in.slug = None THEN SlugOf[in.name] ELSE in.slug
             row == [name |-> in.name, slug |-> slug, details |-> in.details,
                     status |-> in.status,
                     completedAt |-> PhaseStamp(0, in.status = "completed", Now),
                     archivedAt |-> 0, labels |-> in.labels]
  <1>5. slug # None /\ slug \in Projects /\ Slugged(slug) = {}
    BY <1>1, <1>4 DEF CreateProject, NewProject, SlugFree
  <1>6. row \in Project
    BY <1>1, <1>3, <1>5 DEF NewProject, Project
  <1>7. /\ projects' = Append(projects, row)
        /\ Record("project.created", Len(projects) + 1, None, row)
        /\ ProjectNameFree(in.name, 0)
    BY DEF CreateProject
  <1> QED
    BY <1>5, <1>6, <1>7

\* The row an update leaves.
LEMMA UpdatedProject ==
  ASSUME ProjectsTyped, NEW slug, NEW p \in ProjectPatches, UpdateProject(slug, p)
  PROVE  \E id \in ProjectIds : \E row \in Project :
           /\ projects' = [projects EXCEPT ![id] = row]
           /\ Record("project.updated", id, projects[id], row)
           /\ row.slug = projects[id].slug
           /\ row.name = projects[id].name \/ ProjectNameFree(row.name, id)
           /\ LabelsAccepted(p.labels, p.add, p.remove)
           /\ row.labels = LabelsAfter(projects[id].labels, p.labels, p.add, p.remove)
           /\ row.status = Pick(p.status, projects[id].status)
           /\ row.completedAt = CompletedAfter(projects[id], p)
  <1>1. PICK id \in Slugged(slug) :
          /\ p.name # Keep => ProjectNameFree(p.name, id)
          /\ LabelsAccepted(p.labels, p.add, p.remove)
          /\ projects' = [projects EXCEPT ![id] = ProjectPatched(projects[id], p)]
          /\ Record("project.updated", id, projects[id], ProjectPatched(projects[id], p))
    BY DEF UpdateProject
  <1>2. id \in ProjectIds /\ projects[id] \in Project
    BY DEF Slugged, ProjectIds, ProjectsTyped
  <1>3. p \in ProjectPatch
    OBVIOUS
  <1>4. Now \in Nat
    BY DEF ProjectsTyped, EventsListed, Now
  <1>5. CompletedAfter(projects[id], p) \in Nat
    BY <1>2, <1>4, PhaseStampType DEF CompletedAfter, Project
  <1>6. PICK labelled : labelled = LabelsAfter(projects[id].labels, p.labels, p.add, p.remove)
    OBVIOUS
  <1>7. labelled \in SUBSET Labels
    BY <1>2, <1>3, <1>6 DEF LabelsAfter, Pick, Project, ProjectPatch
  <1>8. PICK archived :
          archived = IF p.archived = Keep THEN projects[id].archivedAt
                     ELSE PhaseStamp(projects[id].archivedAt, p.archived, Now)
    OBVIOUS
  <1>9. archived \in Nat
    BY <1>2, <1>4, <1>8, PhaseStampType DEF Project
  <1>10. PICK row : row = ProjectPatched(projects[id], p)
    OBVIOUS
  <1>11. row = [projects[id] EXCEPT
                  !.name = Pick(p.name, @), !.details = Pick(p.details, @),
                  !.status = Pick(p.status, @),
                  !.completedAt = CompletedAfter(projects[id], p),
                  !.archivedAt = archived, !.labels = labelled]
    BY <1>6, <1>8, <1>10 DEF ProjectPatched
  <1>12. /\ row \in Project /\ row.slug = projects[id].slug
         /\ row.name = Pick(p.name, projects[id].name)
         /\ row.status = Pick(p.status, projects[id].status)
         /\ row.completedAt = CompletedAfter(projects[id], p)
         /\ row.labels = labelled
    BY <1>2, <1>3, <1>5, <1>7, <1>9, <1>11 DEF Project, ProjectPatch, Pick
  <1>13. row.name = projects[id].name \/ ProjectNameFree(row.name, id)
    BY <1>1, <1>12 DEF Pick
  <1> QED
    BY <1>1, <1>2, <1>6, <1>10, <1>12, <1>13

\* Slugs are told apart one after the other, so no two are the same.
LEMMA ImportSlugsDiffer ==
  ASSUME NEW names, NEW slugs \in ImportSlugs(names), DOMAIN names \subseteq Nat,
         NEW i \in DOMAIN names, NEW j \in DOMAIN names, 1 <= i, i < j
  PROVE  slugs[i] # slugs[j]
  <1> DEFINE used == {slugs[k] : k \in 1..(j - 1)}
  <1>1. PICK base : AsSlug(slugs[j], base, used)
    BY DEF ImportSlugs
  <1>2. slugs[j] \notin used
    BY <1>1 DEF AsSlug
  <1>3. i \in 1..(j - 1)
    OBVIOUS
  <1> QED
    BY <1>2, <1>3

\* What an import leaves: projects of one kind with slugs of their own, and no
\* event about any of them.
LEMMA ImportedProjects ==
  ASSUME NEW csv \in LinearImports, ImportLinear(csv)
  PROVE  /\ projects' \in Seq(Project) /\ EventsListed'
         /\ \A n \in DOMAIN events' : events'[n].action \notin ProjectActions
         /\ \A id \in ProjectIds' : /\ projects'[id].labels = {}
                                    /\ projects'[id].status = "planned"
                                    /\ projects'[id].completedAt = 0
         /\ \A i, j \in ProjectIds' : projects'[i].slug = projects'[j].slug => i = j
  <1>1. /\ csv.names \in Seq(ProjectNames) /\ csv.details \in Details
        /\ csv.issues \in Seq([row: Issue, of: Nat])
    BY DEF LinearImport
  <1>2. PICK length \in Nat, issued \in Nat :
          length = Len(csv.names) /\ issued = Len(csv.issues)
    BY <1>1
  <1>3. DOMAIN csv.names = 1..length /\ DOMAIN csv.issues = 1..issued
    BY <1>1, <1>2
  <1>4. PICK slugs \in ImportSlugs(csv.names) :
          projects' = [k \in 1..length |->
            [name |-> csv.names[k], slug |-> slugs[k], details |-> csv.details,
             status |-> "planned", completedAt |-> 0, archivedAt |-> 0,
             labels |-> {}]]
    BY <1>3 DEF ImportLinear
  <1>5. \A k \in 1..length : slugs[k] \in Projects /\ csv.names[k] \in ProjectNames
    BY <1>1, <1>3, <1>4 DEF ImportSlugs
  <1>6. projects' \in [1..length -> Project]
    BY <1>1, <1>4, <1>5 DEF Project
  <1>7. projects' \in Seq(Project)
    BY <1>2, <1>6
  <1>8. events' = [k \in 1..issued |->
          [action |-> "issue.imported", row |-> k, before |-> None, after |-> None]]
    BY <1>3 DEF ImportLinear
  <1>9. EventsListed'
    <2>1. Len(events') = issued
      BY <1>2, <1>8
    <2> QED
      BY <1>2, <1>8, <2>1 DEF EventsListed
  <1>10. \A n \in DOMAIN events' : events'[n].action \notin ProjectActions
    BY <1>8 DEF ProjectActions
  <1>11. ASSUME NEW i \in 1..length, NEW j \in 1..length, slugs[i] = slugs[j]
         PROVE  i = j
    <2>1. DOMAIN csv.names \subseteq Nat /\ i \in DOMAIN csv.names /\ j \in DOMAIN csv.names
      BY <1>3
    <2>2. ~(i < j)
      BY <1>11, <2>1, ImportSlugsDiffer
    <2>3. ~(j < i)
      BY <1>11, <2>1, ImportSlugsDiffer
    <2> QED
      BY <1>2, <2>2, <2>3
  <1> QED
    BY <1>4, <1>7, <1>9, <1>10, <1>11 DEF ProjectIds

-----------------------------------------------------------------------------
(***************************************************************************)
(* Types, the trail and the slugs.                                         *)
(***************************************************************************)

\* The cases of a step, with what each does to projects and events.
LEMMA ProjectCases ==
  ASSUME [ProjectNext]_projectVars
  PROVE  \/ \E in \in NewProjects : CreateProject(in)
         \/ \E slug \in Projects, p \in ProjectPatches : UpdateProject(slug, p)
         \/ \E csv \in LinearImports : ImportLinear(csv)
         \/ projects' = projects /\ (events' = events \/ RecordsElsewhere)
  <1>1. CASE ProjectStep
    BY <1>1 DEF ProjectStep
  <1>2. CASE IssueStep /\ UNCHANGED projects
    BY <1>2, IssueStepElsewhere
  <1>3. CASE UNCHANGED projectVars
    BY <1>3 DEF projectVars, vars
  <1> QED
    BY <1>1, <1>2, <1>3 DEF ProjectNext

LEMMA ProjectsTypedStep ==
  ASSUME ProjectsTyped, [ProjectNext]_projectVars
  PROVE  ProjectsTyped'
  <1>1. ASSUME NEW in \in NewProjects, CreateProject(in)
        PROVE  ProjectsTyped'
    <2>1. PICK row \in Project :
            /\ projects' = Append(projects, row)
            /\ Record("project.created", Len(projects) + 1, None, row)
      BY <1>1, CreatedProject
    <2>2. EventsListed'
      BY <2>1, RecordListed DEF ProjectsTyped
    <2> QED
      BY <2>1, <2>2 DEF ProjectsTyped
  <1>2. ASSUME NEW slug, NEW p \in ProjectPatches, UpdateProject(slug, p)
        PROVE  ProjectsTyped'
    <2>1. PICK id \in ProjectIds, row \in Project :
            /\ projects' = [projects EXCEPT ![id] = row]
            /\ Record("project.updated", id, projects[id], row)
      BY <1>2, UpdatedProject
    <2>2. EventsListed'
      BY <2>1, RecordListed DEF ProjectsTyped
    <2> QED
      BY <2>1, <2>2 DEF ProjectsTyped, ProjectIds
  <1>3. ASSUME NEW csv \in LinearImports, ImportLinear(csv)
        PROVE  ProjectsTyped'
    BY <1>3, ImportedProjects DEF ProjectsTyped
  <1>4. CASE projects' = projects /\ (events' = events \/ RecordsElsewhere)
    BY <1>4, ElsewhereKeepsEvents DEF ProjectsTyped, EventsListed
  <1> QED
    BY <1>1, <1>2, <1>3, <1>4, ProjectCases

LEMMA ProjectsTypedInit ==
  ASSUME ProjectInit
  PROVE  ProjectsTyped
  BY DEF ProjectInit, Init, ProjectsTyped, EventsListed

LEMMA ProjectsAlwaysTyped == ProjectSpec => []ProjectsTyped
  BY ProjectsTypedInit, ProjectsTypedStep, PTL DEF ProjectSpec

LEMMA ProjectTrailStep ==
  ASSUME ProjectsTyped, [ProjectNext]_projectVars
  PROVE  [ProjectTrail!Next \/ \E csv \in LinearImports : ImportLinear(csv)]_<<projects, events>>
  <1>0. projects \in Seq(Project) /\ EventsListed /\ Len(projects) \in Nat
    BY DEF ProjectsTyped
  <1>1. ASSUME NEW in \in NewProjects, CreateProject(in)
        PROVE  ProjectTrail!Next
    <2>1. PICK row \in Project :
            /\ projects' = Append(projects, row)
            /\ Record("project.created", Len(projects) + 1, None, row)
      BY <1>1, CreatedProject
    <2>2. /\ EventsListed' /\ Len(events') = Len(events) + 1
          /\ \A n \in DOMAIN events : events'[n] = events[n]
          /\ events'[Len(events) + 1] =
               [action |-> "project.created", row |-> Len(projects) + 1,
                before |-> None, after |-> row]
      BY <1>0, <2>1, RecordListed
    <2>3. /\ Len(projects) + 1 \notin DOMAIN projects
          /\ DOMAIN projects' = DOMAIN projects \cup {Len(projects) + 1}
          /\ \A k \in DOMAIN projects : projects'[k] = projects[k]
          /\ projects'[Len(projects) + 1] = row
      BY <1>0, <2>1
    <2>4. ProjectTrail!Extended
      BY <2>2 DEF ProjectTrail!Extended, EventsListed
    <2>5. ProjectTrail!Create(Len(projects) + 1)
      BY <2>2, <2>3, <2>4
      DEF ProjectTrail!Create, ProjectTrail!NewEvent, ProjectTrail!IsAbout,
          ProjectTrail!Agree, ProjectActions
    <2> QED
      BY <2>3, <2>5 DEF ProjectTrail!Next
  <1>2. ASSUME NEW slug, NEW p \in ProjectPatches, UpdateProject(slug, p)
        PROVE  ProjectTrail!Next
    <2>1. PICK id \in ProjectIds, row \in Project :
            /\ projects' = [projects EXCEPT ![id] = row]
            /\ Record("project.updated", id, projects[id], row)
      BY <1>2, UpdatedProject
    <2>2. /\ EventsListed' /\ Len(events') = Len(events) + 1
          /\ \A n \in DOMAIN events : events'[n] = events[n]
          /\ events'[Len(events) + 1] =
               [action |-> "project.updated", row |-> id,
                before |-> projects[id], after |-> row]
      BY <1>0, <2>1, RecordListed
    <2>3. /\ id \in DOMAIN projects /\ DOMAIN projects' = DOMAIN projects
          /\ \A k \in DOMAIN projects \ {id} : projects'[k] = projects[k]
          /\ projects'[id] = row /\ projects[id] # None
      BY <1>0, <2>1, NoProjectAssumption DEF ProjectIds
    <2>4. ProjectTrail!Extended
      BY <2>2 DEF ProjectTrail!Extended, EventsListed
    <2>5. ProjectTrail!Write(id)
      BY <2>2, <2>3, <2>4
      DEF ProjectTrail!Write, ProjectTrail!NewEvent, ProjectTrail!IsAbout,
          ProjectTrail!Agree, ProjectActions
    <2> QED
      BY <2>3, <2>5 DEF ProjectTrail!Next
  <1>3. CASE projects' = projects /\ RecordsElsewhere
    <2>1. ProjectTrail!Extended /\ ProjectTrail!NewEvent.action \notin ProjectActions
      BY <1>0, <1>3, ElsewhereKeepsEvents
      DEF ProjectTrail!Extended, ProjectTrail!NewEvent, EventsListed
    <2> QED
      BY <1>3, <2>1 DEF ProjectTrail!Next, ProjectTrail!Elsewhere
  <1> QED
    BY <1>1, <1>2, <1>3, ProjectCases

\* Nothing but a create, an update or the import writes a project, and the
\* first two record it before and after: any requests, any number of projects,
\* whatever is written beside them.
THEOREM ProjectWritesAudited == ProjectSpec => ProjectsAudited
  BY ProjectsAlwaysTyped, ProjectTrailStep, PTL DEF ProjectSpec, ProjectsAudited

LEMMA SlugStep ==
  ASSUME ProjectsTyped, SlugMeansOne, [ProjectNext]_projectVars
  PROVE  SlugMeansOne'
  <1>0. projects \in Seq(Project) /\ Len(projects) \in Nat
    BY DEF ProjectsTyped
  <1>1. ASSUME NEW in \in NewProjects, CreateProject(in)
        PROVE  SlugMeansOne'
    <2>1. PICK row \in Project :
            projects' = Append(projects, row) /\ Slugged(row.slug) = {}
      BY <1>1, CreatedProject
    <2>2. \A id \in ProjectIds : projects[id].slug # row.slug
      BY <2>1 DEF Slugged
    <2>3. /\ ProjectIds' = ProjectIds \cup {Len(projects) + 1}
          /\ \A id \in ProjectIds : projects'[id] = projects[id]
          /\ projects'[Len(projects) + 1] = row
      BY <1>0, <2>1 DEF ProjectIds
    <2> QED
      BY <2>2, <2>3 DEF SlugMeansOne
  <1>2. ASSUME NEW slug, NEW p \in ProjectPatches, UpdateProject(slug, p)
        PROVE  SlugMeansOne'
    <2>1. PICK id \in ProjectIds, row \in Project :
            projects' = [projects EXCEPT ![id] = row] /\ row.slug = projects[id].slug
      BY <1>2, UpdatedProject
    <2>2. /\ ProjectIds' = ProjectIds
          /\ \A k \in ProjectIds : projects'[k].slug = projects[k].slug
      BY <1>0, <2>1 DEF ProjectIds
    <2> QED
      BY <2>2 DEF SlugMeansOne
  <1>3. ASSUME NEW csv \in LinearImports, ImportLinear(csv)
        PROVE  SlugMeansOne'
    BY <1>3, ImportedProjects DEF SlugMeansOne
  <1>4. CASE projects' = projects
    BY <1>4 DEF SlugMeansOne, ProjectIds
  <1> QED
    BY <1>1, <1>2, <1>3, <1>4, ProjectCases

\* A slug means one project, whatever an import numbered and whoever created
\* and renamed since.
THEOREM OneProjectPerSlug == ProjectSpec => []SlugMeansOne
  <1>1. ASSUME ProjectInit
        PROVE  SlugMeansOne
    BY <1>1 DEF ProjectInit, SlugMeansOne, ProjectIds
  <1> QED
    BY <1>1, ProjectsAlwaysTyped, SlugStep, PTL DEF ProjectSpec

-----------------------------------------------------------------------------
(***************************************************************************)
(* Exclusive labels.                                                       *)
(***************************************************************************)

LEMMA GroupsMove ==
  ASSUME IssueStep
  PROVE  groups' = groups \/ NoGroupConflict(groups')
BY DEF IssueStep, CreateIssue, UpdateIssue, AppendDescription, CommentNext,
       AddComment, UpdateComment, RelationNext, AddRelation, RemoveRelation,
       CreateMilestone, UpdateMilestone, EnsureLabel, UpdateLabelGroups

LEMMA ExclusiveProjectStep ==
  ASSUME ProjectsTyped, ExclusiveProjectLabels, [ProjectNext]_projectVars
  PROVE  ExclusiveProjectLabels'
  <1>0. projects \in Seq(Project) /\ Len(projects) \in Nat
    BY DEF ProjectsTyped
  <1>1. ASSUME NEW in \in NewProjects, CreateProject(in)
        PROVE  ExclusiveProjectLabels'
    <2>1. PICK row \in Project :
            projects' = Append(projects, row) /\ row.labels = in.labels
      BY <1>1, CreatedProject DEF ProjectsTyped
    <2>2. /\ ProjectIds' = ProjectIds \cup {Len(projects) + 1}
          /\ \A id \in ProjectIds : projects'[id] = projects[id]
          /\ projects'[Len(projects) + 1].labels = in.labels
      BY <1>0, <2>1 DEF ProjectIds
    <2>3. in.labels # Keep
      BY KeepAssumption DEF NewProject
    <2>4. AtMostOnePerGroup(in.labels, groups) /\ groups' = groups
      BY <1>1, <2>3 DEF CreateProject, LabelsAccepted, Untouched
    <2> QED
      BY <2>2, <2>4 DEF ExclusiveProjectLabels, AtMostOnePerGroup
  <1>2. ASSUME NEW slug, NEW p \in ProjectPatches, UpdateProject(slug, p)
        PROVE  ExclusiveProjectLabels'
    <2>1. PICK id \in ProjectIds, row \in Project :
            /\ projects' = [projects EXCEPT ![id] = row]
            /\ LabelsAccepted(p.labels, p.add, p.remove)
            /\ row.labels = LabelsAfter(projects[id].labels, p.labels, p.add, p.remove)
      BY <1>2, UpdatedProject
    <2>2. /\ ProjectIds' = ProjectIds /\ projects'[id] = row
          /\ \A k \in ProjectIds \ {id} : projects'[k] = projects[k]
      BY <1>0, <2>1 DEF ProjectIds
    <2>3. groups' = groups
      BY <1>2 DEF UpdateProject, Untouched
    <2>4. AtMostOnePerGroup(Pick(p.labels, projects[id].labels), groups)
      BY <2>1 DEF Pick, LabelsAccepted, ExclusiveProjectLabels
    <2>5. p.add \in Seq(Labels)
      BY DEF ProjectPatch
    <2>6. AtMostOnePerGroup(row.labels, groups)
      BY <2>1, <2>4, <2>5, LabelsAfterExclusive
    <2> QED
      BY <2>2, <2>3, <2>6 DEF ExclusiveProjectLabels, AtMostOnePerGroup
  <1>3. ASSUME NEW csv \in LinearImports, ImportLinear(csv)
        PROVE  ExclusiveProjectLabels'
    BY <1>3, ImportedProjects DEF ExclusiveProjectLabels, AtMostOnePerGroup
  <1>4. CASE IssueStep /\ projects' = projects
    <2>1. CASE groups' = groups
      BY <1>4, <2>1 DEF ExclusiveProjectLabels, AtMostOnePerGroup, ProjectIds
    <2>2. CASE NoGroupConflict(groups')
      BY <1>4, <2>2 DEF NoGroupConflict, ExclusiveProjectLabels, AtMostOnePerGroup, ProjectIds
    <2> QED
      BY <1>4, <2>1, <2>2, GroupsMove
  <1>5. CASE UNCHANGED projectVars
    BY <1>5 DEF projectVars, vars, ExclusiveProjectLabels, AtMostOnePerGroup, ProjectIds
  <1> QED
    BY <1>1, <1>2, <1>3, <1>4, <1>5 DEF ProjectNext, ProjectStep

\* Whatever is written last, the labels of a project or the groups, no project
\* holds two labels of one group.
THEOREM ProjectLabelsExclusive == ProjectSpec => []ExclusiveProjectLabels
  <1>1. ASSUME ProjectInit
        PROVE  ExclusiveProjectLabels
    BY <1>1 DEF ProjectInit, ExclusiveProjectLabels, ProjectIds
  <1> QED
    BY <1>1, ProjectsAlwaysTyped, ExclusiveProjectStep, PTL DEF ProjectSpec

-----------------------------------------------------------------------------
(***************************************************************************)
(* Names and the moment of completion, which are about the events of a     *)
(* project.                                                                *)
(***************************************************************************)

\* Events about a project stay, and a step adds at most the one it records.
LEMMA AboutStays ==
  ASSUME EventsListed, EventsListed', Len(events') = Len(events) + 1,
         \A n \in DOMAIN events : events'[n] = events[n]
  PROVE  /\ DOMAIN events' = DOMAIN events \cup {Len(events) + 1}
         /\ \A id : AboutProject(id)' =
              AboutProject(id) \cup
                {n \in {Len(events) + 1} : ProjectTrail!IsAbout(events'[n], id)}
  <1>1. DOMAIN events' = DOMAIN events \cup {Len(events) + 1}
    <2>1. DOMAIN events = 1..Len(events) /\ DOMAIN events' = 1..Len(events')
      BY DEF EventsListed
    <2> QED
      BY <2>1 DEF EventsListed
  <1> QED
    BY <1>1 DEF AboutProject

\* What the four cases leave of the events about a project.
LEMMA AboutElsewhere ==
  ASSUME EventsListed, events' = events \/ RecordsElsewhere
  PROVE  /\ \A id : AboutProject(id)' = AboutProject(id)
         /\ \A n \in DOMAIN events : events'[n] = events[n]
  <1>1. CASE events' = events
    BY <1>1 DEF AboutProject
  <1>2. CASE RecordsElsewhere
    <2>1. /\ EventsListed' /\ Len(events') = Len(events) + 1
          /\ \A n \in DOMAIN events : events'[n] = events[n]
          /\ events'[Len(events) + 1].action \notin ProjectActions
      BY <1>2, ElsewhereKeepsEvents
    <2>2. \A id : AboutProject(id)' = AboutProject(id)
      BY <2>1, AboutStays DEF ProjectTrail!IsAbout
    <2> QED
      BY <2>1, <2>2
  <1> QED
    BY <1>1, <1>2

LEMMA AboutRecorded ==
  ASSUME EventsListed, NEW action \in ProjectActions, NEW row, NEW before, NEW after,
         Record(action, row, before, after)
  PROVE  /\ AboutProject(row)' = AboutProject(row) \cup {Len(events) + 1}
         /\ \A id : id # row => AboutProject(id)' = AboutProject(id)
         /\ \A n \in DOMAIN events : events'[n] = events[n]
         /\ events'[Len(events) + 1] =
              [action |-> action, row |-> row, before |-> before, after |-> after]
         /\ Len(events) \in Nat
         /\ \A id : AboutProject(id) \subseteq DOMAIN events
         /\ DOMAIN events = 1..Len(events)
  <1>1. /\ EventsListed' /\ Len(events') = Len(events) + 1
        /\ \A n \in DOMAIN events : events'[n] = events[n]
        /\ events'[Len(events) + 1] =
             [action |-> action, row |-> row, before |-> before, after |-> after]
    BY RecordListed
  <1>2. /\ ProjectTrail!IsAbout(events'[Len(events) + 1], row)
        /\ \A id : id # row => ~ProjectTrail!IsAbout(events'[Len(events) + 1], id)
    BY <1>1 DEF ProjectTrail!IsAbout
  <1>3. /\ AboutProject(row)' = AboutProject(row) \cup {Len(events) + 1}
        /\ \A id : id # row => AboutProject(id)' = AboutProject(id)
    BY <1>1, <1>2, AboutStays
  <1>4. \A id : AboutProject(id) \subseteq DOMAIN events
    BY DEF AboutProject
  <1> QED
    BY <1>1, <1>3, <1>4 DEF EventsListed

LEMMA SharedStep ==
  ASSUME ProjectsTyped, SharedNamesImported, [ProjectNext]_projectVars
  PROVE  SharedNamesImported'
  <1>0. projects \in Seq(Project) /\ Len(projects) \in Nat /\ EventsListed
    BY DEF ProjectsTyped
  <1>1. ASSUME NEW in \in NewProjects, CreateProject(in)
        PROVE  SharedNamesImported'
    <2>1. PICK row \in Project :
            /\ projects' = Append(projects, row)
            /\ Record("project.created", Len(projects) + 1, None, row)
            /\ ProjectNameFree(row.name, 0)
      BY <1>1, CreatedProject
    <2> DEFINE last == Len(projects) + 1
    <2>2. /\ ProjectIds' = ProjectIds \cup {last} /\ 0 \notin ProjectIds
          /\ \A id \in ProjectIds : projects'[id] = projects[id] /\ id # last
          /\ projects'[last] = row
      BY <1>0, <2>1 DEF ProjectIds
    <2>3. \A id \in ProjectIds : FoldName[projects[id].name] # FoldName[row.name]
      BY <2>1, <2>2 DEF ProjectNameFree
    <2>4. /\ \A id \in ProjectIds : AboutProject(id)' = AboutProject(id)
          /\ \A id : AboutProject(id) \subseteq DOMAIN events
          /\ \A n \in DOMAIN events : events'[n] = events[n]
      <3>1. "project.created" \in ProjectActions
        BY DEF ProjectActions
      <3> QED
        BY <1>0, <2>1, <2>2, <3>1, AboutRecorded
    <2>5. \A id \in ProjectIds : Created(id)' <=> Created(id)
      BY <2>4 DEF Created
    <2> HIDE DEF last
    <2> QED
      BY <2>2, <2>3, <2>5 DEF SharedNamesImported
  <1>2. ASSUME NEW slug, NEW p \in ProjectPatches, UpdateProject(slug, p)
        PROVE  SharedNamesImported'
    <2>1. PICK id \in ProjectIds, row \in Project :
            /\ projects' = [projects EXCEPT ![id] = row]
            /\ Record("project.updated", id, projects[id], row)
            /\ row.name = projects[id].name \/ ProjectNameFree(row.name, id)
      BY <1>2, UpdatedProject
    <2>2. /\ ProjectIds' = ProjectIds /\ projects'[id] = row
          /\ \A k \in ProjectIds \ {id} : projects'[k] = projects[k]
          /\ projects[id] # None
      BY <1>0, <2>1, NoProjectAssumption DEF ProjectIds
    <2>3. \A k \in ProjectIds : Created(k)' <=> Created(k)
      <3>1. "project.updated" \in ProjectActions
        BY DEF ProjectActions
      <3>2. /\ AboutProject(id)' = AboutProject(id) \cup {Len(events) + 1}
            /\ \A k : k # id => AboutProject(k)' = AboutProject(k)
            /\ \A n \in DOMAIN events : events'[n] = events[n]
            /\ events'[Len(events) + 1] =
                 [action |-> "project.updated", row |-> id,
                  before |-> projects[id], after |-> row]
            /\ \A k : AboutProject(k) \subseteq DOMAIN events
        BY <1>0, <2>1, <3>1, AboutRecorded
      <3>3. events'[Len(events) + 1].before = projects[id]
        BY <3>2
      <3> QED
        BY <2>2, <3>2, <3>3 DEF Created
    <2>4. CASE row.name = projects[id].name
      BY <2>2, <2>3, <2>4 DEF SharedNamesImported
    <2>5. CASE ProjectNameFree(row.name, id)
      <3>1. \A k \in ProjectIds \ {id} : FoldName[projects[k].name] # FoldName[row.name]
        BY <2>5 DEF ProjectNameFree
      <3> QED
        BY <2>2, <2>3, <3>1 DEF SharedNamesImported
    <2> QED
      BY <2>1, <2>4, <2>5
  <1>3. ASSUME NEW csv \in LinearImports, ImportLinear(csv)
        PROVE  SharedNamesImported'
    BY <1>3, ImportedProjects
    DEF SharedNamesImported, Created, AboutProject, ProjectTrail!IsAbout
  <1>4. CASE projects' = projects /\ (events' = events \/ RecordsElsewhere)
    <2>1. \A id : Created(id)' <=> Created(id)
      BY <1>0, <1>4, AboutElsewhere DEF Created, AboutProject
    <2> QED
      BY <1>4, <2>1 DEF SharedNamesImported, ProjectIds
  <1> QED
    BY <1>1, <1>2, <1>3, <1>4, ProjectCases

\* Two projects share a name, but for its case, only if both came with a
\* Linear export, whatever was created and renamed since.
THEOREM NamesSharedByImportOnly == ProjectSpec => []SharedNamesImported
  <1>1. ASSUME ProjectInit
        PROVE  SharedNamesImported
    BY <1>1 DEF ProjectInit, SharedNamesImported, ProjectIds
  <1> QED
    BY <1>1, ProjectsAlwaysTyped, SharedStep, PTL DEF ProjectSpec

\* The moment of completion of one project, given the events about it.
Completed(row) == row # None /\ row.status = "completed"

CompletedAtFits(id) ==
  LET row == projects[id] IN
  IF row.status = "completed"
    THEN /\ row.completedAt \in AboutProject(id)
         /\ ~Completed(events[row.completedAt].before)
         /\ \A n \in AboutProject(id) :
              n >= row.completedAt => Completed(events[n].after)
    ELSE row.completedAt = 0

LEMMA CompletedSinceFits == CompletedSince <=> \A id \in ProjectIds : CompletedAtFits(id)
  BY DEF CompletedSince, CompletedAtFits, Completed

\* A project whose row and events stay is as completed as before.
LEMMA FitsStays ==
  ASSUME NEW id, CompletedAtFits(id), projects'[id] = projects[id],
         AboutProject(id)' = AboutProject(id),
         AboutProject(id) \subseteq DOMAIN events,
         \A n \in DOMAIN events : events'[n] = events[n]
  PROVE  CompletedAtFits(id)'
  BY DEF CompletedAtFits, Completed

\* A row that was just written fits when its stamp is new and the status was
\* entered, or is what it was.
LEMMA FitsWritten ==
  ASSUME EventsListed, NEW action \in ProjectActions, NEW id, NEW before,
         NEW row \in Project, Record(action, id, before, row), projects'[id] = row,
         \/ /\ row.status = "completed" /\ row.completedAt = Len(events) + 1
            /\ ~Completed(before)
         \/ row.status # "completed" /\ row.completedAt = 0
         \/ /\ row.status = "completed" /\ row.completedAt = projects[id].completedAt
            /\ projects[id].status = "completed" /\ CompletedAtFits(id)
  PROVE  CompletedAtFits(id)'
  <1> DEFINE last == Len(events) + 1
  <1>1. /\ AboutProject(id)' = AboutProject(id) \cup {last}
        /\ AboutProject(id) \subseteq DOMAIN events
        /\ DOMAIN events = 1..Len(events) /\ Len(events) \in Nat
        /\ \A n \in DOMAIN events : events'[n] = events[n]
        /\ events'[last] = [action |-> action, row |-> id, before |-> before, after |-> row]
    BY AboutRecorded
  <1>2. events'[last].before = before /\ events'[last].after = row
    BY <1>1
  <1>3. last \notin DOMAIN events /\ \A n \in AboutProject(id) : ~(n >= last)
    BY <1>1
  <1>4. row # None
    BY NoProjectAssumption
  <1> HIDE DEF last
  <1>5. CASE row.status = "completed" /\ row.completedAt = last /\ ~Completed(before)
    <2>1. \A n \in AboutProject(id)' : n >= last => n = last
      BY <1>1, <1>3
    <2> QED
      BY <1>1, <1>2, <1>4, <1>5, <2>1 DEF CompletedAtFits, Completed
  <1>6. CASE row.status # "completed" /\ row.completedAt = 0
    BY <1>6 DEF CompletedAtFits
  <1>7. CASE /\ row.status = "completed" /\ row.completedAt = projects[id].completedAt
             /\ projects[id].status = "completed" /\ CompletedAtFits(id)
    BY <1>1, <1>2, <1>4, <1>7 DEF CompletedAtFits, Completed
  <1> QED
    BY <1>5, <1>6, <1>7 DEF last

LEMMA CompletedStep ==
  ASSUME ProjectsTyped, \A id \in ProjectIds : CompletedAtFits(id), [ProjectNext]_projectVars
  PROVE  \A id \in ProjectIds' : CompletedAtFits(id)'
  <1>0. /\ projects \in Seq(Project) /\ Len(projects) \in Nat /\ EventsListed
        /\ \A id : AboutProject(id) \subseteq DOMAIN events
        /\ DOMAIN events = 1..Len(events) /\ Len(events) \in Nat
    BY DEF ProjectsTyped, EventsListed, AboutProject
  <1>1. ASSUME NEW in \in NewProjects, CreateProject(in)
        PROVE  \A id \in ProjectIds' : CompletedAtFits(id)'
    <2>1. PICK row \in Project :
            /\ projects' = Append(projects, row)
            /\ Record("project.created", Len(projects) + 1, None, row)
            /\ row.status = in.status
            /\ row.completedAt = PhaseStamp(0, in.status = "completed", Now)
      BY <1>1, CreatedProject
    <2> PICK new : new = Len(projects) + 1
      OBVIOUS
    <2>2. /\ ProjectIds' = ProjectIds \cup {new}
          /\ \A k \in ProjectIds : projects'[k] = projects[k] /\ k # new
          /\ projects'[new] = row
      BY <1>0, <2>1 DEF ProjectIds
    <2>3. "project.created" \in ProjectActions /\ Record("project.created", new, None, row)
      BY <2>1 DEF ProjectActions
    <2>4. CompletedAtFits(new)'
      <3>1. \/ row.status = "completed" /\ row.completedAt = Len(events) + 1
            \/ row.status # "completed" /\ row.completedAt = 0
        BY <2>1 DEF PhaseStamp, Now
      <3>2. ~Completed(None)
        BY DEF Completed
      <3> QED
        BY <1>0, <2>2, <2>3, <3>1, <3>2, FitsWritten
    <2>5. ASSUME NEW k \in ProjectIds
          PROVE  CompletedAtFits(k)'
      <3>1. CompletedAtFits(k) /\ projects'[k] = projects[k] /\ k # new
        BY <2>2
      <3>2. AboutProject(k)' = AboutProject(k) /\ \A n \in DOMAIN events : events'[n] = events[n]
        BY <1>0, <2>3, <3>1, AboutRecorded
      <3> QED
        BY <1>0, <3>1, <3>2, FitsStays
    <2> QED
      BY <2>2, <2>4, <2>5
  <1>2. ASSUME NEW slug, NEW p \in ProjectPatches, UpdateProject(slug, p)
        PROVE  \A id \in ProjectIds' : CompletedAtFits(id)'
    <2>1. PICK id \in ProjectIds, row \in Project :
            /\ projects' = [projects EXCEPT ![id] = row]
            /\ Record("project.updated", id, projects[id], row)
            /\ row.status = Pick(p.status, projects[id].status)
            /\ row.completedAt = CompletedAfter(projects[id], p)
      BY <1>2, UpdatedProject
    <2>2. /\ ProjectIds' = ProjectIds /\ projects'[id] = row
          /\ \A k \in ProjectIds \ {id} : projects'[k] = projects[k]
      BY <1>0, <2>1 DEF ProjectIds
    <2>3. "project.updated" \in ProjectActions
      BY DEF ProjectActions
    <2>4. CompletedAtFits(id)'
      <3>1. CASE p.status = Keep
        <4>1. row.status = projects[id].status /\ row.completedAt = projects[id].completedAt
          BY <2>1, <3>1 DEF Pick, CompletedAfter
        <4>2. CompletedAtFits(id)
          OBVIOUS
        <4>3. CASE row.status = "completed"
          BY <1>0, <2>1, <2>2, <2>3, <4>1, <4>2, <4>3, FitsWritten
        <4>4. CASE row.status # "completed"
          <5>1. row.completedAt = 0
            BY <4>1, <4>2, <4>4 DEF CompletedAtFits
          <5> QED
            BY <1>0, <2>1, <2>2, <2>3, <4>4, <5>1, FitsWritten
        <4> QED
          BY <4>3, <4>4
      <3>2. CASE p.status # Keep /\ p.status # "completed"
        <4>1. row.status # "completed" /\ row.completedAt = 0
          BY <2>1, <3>2 DEF Pick, CompletedAfter, PhaseStamp
        <4> QED
          BY <1>0, <2>1, <2>2, <2>3, <4>1, FitsWritten
      <3>3. CASE p.status # Keep /\ p.status = "completed"
        <4>1. /\ row.status = "completed"
              /\ row.completedAt = IF projects[id].completedAt = 0 THEN Len(events) + 1
                                   ELSE projects[id].completedAt
          BY <2>1, <3>3 DEF Pick, CompletedAfter, PhaseStamp, Now
        <4>2. CompletedAtFits(id)
          OBVIOUS
        <4>3. CASE projects[id].completedAt = 0
          <5>1. 0 \notin AboutProject(id)
            BY <1>0
          <5>2. ~Completed(projects[id])
            BY <4>2, <4>3, <5>1 DEF CompletedAtFits, Completed
          <5> QED
            BY <1>0, <2>1, <2>2, <2>3, <4>1, <4>3, <5>2, FitsWritten
        <4>4. CASE projects[id].completedAt # 0
          <5>1. projects[id].status = "completed"
            BY <4>2, <4>4 DEF CompletedAtFits
          <5> QED
            BY <1>0, <2>1, <2>2, <2>3, <4>1, <4>2, <4>4, <5>1, FitsWritten
        <4> QED
          BY <4>3, <4>4
      <3> QED
        BY <3>1, <3>2, <3>3
    <2>5. ASSUME NEW k \in ProjectIds \ {id}
          PROVE  CompletedAtFits(k)'
      <3>1. CompletedAtFits(k) /\ projects'[k] = projects[k] /\ k # id
        BY <2>2
      <3>2. AboutProject(k)' = AboutProject(k) /\ \A n \in DOMAIN events : events'[n] = events[n]
        BY <1>0, <2>1, <2>3, <3>1, AboutRecorded
      <3> QED
        BY <1>0, <3>1, <3>2, FitsStays
    <2> QED
      BY <2>2, <2>4, <2>5
  <1>3. ASSUME NEW csv \in LinearImports, ImportLinear(csv)
        PROVE  \A id \in ProjectIds' : CompletedAtFits(id)'
    BY <1>3, ImportedProjects DEF CompletedAtFits
  <1>4. CASE projects' = projects /\ (events' = events \/ RecordsElsewhere)
    <2>1. ASSUME NEW k \in ProjectIds
          PROVE  CompletedAtFits(k)'
      <3>1. CompletedAtFits(k) /\ projects'[k] = projects[k]
        BY <1>4
      <3>2. AboutProject(k)' = AboutProject(k) /\ \A n \in DOMAIN events : events'[n] = events[n]
        BY <1>0, <1>4, AboutElsewhere
      <3> QED
        BY <1>0, <3>1, <3>2, FitsStays
    <2> QED
      BY <1>4, <2>1 DEF ProjectIds
  <1> QED
    BY <1>1, <1>2, <1>3, <1>4, ProjectCases

\* A completed project carries the moment it last became so, and any other
\* none, whatever statuses are given again.
THEOREM CompletionDated == ProjectSpec => []CompletedSince
  <1> DEFINE Fits == \A id \in ProjectIds : CompletedAtFits(id)
  <1>1. ASSUME ProjectInit
        PROVE  Fits
    BY <1>1 DEF ProjectInit, ProjectIds
  <1>2. ASSUME ProjectsTyped, Fits, [ProjectNext]_projectVars
        PROVE  Fits'
    BY <1>2, CompletedStep
  <1>3. Fits => CompletedSince
    BY CompletedSinceFits
  <1> HIDE DEF Fits
  <1> QED
    BY <1>1, <1>2, <1>3, ProjectsAlwaysTyped, PTL DEF ProjectSpec
=============================================================================
