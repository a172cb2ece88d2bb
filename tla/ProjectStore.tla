----------------------------- MODULE ProjectStore -----------------------------
(***************************************************************************)
(* The projects table of internal/store, put together with the issue       *)
(* tables: issues and milestones name a project by its slug, projects      *)
(* carry labels under the same exclusive groups as issues, and a Linear    *)
(* import fills both into an empty database.  Every store method is one    *)
(* transaction, hence one action (see IssueStore).                         *)
(*                                                                         *)
(* Data: a slug is without case, as every comparison of slugs is; slugs    *)
(* are the values of IssueStore's Projects.  Description and dates, which  *)
(* are written as they come, are one column, details.                      *)
(***************************************************************************)
EXTENDS IssueStore

CONSTANTS
  ProjectNames,    \* project names as stored
  FoldName,        \* a project name without regard to case
  SlugOf,          \* slugify: the slug of a name, None when nothing is left
  NumberedSlug,    \* <<slug, n>> -> the slug with -n behind it
  FallbackSlug,    \* "project"
  ProjectStatuses,
  NewProjects,     \* the project inputs callers send
  ProjectPatches,  \* the project patches callers send
  LinearImports    \* the Linear exports an operator may import

VARIABLE projects \* the projects table, in id order

projectVars == <<projects, vars>>

Project ==
  [name: ProjectNames, slug: Projects, details: Details,
   status: ProjectStatuses, completedAt: Nat, archivedAt: Nat,
   labels: SUBSET Labels]

NewProject ==
  [name: ProjectNames, slug: Projects \cup {None}, details: Details,
   status: ProjectStatuses, labels: SUBSET Labels]

ProjectPatch ==
  [name: ProjectNames \cup {Keep}, details: Details \cup {Keep},
   status: ProjectStatuses \cup {Keep}, archived: BOOLEAN \cup {Keep},
   labels: (SUBSET Labels) \cup {Keep}, add: Seq(Labels),
   remove: SUBSET Labels]

\* A Linear export: its projects and milestones in the order the rows first
\* name them, a milestone with the number of its project, its issues, with the
\* numbers of their projects, 0 for none, and its relations.  details is what
\* an imported project has for a description and dates: nothing.
LinearImport ==
  [names: Seq(ProjectNames), details: Details,
   milestones: Seq([of: Nat, name: MilestoneNames]),
   issues: Seq([row: Issue, of: Nat]), relations: SUBSET Relation]

ASSUME ProjectAssumption ==
  /\ NewProjects \subseteq NewProject
  /\ ProjectPatches \subseteq ProjectPatch
  /\ LinearImports \subseteq LinearImport
  /\ SlugOf \in [ProjectNames -> Projects \cup {None}]
  /\ FallbackSlug \in Projects
  /\ {"planned", "completed"} \subseteq ProjectStatuses

\* A patch that replaces the label set may not also edit it
\* (projects.go:107-109); of a label named twice the first naming counts.
ASSUME ProjectPatchAssumption ==
  \A p \in ProjectPatches :
    /\ p.labels # Keep => p.add = << >> /\ p.remove = {}
    /\ \A i, j \in DOMAIN p.add : p.add[i] = p.add[j] => i = j

\* A name is in the export's lists once, the project of an issue and of a
\* milestone is among the projects, and the milestone of an issue, as far as it
\* has a project, among the milestones of that project.
ASSUME ImportAssumption ==
  \A csv \in LinearImports :
    /\ csv.issues # << >>
    /\ \A slug \in Projects, n \in 2..(Len(csv.names) + 1) :
         NumberedSlug[slug, n] \in Projects
    /\ \A i, j \in DOMAIN csv.names : csv.names[i] = csv.names[j] => i = j
    /\ \A m \in DOMAIN csv.milestones : csv.milestones[m].of \in DOMAIN csv.names
    /\ \A l, m \in DOMAIN csv.milestones :
         csv.milestones[l] = csv.milestones[m] => l = m
    /\ \A k \in DOMAIN csv.issues :
         LET at == csv.issues[k] IN
         /\ at.of \in DOMAIN csv.names \cup {0}
         /\ at.of # 0 /\ at.row.milestone # 0 =>
              /\ at.row.milestone \in DOMAIN csv.milestones
              /\ csv.milestones[at.row.milestone].of = at.of

-----------------------------------------------------------------------------
ProjectIds == DOMAIN projects

Slugged(slug) == {id \in ProjectIds : projects[id].slug = slug}

\* Mutant: the comparison of names takes case into account.
ProjectNameFreeAsSpelled(name, except) ==
  \A id \in ProjectIds \ {except} : projects[id].name # name

\* Archived projects hold their names too.
ProjectNameFree(name, except) ==
  \A id \in ProjectIds \ {except} : FoldName[projects[id].name] # FoldName[name]

\* Mutant: only the unique index is asked, which lets a slug pass that differs
\* from the one taken in case.
SlugFreeAsSpelled(slug) == TRUE

SlugFree(slug) == Slugged(slug) = {}

Untouched == <<issues, issueSeq, comments, relations, milestones, labels, groups, spent>>

CreateProject(in) ==
  LET id == Len(projects) + 1
      slug == IF in.slug = None THEN SlugOf[in.name] ELSE in.slug
      row == [name |-> in.name, slug |-> slug, details |-> in.details,
              status |-> in.status,
              completedAt |-> PhaseStamp(0, in.status = "completed", Now),
              archivedAt |-> 0, labels |-> in.labels]
  IN
  /\ slug # None
  /\ ProjectNameFree(in.name, 0)
  /\ SlugFree(slug)
  /\ LabelsAccepted(in.labels, << >>, {})
  /\ projects' = Append(projects, row)
  /\ Record("project.created", id, None, row)
  /\ UNCHANGED Untouched

\* Mutant: a status given again counts as entered again.
CompletedAfterAgain(row, p) ==
  IF p.status = Keep THEN row.completedAt
  ELSE PhaseStamp(0, p.status = "completed", Now)

CompletedAfter(row, p) ==
  IF p.status = Keep THEN row.completedAt
  ELSE PhaseStamp(row.completedAt, p.status = "completed", Now)

\* The slug stays what it was, whatever becomes of the name.
ProjectPatched(row, p) ==
  [row EXCEPT
     !.name = Pick(p.name, @),
     !.details = Pick(p.details, @),
     !.status = Pick(p.status, @),
     !.completedAt = CompletedAfter(row, p),
     !.archivedAt = IF p.archived = Keep THEN @ ELSE PhaseStamp(@, p.archived, Now),
     !.labels = LabelsAfter(@, p.labels, p.add, p.remove)]

\* Mutant: the row is read after its labels were written.
UpdateProjectReadLate(slug, p) ==
  \E id \in Slugged(slug) :
    LET before == projects[id]
        after == ProjectPatched(before, p)
    IN
    /\ p.name # Keep => ProjectNameFree(p.name, id)
    /\ LabelsAccepted(p.labels, p.add, p.remove)
    /\ projects' = [projects EXCEPT ![id] = after]
    /\ Record("project.updated", id, [before EXCEPT !.labels = after.labels], after)
    /\ UNCHANGED Untouched

\* An empty patch, which MCP lets through, records like any other.
UpdateProject(slug, p) ==
  \E id \in Slugged(slug) :
    LET before == projects[id]
        after == ProjectPatched(before, p)
    IN
    /\ p.name # Keep => ProjectNameFree(p.name, id)
    /\ LabelsAccepted(p.labels, p.add, p.remove)
    /\ projects' = [projects EXCEPT ![id] = after]
    /\ Record("project.updated", id, before, after)
    /\ UNCHANGED Untouched

-----------------------------------------------------------------------------
(***************************************************************************)
(* A Linear import of one team, in one transaction.  Names are told apart  *)
(* as they are spelled.  Only the issues are recorded, and without what    *)
(* was written.  The statuses are constants here; the prefix and the gaps  *)
(* in the numbering are those of Dump.                                     *)
(***************************************************************************)

\* slug is base, or base with the first number from 2 on that is not used yet.
AsSlug(slug, base, used) ==
  \/ slug = base /\ base \notin used
  \/ /\ base \in used /\ slug \notin used
     /\ \E n \in 2..(Cardinality(used) + 2) :
          /\ slug = NumberedSlug[base, n]
          /\ \A m \in 2..(n - 1) : NumberedSlug[base, m] \in used

\* The slugs the projects of an import get, in their order.
ImportSlugs(names) ==
  {slugs \in [DOMAIN names -> Projects] :
     \A k \in DOMAIN names :
       AsSlug(slugs[k],
              IF SlugOf[names[k]] = None THEN FallbackSlug ELSE SlugOf[names[k]],
              {slugs[j] : j \in 1..(k - 1)})}

\* isEmpty: the tables an operator's data is in.
Empty ==
  /\ issues = << >> /\ projects = << >> /\ labels = {}
  /\ comments = << >> /\ events = << >>

\* A milestone without a project and a parent outside the export are dropped.
ImportedIssue(csv, k, slugs) ==
  LET at == csv.issues[k] IN
  [at.row EXCEPT
     !.project = IF at.of = 0 THEN None ELSE slugs[at.of],
     !.milestone = IF at.of = 0 THEN 0 ELSE @,
     !.parent = IF @ \in DOMAIN csv.issues THEN @ ELSE 0]

\* Of a pair that is related on both sides the side of the earlier issue stays.
ImportedRelations(csv) ==
  {rel \in csv.relations :
     /\ rel.from \in DOMAIN csv.issues /\ rel.to \in DOMAIN csv.issues
     /\ rel.type = "relates" /\ rel.to < rel.from
          => [rel EXCEPT !.from = rel.to, !.to = rel.from] \notin csv.relations}

ImportLinear(csv) ==
  /\ Empty
  /\ \E slugs \in ImportSlugs(csv.names) :
       /\ projects' = [k \in DOMAIN csv.names |->
            [name |-> csv.names[k], slug |-> slugs[k], details |-> csv.details,
             status |-> "planned", completedAt |-> 0, archivedAt |-> 0,
             labels |-> {}]]
       /\ milestones' = [m \in DOMAIN csv.milestones |->
            [project |-> slugs[csv.milestones[m].of],
             name |-> csv.milestones[m].name, archivedAt |-> 0]]
       /\ issues' = [k \in DOMAIN csv.issues |-> ImportedIssue(csv, k, slugs)]
  /\ issueSeq' = Len(csv.issues)
  /\ labels' = UNION {csv.issues[k].row.labels : k \in DOMAIN csv.issues}
  /\ Len(csv.issues) <= MaxEvents
  /\ events' = [k \in DOMAIN csv.issues |->
       [action |-> "issue.imported", row |-> k, before |-> None, after |-> None]]
  /\ relations' = ImportedRelations(csv)
  /\ UNCHANGED <<comments, groups, spent>>

-----------------------------------------------------------------------------
(***************************************************************************)
(* The writes of the issue tables, where they meet projects.               *)
(***************************************************************************)

\* optionalProjectID: an archived project will do.
ProjectExists(slug) == slug \in {None, Keep} \/ Slugged(slug) # {}

\* Mutant: only the issues are asked.
IssuesAllow(value) == \A k \in Keys : AtMostOnePerGroup(issues[k].labels, value)

\* groupConflicts: no issue and no project, archived or not, holds two labels
\* of a group.
NoGroupConflict(value) ==
  /\ \A k \in Keys : AtMostOnePerGroup(issues[k].labels, value)
  /\ \A id \in ProjectIds : AtMostOnePerGroup(projects[id].labels, value)

IssueStep ==
  \/ \E in \in NewIssues : ProjectExists(in.project) /\ CreateIssue(in)
  \/ \E k \in Keys, p \in Patches : ProjectExists(p.project) /\ UpdateIssue(k, p)
  \/ \E k \in Keys, text \in Texts : AppendDescription(k, text)
  \/ CommentNext
  \/ RelationNext
  \/ \E project \in Projects, name \in MilestoneNames :
       ProjectExists(project) /\ CreateMilestone(project, name)
  \/ \E id \in DOMAIN milestones, p \in MilestonePatches : UpdateMilestone(id, p)
  \/ \E l \in Labels : EnsureLabel(l)
  \/ \E value \in GroupSettings : NoGroupConflict(value) /\ UpdateLabelGroups(value)

ProjectStep ==
  \/ \E in \in NewProjects : CreateProject(in)
  \/ \E slug \in Projects, p \in ProjectPatches : UpdateProject(slug, p)
  \/ \E csv \in LinearImports : ImportLinear(csv)

ProjectInit == Init /\ projects = << >>

ProjectNext == ProjectStep \/ (IssueStep /\ UNCHANGED projects)

ProjectSpec == ProjectInit /\ [][ProjectNext]_projectVars
=============================================================================
