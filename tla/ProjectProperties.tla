-------------------------- MODULE ProjectProperties --------------------------
(***************************************************************************)
(* What the projects table promises, by itself and beside the issues.      *)
(***************************************************************************)
EXTENDS ProjectStore

ProjectActions == {"project.created", "project.updated"}

ProjectTrail == INSTANCE AuditedRows WITH
  rows <- projects, log <- events, NoRow <- None,
  Fields <- {"name", "slug", "details", "status", "completedAt", "archivedAt", "labels"},
  Actions <- ProjectActions

\* The empty "before" of a created project is no row.
ASSUME NoProjectAssumption == None \notin Project

\* A slug means one project for ever, so a reference by slug is as good as one
\* by id: slugs do not change with names, and an import numbers those it would
\* give twice (CreateProject, UpdateProject, importLinearRows).
SlugMeansOne ==
  \A i, j \in ProjectIds : projects[i].slug = projects[j].slug => i = j

\* The events about a project, the imported ones having none at first.
AboutProject(id) == {n \in DOMAIN events : ProjectTrail!IsAbout(events[n], id)}

Created(id) == \E n \in AboutProject(id) : events[n].before = None

\* Two projects share a name, but for its case, only when both came with a
\* Linear export that spelled them so: no create and no rename makes another
\* pair (projectNameFree).
SharedNamesImported ==
  \A i, j \in ProjectIds :
    i # j /\ FoldName[projects[i].name] = FoldName[projects[j].name]
      => ~Created(i) /\ ~Created(j)

\* A project, archived or not, holds at most one label of each exclusive group,
\* whichever of its labels and the setting was written last, so that bringing
\* it back from the archive needs no check (normalizeLabels, groupConflicts).
ExclusiveProjectLabels ==
  \A id \in ProjectIds : AtMostOnePerGroup(projects[id].labels, groups)

\* completed_at is the moment the project last became completed, however often
\* that status is given again, and empty while it is not (the status switch of
\* UpdateProject, CreateProject).
CompletedSince ==
  \A id \in ProjectIds :
    LET row == projects[id]
        completed(r) == r # None /\ r.status = "completed"
    IN IF row.status = "completed"
         THEN /\ row.completedAt \in AboutProject(id)
              /\ ~completed(events[row.completedAt].before)
              /\ \A n \in AboutProject(id) :
                   n >= row.completedAt => completed(events[n].after)
         ELSE row.completedAt = 0

\* Every write of a project but the import records the project before and
\* after it, and no write of an issue, a milestone, a label or a setting
\* touches one (CreateProject, UpdateProject).
ProjectsAudited ==
  [][ProjectTrail!Next \/ \E csv \in LinearImports : ImportLinear(csv)]_<<projects, events>>

-----------------------------------------------------------------------------
\* "so "Site Rebuild" and "site rebuild" cannot both exist" (projects.go:187-188).
NamesApart ==
  \A i, j \in ProjectIds :
    FoldName[projects[i].name] = FoldName[projects[j].name] => i = j

\* "every mutation records an audit event with before/after state"
\* (store.go:3-4).
EveryProjectRecorded == \A id \in ProjectIds : Created(id)
=============================================================================
