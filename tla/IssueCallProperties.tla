-------------------------- MODULE IssueCallProperties --------------------------
(***************************************************************************)
(* What callers are promised, whatever the network does and whoever writes *)
(* between two of their steps.                                             *)
(***************************************************************************)
EXTENDS IssueCalls

RequestOf(n) == calls[by[n].call].req

\* The events that a call recorded, and those that are writes of an issue.
ByCalls == {n \in DOMAIN by : by[n].call # None}

WritesOf(k) == {n \in DOMAIN events :
                  events[n].action \in {"issue.created", "issue.updated"}
                  /\ events[n].row = k}

\* The step of its handler that recorded event n.
StepBy(n) == Steps(RequestOf(n), calls[by[n].call].expect)[by[n].step]

\* A write that carries the version its caller read is applied only when
\* nobody has written the issue since that read: not another caller, not an
\* earlier attempt of the same call, not an earlier item of the same batch.
NoLostUpdate ==
  \A n \in ByCalls :
    StepBy(n).do = "patch" /\ StepBy(n).patch.expect # Keep =>
      \A m \in WritesOf(events[n].row) :
        ~(calls[by[n].call].readAt < m /\ m < n)

\* A conflict is never false: somebody has written the issue since it was read.
ConflictIsNews ==
  \A c \in Callers :
    calls[c].phase = "done" /\ calls[c].answer = "conflict" =>
      \E m \in WritesOf(calls[c].req.key) : m > calls[c].readAt

\* However often a call is attempted, and whatever a late attempt still does,
\* each of its steps is applied at most once, unless the step is an update
\* that asked for no protection.
AppliedOnce ==
  \A m, n \in ByCalls :
    m < n /\ by[m].call = by[n].call /\ by[m].step = by[n].step =>
      StepBy(n).do = "patch" /\ StepBy(n).patch.expect = Keep

\* A create under an idempotency key makes one record, however many callers
\* send it and however often, and whoever was told it worked has that record.
KeyedCreatesOnce ==
  \A key \in IdemKeys :
    LET made == {n \in ByCalls :
                   LET req == RequestOf(n) IN
                   req.kind = "create" /\ req.in.idem = key
                   /\ events[n].action = "issue.created"}
    IN /\ Cardinality(made) <= 1
       /\ \A c \in Callers :
            /\ calls[c].phase = "done" /\ calls[c].answer \in {"written", "same"}
            /\ calls[c].req.kind = "create" /\ calls[c].req.in.idem = key
            => made # {}

\* The text of a form or of a save comes first: its patch is applied only after
\* the same attempt has stored the text.
TextFirst ==
  \A n \in ByCalls :
    RequestOf(n).kind \in {"form", "save"} /\ by[n].step = 2 =>
      \E m \in ByCalls : m < n /\ by[m] = [by[n] EXCEPT !.step = 1]

\* A description that says something is only ever added to, unless an admin
\* asked for the overwrite.
OnlyAdminsOverwrite ==
  \A n \in ByCalls :
    /\ events[n].action = "issue.updated"
    /\ ~IsPrefix(events[n].before.description, events[n].after.description)
    => RequestOf(n).admin

\* Every call comes to an end: the attempts are bounded, and so is the wait
\* for each.
EveryCallEnds ==
  \A c \in Callers : calls[c].phase = "ready" ~> calls[c].phase = "done"

-----------------------------------------------------------------------------
\* "fail with a version conflict unless the issue is still at this version"
\* (the schema of save_issue's expected_version, mcp.go:138): of every request
\* that carries a version, whatever else it carries.
ExpectedVersionHonoured ==
  \A n \in ByCalls :
    LET req == RequestOf(n) IN
    /\ req.kind = "save" /\ req.conditional
    /\ by[n].step = 1
    => \A m \in WritesOf(req.key) : ~(calls[by[n].call].readAt < m /\ m < n)
=============================================================================
