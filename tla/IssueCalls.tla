------------------------------ MODULE IssueCalls ------------------------------
(***************************************************************************)
(* Callers of the server that write issues at the same time, and what the  *)
(* network may do to their requests: the CLI's HTTP client with its        *)
(* timeout and retries (client.Do), MCP clients and browser forms, which   *)
(* send a request once, and the handlers that turn a request into store    *)
(* transactions.  Each transaction is one action of IssueStore; between    *)
(* two transactions of a handler any other caller may write, and a handler *)
(* runs to its end whether or not its caller still waits.                  *)
(***************************************************************************)
EXTENDS IssueStore, SequencesExt

CONSTANTS
  Callers,
  Requests,    \* what callers ask for
  First,       \* the input of the issue the database starts with
  AgentLabel,  \* the agent_label setting, None when it is empty
  MaxAttempts  \* 1 + len(retryDelays)

VARIABLES
  calls,    \* caller -> the one call it makes
  handlers, \* the requests the server is working on
  by        \* by[n] is the handler step that recorded events[n]

callVars == <<issues, issueSeq, comments, relations, milestones, labels, groups,
              spent, events, calls, handlers, by>>

-----------------------------------------------------------------------------
(***************************************************************************)
(* Requests.  kind is the endpoint: "patch" and "batch" are PATCH          *)
(* /issues/{key} and PATCH /issues, "append" and "comment" are POSTs under *)
(* an issue, "create" is POST /issues, "save" is the save_issue tool in    *)
(* mode update, "form" is the web board's action form.  conditional says   *)
(* whether the request carries the version its caller read.                *)
(***************************************************************************)
Request ==
  [kind: {"patch"}, key: Nat, patch: Patch, conditional: BOOLEAN, admin: BOOLEAN]
  \cup [kind: {"batch"}, keys: Seq(Nat), patch: Patch, conditional: BOOLEAN,
        admin: BOOLEAN]
  \cup [kind: {"append"}, key: Nat, text: Texts]
  \cup [kind: {"comment"}, key: Nat, body: Bodies, idem: IdemKeys \cup {None}]
  \cup [kind: {"create"}, in: NewIssue, admin: BOOLEAN]
  \cup [kind: {"save"}, key: Nat, text: Texts \cup {None}, patch: Patch,
        conditional: BOOLEAN, admin: BOOLEAN]
  \cup [kind: {"form"}, key: Nat, body: Bodies \cup {None}, patch: Patch]

ASSUME RequestAssumption ==
  /\ Requests \subseteq Request
  /\ First \in NewIssue /\ First.milestone = None /\ First.parent = 0
  /\ MaxAttempts \in Nat \ {0} /\ MaxEvents # 0
  /\ None \notin IdemKeys /\ None \notin Callers

\* The inputs and patches of the store are those its callers may come to.
ASSUME InputsCovered ==
  \A req \in Requests :
    /\ req.kind = "create" =>
         /\ req.in \in NewIssues
         /\ AgentLabel # None =>
              AgentLabel \in Labels
              /\ [req.in EXCEPT !.labels = @ \cup {AgentLabel}] \in NewIssues
    /\ req.kind \in {"patch", "batch", "save", "form"} =>
         \A version \in {Keep} \cup 0..MaxEvents :
           [req.patch EXCEPT !.expect = version] \in Patches

\* The board's form has no field for the description.
ASSUME FormAssumption ==
  \A req \in Requests : req.kind = "form" => req.patch.description = Keep

\* A form always carries the version of the page it is on.
Conditional(req) ==
  \/ req.kind = "form"
  \/ req.kind \in {"patch", "batch", "save"} /\ req.conditional

PatchEmpty(p) ==
  /\ \A f \in {"details", "description", "status", "project", "milestone",
               "parent", "labels", "archived"} : p[f] = Keep
  /\ p.add = << >> /\ p.remove = {}

\* Mutant: every role may overwrite.
RoleAllowsAnyone(req) == TRUE

\* Overwriting a description needs an admin token.
RoleAllows(req) == req.admin \/ ~req.patch.replace

-----------------------------------------------------------------------------
(***************************************************************************)
(* Handlers: the store calls a request comes to, in order.  A handler that *)
(* refuses its request before any of them has none.                        *)
(***************************************************************************)
When(condition, step) == IF condition THEN <<step>> ELSE << >>

Patching(key, patch, expect) ==
  [do |-> "patch", key |-> key, patch |-> [patch EXCEPT !.expect = expect]]

Appending(key, text) == [do |-> "append", key |-> key, text |-> text]

Commenting(key, body, idem) ==
  [do |-> "comment", key |-> key, body |-> body, idem |-> idem]

\* An issue created without an admin token gets the agent label, which is
\* created if it is missing.
CreateSteps(req) ==
  IF req.admin \/ AgentLabel = None THEN <<[do |-> "create", in |-> req.in]>>
  ELSE <<[do |-> "ensure", label |-> AgentLabel],
         [do |-> "create", in |-> [req.in EXCEPT !.labels = @ \cup {AgentLabel}]]>>

PatchSteps(req, expect) ==
  When(RoleAllows(req) /\ ~PatchEmpty(req.patch),
       Patching(req.key, req.patch, expect[req.key]))

\* Each item as its own PATCH; none of them stops the others.
BatchSteps(req, expect) ==
  IF RoleAllows(req) /\ ~PatchEmpty(req.patch)
    THEN [i \in DOMAIN req.keys |->
            Patching(req.keys[i], req.patch, expect[req.keys[i]])]
    ELSE << >>

\* The append moves the version, so the patch after it goes without one.
SaveSteps(req, expect) ==
  IF ~RoleAllows(req) THEN << >>
  ELSE When(req.text # None, Appending(req.key, req.text))
       \o When(~PatchEmpty(req.patch),
               Patching(req.key, req.patch,
                        IF req.text # None THEN Keep ELSE expect[req.key]))

FormSteps(req, expect) ==
  When(req.body # None, Commenting(req.key, req.body, None))
  \o When(~PatchEmpty(req.patch), Patching(req.key, req.patch, expect[req.key]))

Steps(req, expect) ==
  CASE req.kind = "patch"   -> PatchSteps(req, expect)
    [] req.kind = "batch"   -> BatchSteps(req, expect)
    [] req.kind = "append"  -> <<Appending(req.key, req.text)>>
    [] req.kind = "comment" -> <<Commenting(req.key, req.body, req.idem)>>
    [] req.kind = "create"  -> CreateSteps(req)
    [] req.kind = "save"    -> SaveSteps(req, expect)
    [] req.kind = "form"    -> FormSteps(req, expect)

\* Mutant: a handler carries on after a failed step.
NeverStops(req) == FALSE

StopsOnError(req) == req.kind # "batch"

-----------------------------------------------------------------------------
(***************************************************************************)
(* What the store makes of one step.                                       *)
(***************************************************************************)
Conflicts(step) ==
  step.do = "patch" /\ step.patch.expect \notin {Keep, issues[step.key].version}

Refuses(step) ==
  \/ /\ step.do = "patch"
     /\ ~Conflicts(step)
     /\ \/ ~DescriptionAllowed(issues[step.key], step.patch)
        \/ MilestonesAfter(issues[step.key], step.patch) = {}
        \/ step.patch.parent \notin {Keep, 0} /\ ~ParentAllowed(step.key, step.patch.parent)
        \/ ~LabelsAccepted(step.patch.labels, step.patch.add, step.patch.remove)
  \/ /\ step.do = "create"
     /\ ~KeySpent("issue", step.in.idem)
     /\ \/ step.in.parent \notin Keys \cup {0}
        \/ Resolved(step.in.project, step.in.milestone) = {}
        \/ ~LabelsAccepted(step.in.labels, << >>, {})

\* Answered with the row as it is: a patch that changes nothing, a repeated
\* idempotency key, a label that exists.
ChangesNothing(step) ==
  \/ /\ step.do = "patch" /\ ~Conflicts(step) /\ ~Refuses(step)
     /\ \E m \in MilestonesAfter(issues[step.key], step.patch) :
          Loaded(Patched(issues[step.key], step.patch, m)) = Loaded(issues[step.key])
  \/ step.do = "create" /\ KeySpent("issue", step.in.idem)
  \/ step.do = "comment" /\ KeySpent("comment", step.idem)
  \/ step.do = "ensure" /\ step.label \in labels

Writes(step) ==
  \/ step.do = "patch" /\ UpdateIssue(step.key, step.patch)
  \/ step.do = "append" /\ AppendDescription(step.key, step.text)
  \/ step.do = "comment" /\ AddComment(step.key, step.body, 0, step.idem)
  \/ step.do = "create" /\ CreateIssue(step.in)
  \/ step.do = "ensure" /\ EnsureLabel(step.label)

Failures == {"conflict", "refused", "busy"}

\* One store call.  A store that is busy answers so before it writes.
Outcome(step, result) ==
  \/ result = "written" /\ Writes(step)
  \/ /\ \/ result = "same" /\ ChangesNothing(step)
        \/ result = "conflict" /\ Conflicts(step)
        \/ result = "refused" /\ Refuses(step)
        \/ result = "busy"
     /\ UNCHANGED vars

-----------------------------------------------------------------------------
(***************************************************************************)
(* Callers                                                                 *)
(***************************************************************************)

\* The issues a request names.
Named(req) ==
  CASE req.kind = "create" -> {}
    [] req.kind = "batch"  -> {req.keys[i] : i \in DOMAIN req.keys}
    [] OTHER               -> {req.key}

\* A caller reads the issues it names, then asks for its write.
Begin(c, req) ==
  /\ calls[c].phase = "idle"
  /\ Named(req) \subseteq Keys
  /\ calls' = [calls EXCEPT ![c] =
       [phase |-> "ready", req |-> req, attempt |-> 0, readAt |-> Len(events),
        expect |-> [k \in Keys |-> IF Conditional(req) THEN issues[k].version
                                  ELSE Keep],
        answer |-> None]]
  /\ UNCHANGED <<vars, handlers, by>>

\* Mutant: the attempts are not counted.
AttemptUncounted(c) ==
  /\ calls[c].phase = "ready"
  /\ calls' = [calls EXCEPT ![c] = [@ EXCEPT !.phase = "waiting", !.attempt = 1]]
  /\ \/ handlers' = handlers \cup {[call |-> c, attempt |-> 1, results |-> << >>]}
     \/ UNCHANGED handlers
  /\ UNCHANGED <<vars, by>>

\* One attempt goes out.  It may never reach the server.
Attempt(c) ==
  LET n == calls[c].attempt + 1 IN
  /\ calls[c].phase = "ready"
  /\ calls' = [calls EXCEPT ![c] = [@ EXCEPT !.phase = "waiting", !.attempt = n]]
  /\ \/ handlers' = handlers \cup {[call |-> c, attempt |-> n, results |-> << >>]}
     \/ UNCHANGED handlers
  /\ UNCHANGED <<vars, by>>

\* Mutant: every request is repeated.
RepeatableAlways(req) == TRUE

\* client.Do repeats every method but a POST without an idempotency key; other
\* clients send a request once.
Repeatable(req) ==
  \/ req.kind \in {"patch", "batch"}
  \/ req.kind = "comment" /\ req.idem # None
  \/ req.kind = "create" /\ req.in.idem # None

Retries(call) == Repeatable(call.req) /\ call.attempt < MaxAttempts

\* The attempt failed in a way worth retrying.
FailAttempt(c, answer) ==
  calls' = [calls EXCEPT ![c] =
    IF Retries(@) THEN [@ EXCEPT !.phase = "ready", !.answer = None]
    ELSE [@ EXCEPT !.phase = "done", !.answer = answer]]

\* The connection was refused or dropped, or the request timed out, whatever
\* became of the request.
Lose(c) ==
  /\ calls[c].phase = "waiting"
  /\ FailAttempt(c, "unreachable")
  /\ UNCHANGED <<vars, handlers, by>>

-----------------------------------------------------------------------------
(***************************************************************************)
(* The server                                                              *)
(***************************************************************************)
CallOf(h) == calls[h.call]

StepsOf(h) == Steps(CallOf(h).req, CallOf(h).expect)

Finished(h) ==
  \/ Len(h.results) = Len(StepsOf(h))
  \/ /\ StopsOnError(CallOf(h).req)
     /\ h.results # << >> /\ Last(h.results) \in Failures

Handle(h) ==
  LET n == Len(h.results) + 1 IN
  /\ ~Finished(h)
  /\ \E result \in {"written", "same"} \cup Failures :
       /\ Outcome(StepsOf(h)[n], result)
       /\ handlers' = (handlers \ {h}) \cup
            {[h EXCEPT !.results = Append(@, result)]}
  /\ by' = IF events' = events THEN by
           ELSE Append(by, [call |-> h.call, attempt |-> h.attempt, step |-> n])
  /\ UNCHANGED calls

\* A batch is answered with what became of each item.
Reply(h) ==
  IF CallOf(h).req.kind = "batch" THEN "each"
  ELSE IF h.results = << >> THEN "refused" ELSE Last(h.results)

\* The reply reaches its caller, if the caller still waits for it.
Answer(h) ==
  LET c == h.call IN
  /\ Finished(h)
  /\ handlers' = handlers \ {h}
  /\ IF calls[c].phase = "waiting" /\ calls[c].attempt = h.attempt
       THEN IF Reply(h) = "busy"
              THEN FailAttempt(c, "busy")
              ELSE calls' = [calls EXCEPT ![c] =
                     [@ EXCEPT !.phase = "done", !.answer = Reply(h)]]
       ELSE UNCHANGED calls
  /\ UNCHANGED <<vars, by>>

-----------------------------------------------------------------------------
Idle == [phase |-> "idle", attempt |-> 0, answer |-> None]

FirstRow ==
  [details |-> First.details, description |-> First.description,
   status |-> First.status, project |-> First.project, milestone |-> 0,
   parent |-> 0, labels |-> First.labels, startedAt |-> 0, completedAt |-> 0,
   canceledAt |-> 0, archivedAt |-> 0, version |-> 0]

\* The database holds the one issue that a create of First made.
CallInit ==
  /\ issues = <<FirstRow>>
  /\ issueSeq = 1
  /\ comments = << >>
  /\ relations = {}
  /\ milestones = << >>
  /\ labels = Labels \ {AgentLabel}
  /\ groups = {}
  /\ spent = {}
  /\ events = <<[action |-> "issue.created", row |-> 1, before |-> None,
                 after |-> Loaded(FirstRow)]>>
  /\ calls = [c \in Callers |-> Idle]
  /\ handlers = {}
  /\ by = <<[call |-> None, attempt |-> 0, step |-> 0]>>

CallNext ==
  \/ \E c \in Callers : \/ \E req \in Requests : Begin(c, req)
                        \/ Attempt(c)
                        \/ Lose(c)
  \/ \E h \in handlers : Handle(h) \/ Answer(h)

\* An attempt ends by itself: http.Client.Timeout bounds it.  Nothing is
\* assumed of the server.
Fairness == \A c \in Callers : WF_callVars(Attempt(c)) /\ WF_callVars(Lose(c))

CallSpec == CallInit /\ [][CallNext]_callVars /\ Fairness
=============================================================================
