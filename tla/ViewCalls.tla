------------------------------ MODULE ViewCalls ------------------------------
(***************************************************************************)
(* The callers that share the views: REST and MCP callers and the command  *)
(* line, which change a view by its name, people at the web board, who     *)
(* change it from a form and press the quick actions it put on a page, and *)
(* consumers of the activity feed, which shows the events of the views     *)
(* they may see.                                                           *)
(*                                                                         *)
(* A handler looks the name up to decide whether the caller may change the *)
(* view, and hands the name to UpdateView, which looks it up again: two    *)
(* transactions, with any write in between.  What the caller read before   *)
(* it sent the request is older still.                                     *)
(***************************************************************************)
EXTENDS ViewStore

CONSTANTS
  Admins,         \* tokens with the admin role
  ActorFromToken, \* the actor_from_token setting
  Callers,
  Requests,       \* what callers ask for
  MaxAttempts,    \* 1 + len(retryDelays)
  Visitor,        \* the token of the person at the board
  Consumers,      \* readers of the feed, by token
  PageSize        \* the limit of a feed page

VARIABLES
  calls,   \* caller -> the one call it makes
  page,    \* the view page in the browser, or None: a row, and the view as it was
  pressed, \* what has come of the button that was pressed on it
  feeds    \* consumer -> how far it has read

callVars == <<views, events, calls, page, pressed, feeds>>

-----------------------------------------------------------------------------
(***************************************************************************)
(* Requests.  "create" is POST /views, the save_view tool in mode create   *)
(* and the new-view form; "patch" is PATCH /views/{name} and save_view in  *)
(* mode update; "cli" is trackd view update, which reads the filter it     *)
(* changes a part of, the fields it drops included; "form" is the edit     *)
(* page of the board, "button" its archive button.  who is the token, as   *)
(* the actor the request names.                                            *)
(***************************************************************************)
Request ==
  [kind: {"create"}, who: Tokens, as: Tokens, in: ViewInput]
  \cup [kind: {"patch", "form", "button"}, who: Tokens, as: Tokens,
        name: Names, patch: ViewPatch]
  \cup [kind: {"cli"}, who: Tokens, as: Tokens, name: Names, patch: ViewPatch,
        drop: SUBSET FilterFields]

OnBoard(req) == req.kind \in {"form", "button"}

ASSUME RequestAssumption ==
  /\ Requests \subseteq Request
  /\ Admins \subseteq Tokens /\ Consumers \subseteq Tokens /\ Visitor \in Tokens
  /\ \A req \in Requests : OnBoard(req) => req.as = req.who
  /\ MaxAttempts \in Nat \ {0} /\ PageSize \in Nat \ {0}

\* Naming another actor is for admins while actor_from_token is on.
ActorAllowed(req) ==
  \/ req.as = req.who
  \/ req.who \in Admins
  \/ ~ActorFromToken

\* Mutant: whoever may see a view may change it.
CanEditSeen(v, who) == v.shared \/ who \in Admins \/ v.owner = who

CanEdit(v, who) == who \in Admins \/ v.owner = who

CanSee(v, who) == v.shared \/ who \in Admins \/ v.owner = who

Visible(name, who) == {k \in Found(name) : CanSee(views[k], who)}

-----------------------------------------------------------------------------
(***************************************************************************)
(* What a request sends.  The forms post every field as it was rendered    *)
(* but for the ones the person changed, and the command line posts the     *)
(* whole filter with its own fields changed.                               *)
(***************************************************************************)
Rendered(v, p) ==
  [name |-> Pick(p.name, v.name), shared |-> Pick(p.shared, v.shared),
   archived |-> Keep, filter |-> Pick(p.filter, v.filter),
   quick |-> Pick(p.quick, v.quick)]

\* A flag sets the field of the filter it names, over the stored one, and a
\* --clear flag drops it.
WithFlags(filter, flags, drop) ==
  [x \in FilterFields |->
     IF x \in drop THEN None ELSE IF flags[x] # None THEN flags[x] ELSE filter[x]]

NoFlags == [x \in FilterFields |-> None]

\* trackd view update: the filter goes out only if the flags changed it.
Overlaid(v, p, drop) ==
  LET filter == WithFlags(v.filter, Pick(p.filter, NoFlags), drop)
  IN [p EXCEPT !.filter = IF filter = v.filter THEN Keep ELSE filter]

Body(req, v) ==
  CASE req.kind = "form" -> Rendered(v, req.patch)
    [] req.kind = "cli"  -> Overlaid(v, req.patch, req.drop)
    [] OTHER             -> req.patch

PatchEmpty(p) == \A f \in DOMAIN p : p[f] = Keep

\* The row whose fields the request is made from, if it is made from one:
\* the edit page asks whether the view is live and may be changed.
Source(req) ==
  IF req.kind = "cli" THEN Visible(req.name, req.who)
  ELSE {k \in Visible(req.name, req.who) :
          ~views[k].archived /\ CanEdit(views[k], req.who)}

Sent(req, body) ==
  [at |-> "sent", req |-> req, body |-> body, row |-> 0, attempt |-> 1]

\* What is read for a request that carries what was read.
Read(c, req) ==
  /\ calls[c].at = "idle"
  /\ req.kind \in {"cli", "form", "button"}
  /\ \E k \in Source(req) :
       LET body == Body(req, views[k])
       IN ~PatchEmpty(body) /\ calls' = [calls EXCEPT ![c] = Sent(req, body)]
  /\ UNCHANGED <<views, events, page, pressed, feeds>>

\* The requests that may reach the server from caller c.
Arriving(c) ==
  CASE calls[c].at = "idle" ->
         {Sent(req, req.patch) : req \in {r \in Requests : r.kind = "patch"}}
    [] calls[c].at = "sent" -> {calls[c]}
    [] OTHER -> {}

-----------------------------------------------------------------------------
(***************************************************************************)
(* Handlers.                                                               *)
(***************************************************************************)
Over == [at |-> "over"]

\* A call is over when it is answered, unless the HTTP client may yet send it
\* again for want of the answer.
Answered(call) ==
  IF call.req.kind \in {"patch", "cli"} /\ call.attempt < MaxAttempts
    THEN [call EXCEPT !.at = "answered", !.row = 0] ELSE Over

\* The first look-up: the view of that name, if the caller sees it and may
\* change it, and on the board only if it is live.
MayChange(req) ==
  {k \in Visible(req.name, req.who) :
     /\ CanEdit(views[k], req.who)
     /\ OnBoard(req) => ~views[k].archived
     /\ ActorAllowed(req)}

Check(c) ==
  /\ \E call \in Arriving(c) :
       LET rows == IF PatchEmpty(call.body) THEN {} ELSE MayChange(call.req)
       IN calls' = [calls EXCEPT ![c] =
            IF rows = {} THEN Answered(call)
            ELSE [call EXCEPT !.at = "checked", !.row = CHOOSE k \in rows : TRUE]]
  /\ UNCHANGED <<views, events, page, pressed, feeds>>

\* The second look-up and the write, or the store's refusal.
Apply(c) ==
  LET name == calls[c].req.name
      patch == calls[c].body
      accepted == \E k \in Found(name) : PatchAllowed(k, patch)
  IN /\ calls[c].at = "checked"
     /\ calls' = [calls EXCEPT ![c] = Answered(@)]
     /\ IF accepted THEN UpdateView(name, patch) ELSE UNCHANGED storeVars
     /\ UNCHANGED <<page, pressed, feeds>>

\* One transaction, and a POST that is never sent again.
Create(c) ==
  /\ calls[c].at = "idle"
  /\ \E req \in Requests :
       /\ req.kind = "create"
       /\ ActorAllowed(req)
       /\ CreateView(req.in, req.as)
  /\ calls' = [calls EXCEPT ![c] = Over]
  /\ UNCHANGED <<page, pressed, feeds>>

\* The reply is lost and the HTTP client sends the PATCH again.
Repeat(c) ==
  /\ calls[c].at = "answered"
  /\ LET call == calls[c]
     IN calls' = [calls EXCEPT ![c] =
          [call EXCEPT !.at = "sent", !.attempt = call.attempt + 1]]
  /\ UNCHANGED <<views, events, page, pressed, feeds>>

-----------------------------------------------------------------------------
(***************************************************************************)
(* A view page and its quick actions.  One page with buttons is opened and *)
(* one of them pressed.                                                    *)
(***************************************************************************)
Open(name) ==
  /\ page = None /\ pressed = "no"
  /\ \E k \in Visible(name, Visitor) :
       /\ ~views[k].archived /\ views[k].quick # {}
       /\ page' = [row |-> k, view |-> views[k]]
  /\ UNCHANGED <<views, events, calls, pressed, feeds>>

\* The signature is of the whole action, its name included.
SameAction(q, shown) == q = shown

\* The view is looked up again by the name the form carries.
StillThere(shown) ==
  \E k \in Visible(page.view.name, Visitor) : \E q \in views[k].quick : SameAction(q, shown)

\* The browser posts the form and leaves the page.  The handler goes on to
\* patch the issue, or tells the person that the action changed since the page
\* was loaded.
Press(shown) ==
  /\ page # None
  /\ pressed = "no"
  /\ shown \in page.view.quick
  /\ pressed' = IF StillThere(shown) THEN "patching" ELSE "refused"
  /\ page' = None
  /\ UNCHANGED <<views, events, calls, feeds>>

\* The patch of the issue, another write of the store, or its refusal.
Settle ==
  /\ pressed = "patching"
  /\ pressed' = "over"
  /\ OtherWrite \/ UNCHANGED storeVars
  /\ UNCHANGED <<calls, page, feeds>>

-----------------------------------------------------------------------------
(***************************************************************************)
(* The activity feed: the events after the cursor that the reader may see, *)
(* oldest first, a page at a time.                                         *)
(***************************************************************************)
InFeed(n, who) ==
  \/ events[n].action \notin ViewActions
  \/ CanSee(views[events[n].row], who)

\* Mutant: the page is cut first and private views are dropped from it.
FeedPageCutFirst(cursor, who) ==
  {n \in DOMAIN events : cursor < n /\ n <= cursor + PageSize /\ InFeed(n, who)}

FeedPage(cursor, who) ==
  LET after == {n \in DOMAIN events : n > cursor /\ InFeed(n, who)}
  IN {n \in after : Cardinality({m \in after : m <= n}) <= PageSize}

\* The cursor of a full page is its last event.  A short page ends the walk;
\* whoever goes on asking goes on from the last event it has.
ReadFeed(who) ==
  LET read == FeedPage(feeds[who].cursor, who)
  IN /\ feeds' = [feeds EXCEPT ![who] =
          [cursor |-> IF read = {} THEN @.cursor
                      ELSE CHOOSE n \in read : \A m \in read : m <= n,
           got |-> @.got \cup read,
           ended |-> Cardinality(read) < PageSize]]
     /\ UNCHANGED <<views, events, calls, page, pressed>>

-----------------------------------------------------------------------------
Idle == [at |-> "idle"]

CallInit ==
  /\ Init
  /\ calls = [c \in Callers |-> Idle]
  /\ page = None
  /\ pressed = "no"
  /\ feeds = [who \in Consumers |-> [cursor |-> 0, got |-> {}, ended |-> FALSE]]

CallNext ==
  \/ \E c \in Callers :
       \/ \E req \in Requests : Read(c, req)
       \/ Check(c) \/ Apply(c) \/ Create(c) \/ Repeat(c)
  \/ \E name \in Names : Open(name)
  \/ \E shown \in QuickAction : Press(shown)
  \/ Settle
  \/ \E who \in Consumers : ReadFeed(who)

ViewSpec == CallInit /\ [][CallNext]_callVars
=============================================================================
