------------------------------- MODULE Access -------------------------------
(***************************************************************************)
(* Who may use the server: API tokens, and the web sessions that stand for *)
(* one in a browser.  Tokens are added and revoked by commands that take   *)
(* the exclusive lock, so only while no server runs; sessions live in the  *)
(* database and outlast it.  A page of the board looks its session up,     *)
(* renews it in a statement of its own when it is a day old, and sets the  *)
(* cookie with its response.  The store reads the clock in Go, and the     *)
(* statement that compares with it waits for the one connection: between   *)
(* the two, as between any steps of a request, others may log out, sign    *)
(* in or renew, and time passes.                                           *)
(*                                                                         *)
(* Time is a counter.  Readings of the clock that follow each other with   *)
(* nothing to wait for in between are one.  A token's plaintext is its row *)
(* id, which nobody guesses.  Roles, last_used_at and the events of        *)
(* tokens, which nothing here reads, are left out.                         *)
(***************************************************************************)
EXTENDS Naturals, Sequences, FiniteSets

CONSTANTS
  TokenNames,
  SessionIds, \* the random ids newSessionID may mint
  Browsers,
  Requests,   \* requests in flight at a time
  Jar,        \* the browser each of them belongs to
  TTL,        \* uiSessionTTL
  RenewAfter, \* uiSessionRenewAfter
  MaxWait,    \* how old a reading of the clock gets before it is used
  MaxTime,    \* bound on the clock
  None,       \* no cookie
  Keep        \* a response that sets no cookie

VARIABLES
  clock,
  up,       \* a server runs, and holds the lock
  tokens,   \* the tokens table, in id order
  sessions, \* the ui_sessions table: id -> row
  minted,   \* the session ids handed out so far
  jars,     \* browser -> the cookie it holds
  flights,  \* request -> what it has come to
  visited   \* session -> when it last got a page, but for a refused renewal

vars == <<clock, up, tokens, sessions, minted, jars, flights, visited>>

ASSUME TimeAssumption ==
  /\ {TTL, RenewAfter, MaxWait, MaxTime} \subseteq Nat
  /\ 0 < RenewAfter /\ RenewAfter < TTL
ASSUME JarAssumption == Jar \in [Requests -> Browsers]
ASSUME CookieAssumption == None \notin SessionIds /\ Keep \notin SessionIds \cup {None}

-----------------------------------------------------------------------------
Valid(t) == t \in DOMAIN tokens /\ ~tokens[t].revoked

\* What UISession answers for a cookie to whoever has read the clock at now.
ResolvesAt(id, now) ==
  /\ id \in DOMAIN sessions
  /\ sessions[id].expires > now
  /\ Valid(sessions[id].token)

\* The cookie works for a request that comes in now.
Resolves(id) == ResolvesAt(id, clock)

Idle == [at |-> "idle"]

\* A response on its way, and the cookie it sets.
Response(cookie) == [at |-> "response", cookie |-> cookie]

Goes(r, flight) == flights' = [flights EXCEPT ![r] = flight]

-----------------------------------------------------------------------------
(***************************************************************************)
(* Tokens.  A name is used once, revoked or not.                           *)
(***************************************************************************)
NewToken(name) ==
  /\ \A t \in DOMAIN tokens : tokens[t].name # name
  /\ tokens' = Append(tokens, [name |-> name, revoked |-> FALSE])

TokenAdd(name) ==
  /\ ~up
  /\ NewToken(name)
  /\ UNCHANGED <<clock, up, sessions, minted, jars, flights, visited>>

TokenRevoke(name) ==
  /\ ~up
  /\ \E t \in DOMAIN tokens :
       /\ Valid(t) /\ tokens[t].name = name
       /\ tokens' = [tokens EXCEPT ![t].revoked = TRUE]
  /\ UNCHANGED <<clock, up, sessions, minted, jars, flights, visited>>

\* The first server on a database without tokens makes one.
Serve ==
  /\ ~up
  /\ up' = TRUE
  /\ IF tokens = << >> THEN \E name \in TokenNames : NewToken(name)
     ELSE UNCHANGED tokens
  /\ UNCHANGED <<clock, sessions, minted, jars, flights, visited>>

\* The server ends, killed or not.  Requests it was working on are gone;
\* responses it has sent still arrive.
Stop ==
  /\ up
  /\ up' = FALSE
  /\ flights' = [r \in Requests |->
       IF flights[r].at = "response" THEN flights[r] ELSE Idle]
  /\ UNCHANGED <<clock, tokens, sessions, minted, jars, visited>>

-----------------------------------------------------------------------------
(***************************************************************************)
(* Signing in: VerifyToken, then CreateUISession, which reads the clock    *)
(* for both the sweep and the new row.                                     *)
(***************************************************************************)
Login(r, t) ==
  /\ up
  /\ flights[r] = Idle
  /\ Valid(t)
  /\ Goes(r, [at |-> "starting", token |-> t, now |-> clock])
  /\ UNCHANGED <<clock, up, tokens, sessions, minted, jars, visited>>

\* Mutant: the sweep takes the rows that are about to expire as well.
SweptEarly(now) == {id \in DOMAIN sessions : sessions[id].expires <= now + 1}

\* The rows CreateUISession sweeps.
Swept(now) == {id \in DOMAIN sessions : sessions[id].expires <= now}

StartSession(r) ==
  LET now == flights[r].now
  IN /\ up
     /\ flights[r].at = "starting"
     /\ \E id \in SessionIds \ minted :
          /\ sessions' = [s \in (DOMAIN sessions \ Swept(now)) \cup {id} |->
               IF s = id THEN [token |-> flights[r].token, expires |-> now + TTL]
               ELSE sessions[s]]
          /\ minted' = minted \cup {id}
          /\ Goes(r, Response(id))
     /\ UNCHANGED <<clock, up, tokens, jars, visited>>

-----------------------------------------------------------------------------
(***************************************************************************)
(* A page: the session is looked up, and renewed a while into its life.    *)
(***************************************************************************)
Visit(r) ==
  /\ up
  /\ flights[r] = Idle
  /\ jars[Jar[r]] # None
  /\ Goes(r, [at |-> "looking", id |-> jars[Jar[r]], now |-> clock])
  /\ UNCHANGED <<clock, up, tokens, sessions, minted, jars, visited>>

\* A cookie that resolves to nothing gets the login form.
LookUp(r) ==
  LET flight == flights[r]
  IN /\ up
     /\ flight.at = "looking"
     /\ Goes(r, IF ResolvesAt(flight.id, flight.now)
                  THEN [at |-> "found", id |-> flight.id, now |-> flight.now,
                        expires |-> sessions[flight.id].expires]
                  ELSE Idle)
     /\ UNCHANGED <<clock, up, tokens, sessions, minted, jars, visited>>

\* Mutant: renewal waits until the session is nearly over.
RenewalDueLate(expires) == expires < clock + RenewAfter

RenewalDue(expires) == expires < clock + (TTL - RenewAfter)

Served(id) == visited' = [visited EXCEPT ![id] = clock]

\* uiAuth asks the clock again, about the expiry it was told.
Judge(r) ==
  LET id == flights[r].id
  IN /\ up
     /\ flights[r].at = "found"
     /\ IF RenewalDue(flights[r].expires)
          THEN Goes(r, [at |-> "renewing", id |-> id, now |-> clock]) /\ UNCHANGED visited
          ELSE Goes(r, Response(Keep)) /\ Served(id)
     /\ UNCHANGED <<clock, up, tokens, sessions, minted, jars>>

\* Mutant: a session that has expired is renewed too.
RenewableForever(id, now) == id \in DOMAIN sessions

\* The rows RenewUISession's UPDATE finds, with the clock as it was read.
Renewable(id, now) == id \in DOMAIN sessions /\ sessions[id].expires > now

\* A renewal that finds no row is a quiet no-op, and the page and its cookie
\* go out as if it had found one.
Renew(r) ==
  LET id == flights[r].id
      now == flights[r].now
  IN /\ up
     /\ flights[r].at = "renewing"
     /\ IF Renewable(id, now)
          THEN sessions' = [sessions EXCEPT ![id].expires = now + TTL]
          ELSE UNCHANGED sessions
     /\ Goes(r, Response(id))
     /\ Served(id)
     /\ UNCHANGED <<clock, up, tokens, minted, jars>>

-----------------------------------------------------------------------------
\* Signing out: the session is deleted, and the response clears the cookie.
Logout(r) ==
  /\ up
  /\ flights[r] = Idle
  /\ jars[Jar[r]] # None
  /\ Goes(r, [at |-> "leaving", id |-> jars[Jar[r]]])
  /\ UNCHANGED <<clock, up, tokens, sessions, minted, jars, visited>>

Delete(r) ==
  /\ up
  /\ flights[r].at = "leaving"
  /\ sessions' = [s \in DOMAIN sessions \ {flights[r].id} |-> sessions[s]]
  /\ Goes(r, Response(None))
  /\ UNCHANGED <<clock, up, tokens, minted, jars, visited>>

\* The database refuses a statement.  A renewal or a delete is then only
\* logged; a look-up ends at the login form, a sign-in in an error.
Refused(r) ==
  /\ up
  /\ \/ flights[r].at \in {"starting", "looking"} /\ Goes(r, Idle)
     \/ flights[r].at = "renewing" /\ Goes(r, Response(Keep))
     \/ flights[r].at = "leaving" /\ Goes(r, Response(None))
  /\ UNCHANGED <<clock, up, tokens, sessions, minted, jars, visited>>

\* A response reaches its browser, in whatever order, or never does.
Arrive(r) ==
  /\ flights[r].at = "response"
  /\ Goes(r, Idle)
  /\ \/ /\ flights[r].cookie # Keep
        /\ jars' = [jars EXCEPT ![Jar[r]] = flights[r].cookie]
     \/ UNCHANGED jars
  /\ UNCHANGED <<clock, up, tokens, sessions, minted, visited>>

\* Bound: a reading of the clock is used before it is older than MaxWait.
Fresh(flight) ==
  flight.at \in {"starting", "looking", "found", "renewing"} =>
    clock < flight.now + MaxWait

Tick ==
  /\ clock < MaxTime
  /\ \A r \in Requests : Fresh(flights[r])
  /\ clock' = clock + 1
  /\ UNCHANGED <<up, tokens, sessions, minted, jars, flights, visited>>

-----------------------------------------------------------------------------
Init ==
  /\ clock = 0
  /\ up = FALSE
  /\ tokens = << >>
  /\ sessions = << >>
  /\ minted = {}
  /\ jars = [b \in Browsers |-> None]
  /\ flights = [r \in Requests |-> Idle]
  /\ visited = [id \in SessionIds |-> 0]

TokenNext == \E name \in TokenNames : TokenAdd(name) \/ TokenRevoke(name)

RequestNext ==
  \E r \in Requests :
    \/ \E t \in DOMAIN tokens : Login(r, t)
    \/ StartSession(r) \/ Visit(r) \/ LookUp(r) \/ Judge(r) \/ Renew(r)
    \/ Logout(r) \/ Delete(r) \/ Refused(r) \/ Arrive(r)

Next == TokenNext \/ Serve \/ Stop \/ RequestNext \/ Tick

AccessSpec == Init /\ [][Next]_vars
=============================================================================
