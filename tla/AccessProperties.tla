-------------------------- MODULE AccessProperties --------------------------
(***************************************************************************)
(* What tokens and sessions promise to those who use and revoke them.      *)
(***************************************************************************)
EXTENDS Access

Token == [name: TokenNames, revoked: BOOLEAN]

Session(row) == row.token \in DOMAIN tokens /\ row.expires \in Nat

\* What a request holds on to: a token that exists, an id a browser sent, when
\* it read the clock, a cookie that is or was one.
Flight(flight) ==
  \/ flight.at = "idle"
  \/ flight.at = "starting" /\ flight.token \in DOMAIN tokens /\ flight.now \in Nat
  \/ flight.at = "looking" /\ flight.id \in SessionIds /\ flight.now \in Nat
  \/ /\ flight.at = "found" /\ flight.id \in SessionIds
     /\ flight.now \in Nat /\ flight.expires \in Nat
  \/ flight.at = "renewing" /\ flight.id \in SessionIds /\ flight.now \in Nat
  \/ flight.at = "leaving" /\ flight.id \in SessionIds
  \/ flight.at = "response" /\ flight.cookie \in SessionIds \cup {None, Keep}

\* Sessions are of tokens that exist and under ids that were handed out.
AccessTypeOK ==
  /\ clock \in Nat /\ up \in BOOLEAN
  /\ tokens \in Seq(Token)
  /\ DOMAIN sessions \subseteq minted /\ minted \subseteq SessionIds
  /\ \A id \in DOMAIN sessions : Session(sessions[id])
  /\ jars \in [Browsers -> SessionIds \cup {None}]
  /\ DOMAIN flights = Requests
  /\ \A r \in Requests : Flight(flights[r])
  /\ visited \in [SessionIds -> Nat]

\* A session ends by logout, by a sweep or with its token, and then for every
\* request; one that has expired has not ended for a renewal that read the clock
\* before that and still waits for the connection.
Gone(id) == id \notin DOMAIN sessions \/ ~Valid(sessions[id].token)

InTime(r, id) ==
  /\ flights[r].at = "renewing" /\ flights[r].id = id
  /\ flights[r].now < sessions[id].expires

Ended(id) ==
  Gone(id) \/ (~Resolves(id) /\ \A r \in Requests : ~InTime(r, id))

\* A session that has ended never works again: no renewal, however long ago it
\* was asked for, no sign-in, no restart and no other session's renewal brings
\* its cookie back (RenewUISession, CreateUISession).
EndedStaysEnded ==
  [][\A id \in minted : Ended(id) => Ended(id)']_vars

\* Nothing else ends a session: not a restart, not another sign-in and its
\* sweep, not a renewal that comes late, not the end of another session.
EndsOnlyAsAsked ==
  [][\A id \in minted : Resolves(id) /\ ~Resolves(id)' =>
       \/ clock' >= sessions[id].expires
       \/ tokens'[sessions[id].token].revoked
       \/ \E r \in Requests :
            /\ flights[r].at = "leaving" /\ flights[r].id = id
            /\ flights'[r] = Response(None)]_vars

\* A board someone visits stays signed in: as long as a session lives, its
\* last visit was good for another TTL - RenewAfter (uiAuth), unless the
\* database refused its renewal.
VisitsExtend ==
  \A id \in minted : Resolves(id) =>
    sessions[id].expires >= visited[id] + (TTL - RenewAfter)

\* "Renewing a session that has already expired or been deleted is a quiet
\* no-op: the next lookup fails and the browser lands on the login form"
\* (internal/store/sessions.go:69-71).
ExpiredStaysExpired ==
  [][\A id \in minted : ~Resolves(id) => ~Resolves(id)']_vars
=============================================================================
