---------------------------- MODULE Access_proofs ----------------------------
(***************************************************************************)
(* Proofs about tokens and sessions, for any number of them and any times. *)
(***************************************************************************)
EXTENDS AccessProperties, TLAPS

\* A request that goes to a flight of the type leaves all of them so, as long
\* as the tokens stay.
LEMMA GoesType ==
  ASSUME AccessTypeOK, NEW r \in Requests, NEW flight, Goes(r, flight),
         Flight(flight), UNCHANGED tokens
  PROVE  DOMAIN flights' = Requests /\ \A q \in Requests : Flight(flights[q])'
  BY DEF AccessTypeOK, Goes, Flight

LEMMA ClockGrows ==
  ASSUME AccessTypeOK, [Next]_vars
  PROVE  /\ clock \in Nat /\ clock' \in Nat /\ clock <= clock'
         /\ Tick \/ UNCHANGED clock
  <1>1. clock \in Nat
    BY DEF AccessTypeOK
  <1>2. Tick \/ UNCHANGED clock
    BY DEF Next, TokenNext, TokenAdd, TokenRevoke, Serve, Stop, RequestNext, Login,
           StartSession, Visit, LookUp, Judge, Renew, Logout, Delete, Refused, Arrive, vars
  <1> QED
    BY <1>1, <1>2 DEF Tick

LEMMA FlightTypes ==
  /\ Flight(Idle)
  /\ \A c \in SessionIds \cup {None, Keep} : Flight(Response(c))
  /\ \A t \in DOMAIN tokens, now \in Nat :
       Flight([at |-> "starting", token |-> t, now |-> now])
  /\ \A id \in SessionIds : Flight([at |-> "leaving", id |-> id])
  /\ \A id \in SessionIds, now \in Nat :
       /\ Flight([at |-> "looking", id |-> id, now |-> now])
       /\ Flight([at |-> "renewing", id |-> id, now |-> now])
       /\ \A e \in Nat :
            Flight([at |-> "found", id |-> id, now |-> now, expires |-> e])
  BY DEF Idle, Response, Flight

\* Tokens are added and revoked, and never taken away.
LEMMA TokensGrow ==
  ASSUME AccessTypeOK, [Next]_vars
  PROVE  /\ tokens' \in Seq(Token)
         /\ DOMAIN tokens \subseteq DOMAIN tokens'
         /\ \A t \in DOMAIN tokens : tokens[t].revoked => tokens'[t].revoked
  <1>1. tokens \in Seq(Token)
    BY DEF AccessTypeOK
  <1>2. ASSUME NEW name \in TokenNames, NewToken(name)
        PROVE  /\ tokens' \in Seq(Token)
               /\ DOMAIN tokens \subseteq DOMAIN tokens'
               /\ \A t \in DOMAIN tokens : tokens[t].revoked => tokens'[t].revoked
    <2> DEFINE row == [name |-> name, revoked |-> FALSE]
    <2>1. row \in Token
      BY DEF Token
    <2>2. tokens' = Append(tokens, row)
      BY <1>2 DEF NewToken
    <2> HIDE DEF row
    <2> QED
      BY <1>1, <2>1, <2>2
  <1>3. ASSUME NEW name \in TokenNames, TokenRevoke(name)
        PROVE  /\ tokens' \in Seq(Token)
               /\ DOMAIN tokens \subseteq DOMAIN tokens'
               /\ \A t \in DOMAIN tokens : tokens[t].revoked => tokens'[t].revoked
    <2>1. PICK t \in DOMAIN tokens : tokens' = [tokens EXCEPT ![t].revoked = TRUE]
      BY <1>3 DEF TokenRevoke
    <2> DEFINE row == [tokens[t] EXCEPT !.revoked = TRUE]
    <2>2. tokens[t] \in Token
      BY <1>1
    <2>3. row \in Token /\ row.revoked = TRUE
      BY <2>2 DEF Token
    <2>4. tokens' = [tokens EXCEPT ![t] = row]
      BY <2>1
    <2> HIDE DEF row
    <2> QED
      BY <1>1, <2>3, <2>4
  <1>4. CASE UNCHANGED tokens
    BY <1>1, <1>4
  <1> QED
    BY <1>2, <1>3, <1>4
    DEF Next, TokenNext, TokenAdd, Serve, Stop, RequestNext, Login, StartSession,
        Visit, LookUp, Judge, Renew, Logout, Delete, Refused, Arrive, Tick, vars

-----------------------------------------------------------------------------
LEMMA InitAccess == Init => AccessTypeOK
  <1> SUFFICES ASSUME Init PROVE AccessTypeOK
    OBVIOUS
  <1>1. tokens \in Seq(Token) /\ DOMAIN sessions = {}
    BY DEF Init
  <1> QED
    BY <1>1, FlightTypes DEF Init, AccessTypeOK

\* A step that leaves the sessions, or only takes some away, leaves the types.
LEMMA FewerSessionsType ==
  ASSUME AccessTypeOK, [Next]_vars, NEW S \in SUBSET DOMAIN sessions,
         sessions' = [s \in S |-> sessions[s]], UNCHANGED minted
  PROVE  /\ (DOMAIN sessions)' \subseteq minted' /\ minted' \subseteq SessionIds
         /\ \A id \in (DOMAIN sessions)' : Session(sessions[id])'
  BY TokensGrow DEF AccessTypeOK, Session

LEMMA SameSessionsType ==
  ASSUME AccessTypeOK, [Next]_vars, UNCHANGED <<sessions, minted>>
  PROVE  /\ (DOMAIN sessions)' \subseteq minted' /\ minted' \subseteq SessionIds
         /\ \A id \in (DOMAIN sessions)' : Session(sessions[id])'
  BY TokensGrow DEF AccessTypeOK, Session

LEMMA SameFlightsType ==
  ASSUME AccessTypeOK, [Next]_vars, UNCHANGED flights
  PROVE  DOMAIN flights' = Requests /\ \A q \in Requests : Flight(flights[q])'
  BY TokensGrow DEF AccessTypeOK, Flight

\* The actions that leave the sessions alone.
LEMMA FlightStepType ==
  ASSUME AccessTypeOK, Next, NEW r \in Requests,
         \/ \E t \in DOMAIN tokens : Login(r, t)
         \/ Visit(r) \/ LookUp(r) \/ Judge(r) \/ Logout(r) \/ Refused(r) \/ Arrive(r)
  PROVE  AccessTypeOK'
  <1>1. clock \in Nat /\ jars[Jar[r]] \in SessionIds \cup {None} /\ Flight(flights[r])
    BY JarAssumption DEF AccessTypeOK
  <1>2. ASSUME NEW flight, Goes(r, flight), Flight(flight),
               UNCHANGED <<clock, up, tokens, sessions, minted, jars>>,
               visited' \in [SessionIds -> Nat]
        PROVE  AccessTypeOK'
    BY <1>2, GoesType, SameSessionsType DEF AccessTypeOK
  <1>3. visited \in [SessionIds -> Nat]
    BY DEF AccessTypeOK
  <1>4. ASSUME NEW t \in DOMAIN tokens, Login(r, t)
        PROVE  AccessTypeOK'
    BY <1>1, <1>2, <1>3, <1>4, FlightTypes DEF Login
  <1>5. CASE Visit(r)
    BY <1>1, <1>2, <1>3, <1>5, FlightTypes DEF Visit
  <1>6. CASE LookUp(r)
    <2>1. flights[r].id \in SessionIds /\ flights[r].now \in Nat
      BY <1>1, <1>6 DEF LookUp, Flight
    <2>2. CASE ResolvesAt(flights[r].id, flights[r].now)
      <3>1. sessions[flights[r].id].expires \in Nat
        BY <2>2 DEF ResolvesAt, AccessTypeOK, Session
      <3> QED
        BY <1>2, <1>3, <1>6, <2>1, <2>2, <3>1, FlightTypes DEF LookUp
    <2>3. CASE ~ResolvesAt(flights[r].id, flights[r].now)
      BY <1>2, <1>3, <1>6, <2>3, FlightTypes DEF LookUp
    <2> QED
      BY <2>2, <2>3
  <1>7. CASE Judge(r)
    <2>1. flights[r].id \in SessionIds
      BY <1>1, <1>7 DEF Judge, Flight
    <2>2. visited' \in [SessionIds -> Nat]
      BY <1>1, <1>3, <1>7, <2>1 DEF Judge, Served
    <2> QED
      BY <1>1, <1>2, <1>7, <2>1, <2>2, FlightTypes DEF Judge
  <1>8. CASE Logout(r)
    BY <1>1, <1>2, <1>3, <1>8, FlightTypes DEF Logout
  <1>9. CASE Refused(r)
    BY <1>2, <1>3, <1>9, FlightTypes DEF Refused
  <1>10. CASE Arrive(r)
    <2>1. flights[r].cookie # Keep => flights[r].cookie \in SessionIds \cup {None}
      BY <1>1, <1>10 DEF Arrive, Flight
    <2> QED
      BY <1>10, <2>1, GoesType, FlightTypes, SameSessionsType DEF Arrive, AccessTypeOK
  <1> QED
    BY <1>4, <1>5, <1>6, <1>7, <1>8, <1>9, <1>10

LEMMA SessionStepType ==
  ASSUME AccessTypeOK, Next, NEW r \in Requests,
         StartSession(r) \/ Renew(r) \/ Delete(r)
  PROVE  AccessTypeOK'
  <1>1. CASE StartSession(r)
    <2> DEFINE now == flights[r].now
               new == [token |-> flights[r].token, expires |-> now + TTL]
    <2>1. PICK id \in SessionIds \ minted :
            /\ sessions' = [s \in (DOMAIN sessions \ Swept(now)) \cup {id} |->
                 IF s = id THEN new ELSE sessions[s]]
            /\ minted' = minted \cup {id}
            /\ Goes(r, Response(id))
      BY <1>1 DEF StartSession
    <2>2. new.token \in DOMAIN tokens /\ new.expires \in Nat
      <3>1. flights[r].token \in DOMAIN tokens /\ now \in Nat
        BY <1>1 DEF StartSession, AccessTypeOK, Flight
      <3>2. TTL \in Nat
        BY TimeAssumption
      <3> QED
        BY <3>1, <3>2
    <2>3. DOMAIN flights' = Requests /\ \A q \in Requests : Flight(flights[q])'
      BY <1>1, <2>1, GoesType, FlightTypes DEF StartSession
    <2> HIDE DEF new, now
    <2>4. \A s \in DOMAIN sessions' : Session(sessions[s])'
      BY <1>1, <2>1, <2>2 DEF StartSession, AccessTypeOK, Session
    <2> QED
      BY <1>1, <2>1, <2>3, <2>4 DEF StartSession, AccessTypeOK
  <1>2. CASE Renew(r)
    <2> DEFINE id == flights[r].id
               now == flights[r].now
    <2>1. id \in SessionIds /\ now \in Nat
      BY <1>2 DEF Renew, AccessTypeOK, Flight
    <2>2. DOMAIN flights' = Requests /\ \A q \in Requests : Flight(flights[q])'
      BY <1>2, <2>1, GoesType, FlightTypes DEF Renew
    <2>3. CASE ~Renewable(id, now)
      BY <1>2, <2>1, <2>2, <2>3, SameSessionsType DEF Renew, Served, AccessTypeOK
    <2>4. CASE Renewable(id, now)
      <3> DEFINE row == [sessions[id] EXCEPT !.expires = now + TTL]
      <3>1. Session(row)
        BY <2>1, <2>4, TimeAssumption DEF Renewable, AccessTypeOK, Session
      <3>2. sessions' = [sessions EXCEPT ![id] = row]
        BY <1>2, <2>4 DEF Renew
      <3> HIDE DEF row
      <3> QED
        BY <1>2, <2>1, <2>2, <3>1, <3>2 DEF Renew, Served, AccessTypeOK, Session
    <2> QED
      BY <2>3, <2>4
  <1>3. CASE Delete(r)
    <2> DEFINE S == DOMAIN sessions \ {flights[r].id}
    <2>1. sessions' = [s \in S |-> sessions[s]]
      BY <1>3 DEF Delete
    <2>2. /\ (DOMAIN sessions)' \subseteq minted' /\ minted' \subseteq SessionIds
          /\ \A id \in (DOMAIN sessions)' : Session(sessions[id])'
      BY <1>3, <2>1, FewerSessionsType DEF Delete
    <2> QED
      BY <1>3, <2>2, GoesType, FlightTypes DEF Delete, AccessTypeOK
  <1> QED
    BY <1>1, <1>2, <1>3

LEMMA NextAccess == AccessTypeOK /\ [Next]_vars => AccessTypeOK'
  <1> SUFFICES ASSUME AccessTypeOK, [Next]_vars
               PROVE  AccessTypeOK'
    OBVIOUS
  <1>1. CASE TokenNext \/ Serve
    BY <1>1, TokensGrow, SameSessionsType, SameFlightsType
    DEF TokenNext, TokenAdd, TokenRevoke, Serve, AccessTypeOK
  <1>2. CASE Stop
    <2>1. flights' = [r \in Requests |->
            IF flights[r].at = "response" THEN flights[r] ELSE Idle]
      BY <1>2 DEF Stop
    <2>2. DOMAIN flights' = Requests /\ \A q \in Requests : Flight(flights[q])'
      BY <1>2, <2>1, FlightTypes DEF Stop, AccessTypeOK, Flight
    <2> QED
      BY <1>2, <2>2, TokensGrow, SameSessionsType DEF Stop, AccessTypeOK
  <1>3. CASE RequestNext
    BY <1>3, FlightStepType, SessionStepType DEF RequestNext, Next
  <1>4. CASE Tick
    BY <1>4, TokensGrow, SameSessionsType, SameFlightsType DEF Tick, AccessTypeOK
  <1>5. CASE UNCHANGED vars
    BY <1>5, TokensGrow, SameSessionsType, SameFlightsType DEF vars, AccessTypeOK
  <1> QED
    BY <1>1, <1>2, <1>3, <1>4, <1>5 DEF Next

\* The types, and that sessions are of tokens that exist and under ids that
\* were handed out.
THEOREM AccessTypeCorrect == AccessSpec => []AccessTypeOK
  BY InitAccess, NextAccess, PTL DEF AccessSpec

-----------------------------------------------------------------------------
(***************************************************************************)
(* What ended a session.                                                   *)
(***************************************************************************)
\* A session that is gone stays gone: sign-ins mint new ids, a renewal finds
\* rows only and leaves their token, and no token comes back.
LEMMA GoneStep ==
  ASSUME AccessTypeOK, [Next]_vars, NEW id \in minted, Gone(id)
  PROVE  Gone(id)'
  <1>1. ASSUME id \in DOMAIN sessions' =>
                 /\ id \in DOMAIN sessions
                 /\ sessions'[id].token = sessions[id].token
        PROVE  Gone(id)'
    BY <1>1, TokensGrow DEF Gone, Valid, AccessTypeOK, Session
  <1>2. ASSUME NEW r \in Requests, StartSession(r)
        PROVE  Gone(id)'
    BY <1>1, <1>2 DEF StartSession
  <1>3. ASSUME NEW r \in Requests, Renew(r)
        PROVE  Gone(id)'
    <2> DEFINE k == flights[r].id
               row == [sessions[k] EXCEPT !.expires = flights[r].now + TTL]
    <2>1. CASE ~Renewable(k, flights[r].now)
      BY <1>1, <1>3, <2>1 DEF Renew
    <2>2. CASE Renewable(k, flights[r].now)
      <3>1. row.token = sessions[k].token
        BY <2>2 DEF Renewable, AccessTypeOK, Session
      <3>2. sessions' = [sessions EXCEPT ![k] = row]
        BY <1>3, <2>2 DEF Renew
      <3> HIDE DEF row
      <3> QED
        BY <1>1, <3>1, <3>2
    <2> QED
      BY <2>1, <2>2
  <1>4. ASSUME NEW r \in Requests, Delete(r)
        PROVE  Gone(id)'
    BY <1>1, <1>4 DEF Delete
  <1>5. CASE UNCHANGED sessions
    BY <1>1, <1>5
  <1> QED
    BY <1>2, <1>3, <1>4, <1>5
    DEF Next, TokenNext, TokenAdd, TokenRevoke, Serve, Stop, RequestNext, Login,
        Visit, LookUp, Judge, Logout, Refused, Arrive, Tick, vars

\* One that is there but has run out is renewed by nobody who reads the clock
\* from then on.
LEMMA OverStep ==
  ASSUME AccessTypeOK, [Next]_vars, NEW id \in minted,
         ~Gone(id), ~Resolves(id), \A r \in Requests : ~InTime(r, id)
  PROVE  Ended(id)'
  <1>1. /\ id \in DOMAIN sessions /\ sessions[id].expires \in Nat
        /\ sessions[id].expires <= clock /\ clock \in Nat /\ clock' \in Nat
        /\ clock <= clock'
    <2>1. clock \in Nat /\ clock' \in Nat /\ clock <= clock'
      BY ClockGrows
    <2> QED
      BY <2>1 DEF Gone, Resolves, ResolvesAt, AccessTypeOK, Session
  <1>2. ASSUME id \in DOMAIN sessions' => sessions'[id] = sessions[id],
               \A q \in Requests :
                 \/ flights'[q] = flights[q]
                 \/ flights'[q].at # "renewing"
                 \/ flights'[q].now = clock
        PROVE  Ended(id)'
    <2>1. CASE id \notin DOMAIN sessions'
      BY <2>1 DEF Ended, Gone
    <2>2. CASE id \in DOMAIN sessions'
      <3>1. ~Resolves(id)'
        BY <1>1, <1>2, <2>2 DEF Resolves, ResolvesAt
      <3>2. ASSUME NEW q \in Requests
            PROVE  ~InTime(q, id)'
        BY <1>1, <1>2, <2>2 DEF InTime
      <3> QED
        BY <3>1, <3>2 DEF Ended
    <2> QED
      BY <2>1, <2>2
  <1>3. ASSUME NEW r \in Requests, NEW flight, Goes(r, flight),
               flight.at # "renewing" \/ flight.now = clock
        PROVE  \A q \in Requests :
                 \/ flights'[q] = flights[q]
                 \/ flights'[q].at # "renewing"
                 \/ flights'[q].now = clock
    BY <1>3 DEF Goes, AccessTypeOK
  <1>4. Idle.at # "renewing" /\ \A c : Response(c).at # "renewing"
    BY DEF Idle, Response
  <1>5. ASSUME NEW r \in Requests, StartSession(r)
        PROVE  Ended(id)'
    BY <1>2, <1>3, <1>4, <1>5 DEF StartSession
  <1>6. ASSUME NEW r \in Requests, Renew(r)
        PROVE  Ended(id)'
    <2>1. ~(id = flights[r].id /\ Renewable(id, flights[r].now))
      BY <1>6 DEF Renew, Renewable, InTime, AccessTypeOK, Flight, Session
    <2>2. id \in DOMAIN sessions' => sessions'[id] = sessions[id]
      BY <1>6, <2>1 DEF Renew
    <2> QED
      BY <1>2, <1>3, <1>4, <1>6, <2>2 DEF Renew
  <1>7. ASSUME NEW r \in Requests, Delete(r)
        PROVE  Ended(id)'
    BY <1>2, <1>3, <1>4, <1>7 DEF Delete
  <1>8. ASSUME NEW r \in Requests,
               \/ \E t \in DOMAIN tokens : Login(r, t)
               \/ Visit(r) \/ LookUp(r) \/ Judge(r) \/ Logout(r) \/ Refused(r) \/ Arrive(r)
        PROVE  Ended(id)'
    <2>1. UNCHANGED sessions
      BY <1>8 DEF Login, Visit, LookUp, Judge, Logout, Refused, Arrive
    <2>2. CASE \E t \in DOMAIN tokens : Login(r, t)
      BY <1>2, <1>3, <2>1, <2>2 DEF Login
    <2>3. CASE Visit(r)
      BY <1>2, <1>3, <2>1, <2>3 DEF Visit
    <2>4. CASE LookUp(r)
      BY <1>2, <1>3, <1>4, <2>1, <2>4 DEF LookUp
    <2>5. CASE Judge(r)
      BY <1>2, <1>3, <1>4, <2>1, <2>5 DEF Judge
    <2>6. CASE Logout(r)
      BY <1>2, <1>3, <2>1, <2>6 DEF Logout
    <2>7. CASE Refused(r) \/ Arrive(r)
      BY <1>2, <1>3, <1>4, <2>1, <2>7 DEF Refused, Arrive
    <2> QED
      BY <1>8, <2>2, <2>3, <2>4, <2>5, <2>6, <2>7
  <1>9. CASE Stop
    BY <1>2, <1>4, <1>9 DEF Stop
  <1>10. CASE TokenNext \/ Serve \/ Tick \/ UNCHANGED vars
    BY <1>2, <1>10 DEF TokenNext, TokenAdd, TokenRevoke, Serve, Tick, vars
  <1> QED
    BY <1>5, <1>6, <1>7, <1>8, <1>9, <1>10 DEF Next, RequestNext

\* Whatever logouts, renewals, sign-ins, restarts and revocations overlap, and
\* however long their statements wait, an ended session never works again
\* (RenewUISession, UISession).
THEOREM EndedForGood == AccessSpec => EndedStaysEnded
  <1>1. AccessTypeOK /\ [Next]_vars => [\A id \in minted : Ended(id) => Ended(id)']_vars
    BY GoneStep, OverStep DEF Ended
  <1> QED
    BY <1>1, AccessTypeCorrect, PTL DEF AccessSpec, EndedStaysEnded
-----------------------------------------------------------------------------
(***************************************************************************)
(* What a reading of the clock is worth when it is used.                   *)
(***************************************************************************)
Timed == {"starting", "looking", "found", "renewing"}

\* It was taken in the past, and not longer ago than readings get.
Recent(flight) ==
  flight.at \in Timed => flight.now <= clock /\ clock <= flight.now + MaxWait

RecentInv == \A r \in Requests : Recent(flights[r])

LEMMA InitRecent == Init => RecentInv
  BY DEF Init, RecentInv, Recent, Timed, Idle

LEMMA NextRecent == AccessTypeOK /\ RecentInv /\ [Next]_vars => RecentInv'
  <1> SUFFICES ASSUME AccessTypeOK, RecentInv, [Next]_vars
               PROVE  RecentInv'
    OBVIOUS
  <1>1. MaxWait \in Nat /\ clock \in Nat
    BY TimeAssumption DEF AccessTypeOK
  <1>2. ASSUME NEW r \in Requests, NEW flight, Goes(r, flight), UNCHANGED clock,
               Recent(flight)
        PROVE  RecentInv'
    BY <1>2 DEF Goes, RecentInv, Recent, AccessTypeOK
  <1>3. Recent(Idle) /\ \A c : Recent(Response(c))
    BY DEF Recent, Timed, Idle, Response
  <1>4. ASSUME NEW r \in Requests,
               \/ \E t \in DOMAIN tokens : Login(r, t)
               \/ Visit(r) \/ LookUp(r) \/ Judge(r)
        PROVE  RecentInv'
    <2>1. CASE \E t \in DOMAIN tokens : Login(r, t)
      BY <1>1, <1>2, <2>1 DEF Login, Recent
    <2>2. CASE Visit(r)
      BY <1>1, <1>2, <2>2 DEF Visit, Recent
    <2>3. CASE LookUp(r)
      BY <1>2, <1>3, <2>3 DEF LookUp, RecentInv, Recent, Timed
    <2>4. CASE Judge(r)
      BY <1>1, <1>2, <1>3, <2>4 DEF Judge, Recent
    <2> QED
      BY <1>4, <2>1, <2>2, <2>3, <2>4
  <1>5. ASSUME NEW r \in Requests,
               \/ StartSession(r) \/ Renew(r) \/ Logout(r) \/ Delete(r)
               \/ Refused(r) \/ Arrive(r)
        PROVE  RecentInv'
    <2>1. CASE StartSession(r)
      BY <1>2, <1>3, <2>1 DEF StartSession
    <2>2. CASE Renew(r) \/ Delete(r) \/ Refused(r) \/ Arrive(r)
      BY <1>2, <1>3, <2>2 DEF Renew, Delete, Refused, Arrive
    <2>3. CASE Logout(r)
      BY <1>2, <2>3 DEF Logout, Recent, Timed
    <2> QED
      BY <1>5, <2>1, <2>2, <2>3
  <1>6. CASE Stop
    BY <1>3, <1>6 DEF Stop, RecentInv, Recent
  <1>7. CASE Tick
    <2>1. ASSUME NEW r \in Requests, flights[r].at \in Timed
          PROVE  flights[r].now <= clock' /\ clock' <= flights[r].now + MaxWait
      <3>1. flights[r].now \in Nat
        BY <2>1 DEF AccessTypeOK, Flight, Timed
      <3> QED
        BY <1>1, <1>7, <2>1, <3>1 DEF Tick, Fresh, RecentInv, Recent, Timed
    <2> QED
      BY <1>7, <2>1 DEF Tick, RecentInv, Recent
  <1>8. CASE TokenNext \/ Serve \/ UNCHANGED vars
    BY <1>8 DEF TokenNext, TokenAdd, TokenRevoke, Serve, vars, RecentInv, Recent
  <1> QED
    BY <1>4, <1>5, <1>6, <1>7, <1>8 DEF Next, RequestNext

LEMMA RecentInvariant == AccessSpec => []RecentInv
  BY InitRecent, NextRecent, AccessTypeCorrect, PTL DEF AccessSpec

-----------------------------------------------------------------------------
\* The session has time left, whether or not its token is still good.
Alive(id) == id \in DOMAIN sessions /\ sessions[id].expires > clock

\* What was left of it at its last visit was enough.
Extended(id) == Alive(id) => sessions[id].expires + RenewAfter >= visited[id] + TTL

\* Whoever was told an expiry was told a true one, or another request has
\* renewed the session since, with a recent clock.
Told(flight) ==
  flight.at = "found" =>
    /\ flight.id \in minted
    /\ flight.id \in DOMAIN sessions =>
         \/ sessions[flight.id].expires >= flight.expires
         \/ sessions[flight.id].expires + MaxWait >= flight.now + TTL

\* And visits are in the past.
VisitInv ==
  /\ \A id \in SessionIds : visited[id] <= clock
  /\ \A id \in minted : Extended(id)
  /\ \A r \in Requests : Told(flights[r])

LEMMA InitVisit == Init => VisitInv
  BY DEF Init, VisitInv, Extended, Told, Idle

LEMMA VisitSuffices == AccessTypeOK /\ VisitInv => VisitsExtend
  <1> SUFFICES ASSUME AccessTypeOK, VisitInv, NEW id \in minted, Resolves(id)
               PROVE  sessions[id].expires >= visited[id] + (TTL - RenewAfter)
    BY DEF VisitsExtend
  <1>1. sessions[id].expires \in Nat /\ visited[id] \in Nat
    BY DEF Resolves, ResolvesAt, AccessTypeOK, Session
  <1>2. sessions[id].expires + RenewAfter >= visited[id] + TTL
    BY DEF VisitInv, Extended, Alive, Resolves, ResolvesAt
  <1> QED
    BY <1>1, <1>2, TimeAssumption

\* A step that renews nothing, and whose visits are of requests that saw the
\* session live long enough.
LEMMA NoRenewal ==
  ASSUME AccessTypeOK, VisitInv, [Next]_vars,
         \A id \in DOMAIN sessions' : id \in minted =>
           id \in DOMAIN sessions /\ sessions'[id] = sessions[id]
  PROVE  /\ \A id \in minted : visited'[id] = visited[id] => Extended(id)'
         /\ \A flight : Told(flight) => Told(flight)'
         /\ \A id \in SessionIds : visited'[id] = visited[id] => visited'[id] <= clock'
  <1>1. clock \in Nat /\ clock' \in Nat /\ clock <= clock'
    BY ClockGrows
  <1>2. minted \subseteq minted'
    BY DEF AccessTypeOK, Next, TokenNext, TokenAdd, TokenRevoke, Serve, Stop,
           RequestNext, Login, StartSession, Visit, LookUp, Judge, Renew, Logout,
           Delete, Refused, Arrive, Tick, vars
  <1>3. ASSUME NEW id \in minted, visited'[id] = visited[id], Alive(id)'
        PROVE  sessions'[id].expires + RenewAfter >= visited'[id] + TTL
    <2>1. id \in DOMAIN sessions /\ sessions'[id] = sessions[id]
      BY <1>3 DEF Alive
    <2>2. sessions[id].expires \in Nat
      BY <2>1 DEF AccessTypeOK, Session
    <2> QED
      BY <1>1, <1>3, <2>1, <2>2 DEF VisitInv, Extended, Alive
  <1>4. ASSUME NEW flight, Told(flight)
        PROVE  Told(flight)'
    BY <1>2, <1>4 DEF Told
  <1>5. ASSUME NEW id \in SessionIds, visited'[id] = visited[id]
        PROVE  visited'[id] <= clock'
    BY <1>1, <1>5 DEF VisitInv, AccessTypeOK
  <1> QED
    BY <1>3, <1>4, <1>5 DEF Extended

LEMMA RenewVisit ==
  ASSUME AccessTypeOK, RecentInv, VisitInv, 2 * MaxWait <= RenewAfter,
         [Next]_vars, NEW r \in Requests, Renew(r)
  PROVE  VisitInv'
  <1> DEFINE k == flights[r].id
             now == flights[r].now
             row == [sessions[k] EXCEPT !.expires = now + TTL]
  <1>1. /\ k \in SessionIds /\ now \in Nat /\ clock \in Nat
        /\ MaxWait \in Nat /\ TTL \in Nat /\ RenewAfter \in Nat
        /\ now <= clock /\ clock <= now + MaxWait
    <2>1. k \in SessionIds /\ now \in Nat
      BY DEF Renew, AccessTypeOK, Flight
    <2>2. now <= clock /\ clock <= now + MaxWait
      BY DEF Renew, RecentInv, Recent, Timed
    <2> QED
      BY <2>1, <2>2, TimeAssumption DEF AccessTypeOK
  <1>2. /\ visited' = [visited EXCEPT ![k] = clock]
        /\ Goes(r, Response(k))
        /\ UNCHANGED <<clock, minted>>
    BY DEF Renew, Served
  <1>3. \A id \in SessionIds : visited'[id] <= clock'
    BY <1>1, <1>2 DEF VisitInv, AccessTypeOK
  <1>4. \A id \in minted : visited'[id] = IF id = k THEN clock ELSE visited[id]
    BY <1>2 DEF AccessTypeOK
  <1>5. CASE ~Renewable(k, now)
    <2>1. UNCHANGED sessions
      BY <1>5 DEF Renew
    <2>2. ASSUME NEW id \in minted
          PROVE  Extended(id)'
      <3>1. CASE id = k
        <4>1. ~Alive(id)'
          BY <1>1, <1>2, <1>5, <2>1, <3>1 DEF Alive, Renewable, AccessTypeOK, Session
        <4> QED
          BY <4>1 DEF Extended
      <3>2. CASE id # k
        BY <1>4, <2>1, <3>2, NoRenewal
      <3> QED
        BY <3>1, <3>2
    <2>3. \A q \in Requests : Told(flights[q])'
      BY <1>2, <2>1 DEF Goes, VisitInv, Told, Response, AccessTypeOK
    <2> QED
      BY <1>2, <1>3, <2>2, <2>3 DEF VisitInv
  <1>6. CASE Renewable(k, now)
    <2>1. row.expires = now + TTL
      BY <1>6 DEF Renewable, AccessTypeOK, Session
    <2>2. sessions' = [sessions EXCEPT ![k] = row]
      BY <1>6 DEF Renew
    <2>3. k \in DOMAIN sessions
      BY <1>6 DEF Renewable
    <2> HIDE DEF row, k, now
    <2>4. sessions'[k].expires = now + TTL /\ DOMAIN sessions' = DOMAIN sessions
      BY <2>1, <2>2, <2>3 DEF AccessTypeOK
    <2>5. \A id \in DOMAIN sessions : id # k => sessions'[id] = sessions[id]
      BY <2>2
    <2>6. ASSUME NEW id \in minted
          PROVE  Extended(id)'
      <3>1. CASE id = k
        <4>1. sessions'[id].expires + RenewAfter >= visited'[id] + TTL
          BY <1>1, <1>4, <2>4, <3>1
        <4> QED
          BY <4>1 DEF Extended
      <3>2. CASE id # k
        BY <1>2, <1>4, <2>4, <2>5, <3>2 DEF VisitInv, Extended, Alive
      <3> QED
        BY <3>1, <3>2
    <2>7. ASSUME NEW q \in Requests
          PROVE  Told(flights[q])'
      <3>1. CASE q = r
        BY <1>2, <3>1 DEF Goes, Told, Response, AccessTypeOK
      <3>2. CASE q # r
        <4>1. flights'[q] = flights[q]
          BY <1>2, <3>2 DEF Goes, AccessTypeOK
        <4>2. CASE flights[q].at = "found" /\ flights[q].id = k
          <5>1. flights[q].now \in Nat /\ flights[q].now <= clock
            BY <4>2 DEF AccessTypeOK, Flight, RecentInv, Recent, Timed
          <5>2. sessions'[k].expires + MaxWait >= flights[q].now + TTL
            BY <1>1, <2>4, <5>1
          <5> QED
            BY <1>2, <4>1, <4>2, <5>2 DEF VisitInv, Told
        <4>3. CASE ~(flights[q].at = "found" /\ flights[q].id = k)
          BY <1>2, <2>4, <2>5, <4>1, <4>3 DEF VisitInv, Told
        <4> QED
          BY <4>2, <4>3
      <3> QED
        BY <3>1, <3>2
    <2> QED
      BY <1>2, <1>3, <2>6, <2>7 DEF VisitInv
  <1> QED
    BY <1>5, <1>6

LEMMA JudgeVisit ==
  ASSUME AccessTypeOK, RecentInv, VisitInv, 2 * MaxWait <= RenewAfter,
         [Next]_vars, NEW r \in Requests, Judge(r)
  PROVE  VisitInv'
  <1> DEFINE flight == flights[r]
             k == flight.id
  <1>1. /\ k \in SessionIds /\ flight.now \in Nat /\ flight.expires \in Nat
        /\ clock \in Nat /\ MaxWait \in Nat /\ TTL \in Nat /\ RenewAfter \in Nat
        /\ RenewAfter < TTL /\ clock <= flight.now + MaxWait /\ flight.at = "found"
    <2>1. k \in SessionIds /\ flight.now \in Nat /\ flight.expires \in Nat
      BY DEF Judge, AccessTypeOK, Flight
    <2>2. clock <= flight.now + MaxWait
      BY DEF Judge, RecentInv, Recent, Timed
    <2> QED
      BY <2>1, <2>2, TimeAssumption DEF Judge, AccessTypeOK
  <1>2. UNCHANGED <<clock, sessions, minted>>
    BY DEF Judge
  <1>3. \A q \in Requests : Told(flights[q])'
    BY <1>2 DEF Judge, Goes, VisitInv, Told, Response, AccessTypeOK
  <1>4. CASE UNCHANGED visited
    BY <1>2, <1>3, <1>4 DEF VisitInv, Extended, Alive
  <1>5. CASE ~RenewalDue(flight.expires)
    <2>1. visited' = [visited EXCEPT ![k] = clock]
      BY <1>5 DEF Judge, Served
    <2>2. flight.expires + RenewAfter >= clock + TTL
      BY <1>1, <1>5 DEF RenewalDue
    <2>3. Told(flight)
      BY DEF VisitInv
    <2> HIDE DEF flight, k
    <2>4. \A id \in SessionIds : visited'[id] <= clock'
      BY <1>1, <1>2, <2>1 DEF VisitInv, AccessTypeOK
    <2>5. \A id \in minted : visited'[id] = IF id = k THEN clock ELSE visited[id]
      BY <2>1 DEF AccessTypeOK
    <2>6. ASSUME NEW id \in minted, id = k, Alive(id)
          PROVE  sessions[id].expires + RenewAfter >= clock + TTL
      <3>1. /\ sessions[id].expires \in Nat
            /\ \/ sessions[id].expires >= flight.expires
               \/ sessions[id].expires + MaxWait >= flight.now + TTL
        BY <1>1, <2>3, <2>6 DEF Alive, Told, AccessTypeOK, Session, k
      <3> QED
        BY <1>1, <2>2, <3>1
    <2>7. \A id \in minted : Extended(id)'
      BY <1>2, <2>5, <2>6 DEF VisitInv, Extended, Alive
    <2> QED
      BY <1>2, <1>3, <2>4, <2>7 DEF VisitInv
  <1> QED
    BY <1>4, <1>5 DEF Judge

LEMMA StartSessionVisit ==
  ASSUME AccessTypeOK, RecentInv, VisitInv, MaxWait <= RenewAfter,
         [Next]_vars, NEW r \in Requests, StartSession(r)
  PROVE  VisitInv'
  <1> DEFINE now == flights[r].now
             new == [token |-> flights[r].token, expires |-> now + TTL]
  <1>1. PICK k \in SessionIds \ minted :
          /\ sessions' = [s \in (DOMAIN sessions \ Swept(now)) \cup {k} |->
               IF s = k THEN new ELSE sessions[s]]
          /\ minted' = minted \cup {k}
          /\ Goes(r, Response(k))
    BY DEF StartSession
  <1>2. UNCHANGED <<clock, visited>>
    BY DEF StartSession
  <1>3. /\ clock \in Nat /\ now \in Nat /\ MaxWait \in Nat /\ TTL \in Nat
        /\ RenewAfter \in Nat /\ clock <= now + MaxWait
    <2>1. now \in Nat /\ clock <= now + MaxWait
      BY DEF StartSession, AccessTypeOK, Flight, RecentInv, Recent, Timed
    <2> QED
      BY <2>1, TimeAssumption DEF AccessTypeOK
  <1>4. sessions'[k].expires = now + TTL
    BY <1>1
  <1> HIDE DEF now, new
  <1>5. \A id \in DOMAIN sessions' : id \in minted =>
          id \in DOMAIN sessions /\ sessions'[id] = sessions[id]
    BY <1>1
  <1>6. visited[k] \in Nat /\ visited[k] <= clock
    BY DEF VisitInv, AccessTypeOK
  <1>7. Extended(k)'
    BY <1>2, <1>3, <1>4, <1>6 DEF Extended
  <1>8. \A id \in minted : Extended(id)'
    BY <1>2, <1>5, NoRenewal
  <1>9. \A q \in Requests : Told(flights[q])'
    <2>1. \A q \in Requests : q # r => flights'[q] = flights[q]
      BY <1>1 DEF Goes, AccessTypeOK
    <2>2. Told(flights[r])'
      BY <1>1 DEF Goes, Told, Response, AccessTypeOK
    <2>3. ASSUME NEW q \in Requests, q # r
          PROVE  Told(flights[q])'
      BY <1>1, <1>5, <2>1, <2>3 DEF VisitInv, Told
    <2> QED
      BY <2>2, <2>3
  <1> QED
    BY <1>1, <1>2, <1>7, <1>8, <1>9 DEF VisitInv

LEMMA NextVisit ==
  ASSUME 2 * MaxWait <= RenewAfter
  PROVE  AccessTypeOK /\ RecentInv /\ VisitInv /\ [Next]_vars => VisitInv'
  <1> SUFFICES ASSUME AccessTypeOK, RecentInv, VisitInv, [Next]_vars
               PROVE  VisitInv'
    OBVIOUS
  <1>1. MaxWait <= RenewAfter
    BY TimeAssumption
  <1>2. ASSUME UNCHANGED <<minted, visited>>,
               \A id \in DOMAIN sessions' :
                 id \in DOMAIN sessions /\ sessions'[id] = sessions[id],
               \A q \in Requests : Told(flights'[q]) \/ flights'[q] = flights[q]
        PROVE  VisitInv'
    <2>1. ASSUME NEW flight, Told(flight)
          PROVE  /\ flight.at = "found" => flight.id \in minted'
                 /\ flight.at = "found" /\ flight.id \in DOMAIN sessions' =>
                      \/ sessions'[flight.id].expires >= flight.expires
                      \/ sessions'[flight.id].expires + MaxWait >= flight.now + TTL
      BY <1>2, <2>1 DEF Told
    <2>2. \A q \in Requests : Told(flights'[q])
      BY <1>2 DEF VisitInv
    <2>3. \A q \in Requests : Told(flights[q])'
      BY <2>1, <2>2 DEF Told
    <2> QED
      BY <1>2, <2>3, NoRenewal DEF VisitInv
  <1>3. Told(Idle) /\ \A c : Told(Response(c))
    BY DEF Told, Idle, Response
  <1>4. CASE TokenNext \/ Serve \/ Stop \/ Tick \/ UNCHANGED vars
    BY <1>2, <1>3, <1>4 DEF TokenNext, TokenAdd, TokenRevoke, Serve, Stop, Tick, vars
  <1>5. ASSUME NEW r \in Requests, NEW flight, Goes(r, flight), Told(flight)
        PROVE  \A q \in Requests : Told(flights'[q]) \/ flights'[q] = flights[q]
    BY <1>5 DEF Goes, AccessTypeOK
  <1>6. ASSUME NEW r \in Requests, LookUp(r)
        PROVE  VisitInv'
    <2> DEFINE id == flights[r].id
               found == [at |-> "found", id |-> id, now |-> flights[r].now,
                         expires |-> sessions[id].expires]
    <2>1. CASE ResolvesAt(id, flights[r].now)
      <3>1. id \in minted /\ sessions[id].expires \in Nat
        BY <2>1 DEF ResolvesAt, AccessTypeOK, Session
      <3>2. Told(found)
        BY <3>1 DEF Told
      <3> QED
        BY <1>2, <1>5, <1>6, <2>1, <3>2 DEF LookUp
    <2>2. CASE ~ResolvesAt(id, flights[r].now)
      BY <1>2, <1>3, <1>5, <1>6, <2>2 DEF LookUp
    <2> QED
      BY <2>1, <2>2
  <1>7. ASSUME NEW r \in Requests,
               \/ \E t \in DOMAIN tokens : Login(r, t)
               \/ Visit(r) \/ Logout(r)
        PROVE  VisitInv'
    <2>1. CASE \E t \in DOMAIN tokens : Login(r, t)
      BY <1>2, <1>5, <2>1 DEF Login, Told
    <2>2. CASE Visit(r)
      BY <1>2, <1>5, <2>2 DEF Visit, Told
    <2>3. CASE Logout(r)
      BY <1>2, <1>5, <2>3 DEF Logout, Told
    <2> QED
      BY <1>7, <2>1, <2>2, <2>3
  <1>8. ASSUME NEW r \in Requests, Delete(r) \/ Refused(r) \/ Arrive(r)
        PROVE  VisitInv'
    BY <1>2, <1>3, <1>5, <1>8 DEF Delete, Refused, Arrive
  <1> QED
    BY <1>1, <1>4, <1>6, <1>7, <1>8, RenewVisit, JudgeVisit, StartSessionVisit
    DEF Next, RequestNext

\* However visits, renewals, sign-ins and their sweeps overlap, a session that
\* lives was renewed early enough at its last visit (uiAuth), as long as two
\* waits for the connection fit into the time a session rests between renewals.
THEOREM VisitsKeepSessions ==
  ASSUME 2 * MaxWait <= RenewAfter
  PROVE  AccessSpec => []VisitsExtend
  <1>1. AccessTypeOK /\ RecentInv /\ VisitInv /\ [Next]_vars => VisitInv'
    BY NextVisit
  <1> QED
    BY <1>1, InitVisit, VisitSuffices, AccessTypeCorrect, RecentInvariant, PTL
    DEF AccessSpec

-----------------------------------------------------------------------------
\* What ended a session in this step.
EndedBy(id) ==
  \/ clock' >= sessions[id].expires
  \/ tokens'[sessions[id].token].revoked
  \/ \E r \in Requests :
       /\ flights[r].at = "leaving" /\ flights[r].id = id
       /\ flights'[r] = Response(None)

LEMMA EndStep ==
  ASSUME AccessTypeOK, RecentInv, MaxWait < TTL, [Next]_vars, NEW id \in minted,
         Resolves(id), ~Resolves(id)'
  PROVE  EndedBy(id)
  <1>1. /\ id \in DOMAIN sessions /\ sessions[id].expires \in Nat
        /\ sessions[id].expires > clock /\ clock \in Nat /\ clock' \in Nat
        /\ sessions[id].token \in DOMAIN tokens
    BY ClockGrows DEF Resolves, ResolvesAt, AccessTypeOK, Session
  <1>2. sessions[id].token \in DOMAIN tokens'
    BY <1>1, TokensGrow
  <1>3. ASSUME id \in DOMAIN sessions', sessions'[id].token = sessions[id].token,
               sessions'[id].expires = sessions[id].expires
        PROVE  EndedBy(id)
    BY <1>1, <1>2, <1>3 DEF Resolves, ResolvesAt, Valid, EndedBy
  <1>4. ASSUME NEW r \in Requests, StartSession(r)
        PROVE  EndedBy(id)
    <2>1. flights[r].now \in Nat /\ flights[r].now <= clock
      BY <1>4 DEF StartSession, AccessTypeOK, Flight, RecentInv, Recent, Timed
    <2>2. id \in DOMAIN sessions' /\ sessions'[id] = sessions[id]
      BY <1>1, <1>4, <2>1 DEF StartSession, Swept
    <2> QED
      BY <1>3, <2>2
  <1>5. ASSUME NEW r \in Requests, Renew(r)
        PROVE  EndedBy(id)
    <2> DEFINE k == flights[r].id
               now == flights[r].now
               row == [sessions[k] EXCEPT !.expires = now + TTL]
    <2>1. CASE ~(Renewable(k, now) /\ id = k)
      BY <1>1, <1>3, <1>5, <2>1 DEF Renew
    <2>2. CASE Renewable(k, now) /\ id = k
      <3>1. sessions' = [sessions EXCEPT ![k] = row] /\ sessions'[id] = row
        BY <1>1, <1>5, <2>2 DEF Renew
      <3>2. row.token = sessions[id].token /\ row.expires = now + TTL
        BY <1>1, <2>2 DEF AccessTypeOK, Session
      <3>3. now \in Nat /\ clock <= now + MaxWait /\ MaxWait \in Nat /\ TTL \in Nat
        BY <1>5, TimeAssumption
        DEF Renew, AccessTypeOK, Flight, RecentInv, Recent, Timed
      <3>4. UNCHANGED <<clock, tokens>>
        BY <1>5 DEF Renew
      <3> HIDE DEF row, k, now
      <3>5. row.expires > clock'
        BY <1>1, <3>2, <3>3, <3>4
      <3>6. Resolves(id)'
        BY <1>1, <2>2, <3>1, <3>2, <3>4, <3>5 DEF Resolves, ResolvesAt, Valid
      <3> QED
        BY <3>6
    <2> QED
      BY <2>1, <2>2
  <1>6. ASSUME NEW r \in Requests, Delete(r)
        PROVE  EndedBy(id)
    <2>1. CASE flights[r].id = id
      BY <1>6, <2>1 DEF Delete, Goes, EndedBy, AccessTypeOK
    <2>2. CASE flights[r].id # id
      <3>1. id \in DOMAIN sessions' /\ sessions'[id] = sessions[id]
        BY <1>1, <1>6, <2>2 DEF Delete
      <3> QED
        BY <1>3, <3>1
    <2> QED
      BY <2>1, <2>2
  <1>7. CASE UNCHANGED sessions
    BY <1>1, <1>3, <1>7
  <1> QED
    BY <1>4, <1>5, <1>6, <1>7
    DEF Next, TokenNext, TokenAdd, TokenRevoke, Serve, Stop, RequestNext, Login,
        Visit, LookUp, Judge, Logout, Refused, Arrive, Tick, vars

\* Only its time, the revocation of its token or its own logout ends a session:
\* no restart, no sweep of another sign-in, no other session's end, and no
\* renewal, as long as it waits less than a lifetime (CreateUISession).
THEOREM NothingElseEnds ==
  ASSUME MaxWait < TTL
  PROVE  AccessSpec => EndsOnlyAsAsked
  <1>1. AccessTypeOK /\ RecentInv /\ [Next]_vars
          => [\A id \in minted : Resolves(id) /\ ~Resolves(id)' => EndedBy(id)]_vars
    BY EndStep
  <1> QED
    BY <1>1, AccessTypeCorrect, RecentInvariant, PTL DEF AccessSpec, EndsOnlyAsAsked, EndedBy
=============================================================================
