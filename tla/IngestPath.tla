------------------------------ MODULE IngestPath ------------------------------
(***************************************************************************)
(* One request's way to the Evidence Plane and its answer's way back:      *)
(* socketIngest in a hook process, the host's servePlaneProxy, httpIngest, *)
(* the ingest Edge Function with its rate limiter, and the RPC.            *)
(*                                                                         *)
(* The plane is reduced to the ids it has stored: a call of it is one      *)
(* committed transaction, or none.  All requests carry one installation's  *)
(* token, so a limiter's map has one window.  An isolate of the Edge       *)
(* Function that is recycled is another isolate.                           *)
(***************************************************************************)
EXTENDS Naturals, FiniteSets

CONSTANTS
    Client,      \* requests: one connection each
    Item,        \* ids of events, observations or snapshots
    Isolate,     \* instances of the Edge Function
    Limit,       \* RATE_LIMIT.requests
    Window,      \* RATE_LIMIT.windowMs
    MaxTime,     \* bound on time
    None

ASSUME PathAssumption ==
    /\ Limit \in Nat \ {0}
    /\ Window \in Nat \ {0}
    /\ MaxTime \in Nat

ASSUME ClientsFinite == IsFiniteSet(Client)

ASSUME NoneIsNothing == None \notin Nat \union [count : Nat, resetAt : Nat]

Time == 0 .. MaxTime

-----------------------------------------------------------------------------
(***************************************************************************)
(* What each party makes of the one before it.                             *)
(***************************************************************************)

\* What an RPC raises.  "other" is every message without a name of its own:
\* constraints, deadlocks, and a plane that could not be reached.
TokenError == {"ieos_unknown_token", "ieos_revoked_token", "ieos_expired_token"}
DbError    == TokenError \union {"ieos_batch_too_large", "other"}

\* Wrong variant: what is not known to be the plane's fault is the caller's.
RefusalBlamingCaller(error) ==
    CASE error = "ieos_unknown_token"   -> "unknown_token"
      [] error = "ieos_revoked_token"   -> "revoked_token"
      [] error = "ieos_expired_token"   -> "expired_token"
      [] error = "ieos_batch_too_large" -> "body_too_large"
      [] OTHER                          -> "malformed_body"

\* refusalForDatabaseError
RefusalFor(error) ==
    CASE error = "ieos_unknown_token"   -> "unknown_token"
      [] error = "ieos_revoked_token"   -> "revoked_token"
      [] error = "ieos_expired_token"   -> "expired_token"
      [] error = "ieos_batch_too_large" -> "body_too_large"
      [] OTHER                          -> "upstream"

\* REFUSALS: the status of each refusal a client of this kind can provoke.
Status(refusal) ==
    CASE refusal \in {"malformed_token", "unknown_token"} -> 401
      [] refusal \in {"revoked_token", "expired_token"}   -> 403
      [] refusal = "body_too_large"                       -> 413
      [] refusal = "malformed_body"                       -> 400
      [] refusal = "rate_limited"                         -> 429
      [] refusal = "upstream"                             -> 502

Refused(refusal) == [status |-> Status(refusal), accepted |-> None]
Succeeded(ids)   == [status |-> 200, accepted |-> ids]

\* An HTTP response and the ids it names; None when its body is no answer to
\* that, as in a refusal and in a 200 that did not arrive whole.
Response == [status : {200, 400, 401, 403, 413, 429, 502},
             accepted : (SUBSET Item) \union {None}]

\* An IngestOutcome, with the ids of an accepted one.
Outcome == [status : {"accepted", "rejected", "unreachable"}, ids : SUBSET Item]

Unreachable == [status |-> "unreachable", ids |-> {}]

\* Wrong variant: "HTTP 200" is enough.
OutcomeOfStatus(response, expected) ==
    IF response.status = 200
      THEN [status |-> "accepted", ids |-> expected]
      ELSE IF response.status >= 500
             THEN Unreachable ELSE [status |-> "rejected", ids |-> {}]

\* outcomeFor: a 200 must name ids, all of them asked for.
OutcomeOf(response, expected) ==
    IF response.status = 200
      THEN IF response.accepted # None /\ response.accepted \subseteq expected
             THEN [status |-> "accepted", ids |-> response.accepted]
             ELSE Unreachable
      ELSE IF response.status >= 500
             THEN Unreachable ELSE [status |-> "rejected", ids |-> {}]

-----------------------------------------------------------------------------
VARIABLES
    now,
    standing,   \* of the installation's token at the plane
    host,       \* the process serving the proxy
    ask,        \* the client's promise: "idle", "waiting", "settled" or "dead"
    batch,      \* the ids it sent
    outcome,    \* what its promise was resolved with, or None
    conn,       \* its connection, as the proxy sees it
    reply,      \* the outcome the proxy wrote to it, or None
    http,       \* the request the proxy sent, on its way and back
    at,         \* the isolate that handles it
    response,   \* its HTTP response, or None
    windows,    \* RateLimiter's window per isolate, or None
    admittedAt, \* when the limiter let a request pass, or None
    storedBy    \* ids the request stored

client  == <<ask, batch, outcome>>
edge    == <<http, at, response, windows, admittedAt, storedBy>>
context == <<now, standing, host>>
vars    == <<context, client, conn, reply, edge>>

TypeOK ==
    /\ now \in Time
    /\ standing \in {"good", "bad"}
    /\ host \in {"open", "closing", "closed", "crashed"}
    /\ ask \in [Client -> {"idle", "waiting", "settled", "dead"}]
    /\ batch \in [Client -> SUBSET Item]
    /\ outcome \in [Client -> Outcome \union {None}]
    /\ conn \in [Client -> {"none", "reading", "forwarding", "answered", "gone"}]
    /\ reply \in [Client -> Outcome \union {None}]
    /\ http \in [Client -> {"none", "sent", "admitted", "answered", "over"}]
    /\ at \in [Client -> Isolate \union {None}]
    /\ response \in [Client -> Response \union {None}]
    /\ windows \in [Isolate -> [count : 1 .. Limit, resetAt : Nat] \union {None}]
    /\ admittedAt \in [Client -> Time \union {None}]
    /\ storedBy \in [Client -> SUBSET Item]

Init ==
    /\ now = 0
    /\ standing = "good"
    /\ host = "open"
    /\ ask = [c \in Client |-> "idle"]
    /\ batch = [c \in Client |-> {}]
    /\ outcome = [c \in Client |-> None]
    /\ conn = [c \in Client |-> "none"]
    /\ reply = [c \in Client |-> None]
    /\ http = [c \in Client |-> "none"]
    /\ at = [c \in Client |-> None]
    /\ response = [c \in Client |-> None]
    /\ windows = [i \in Isolate |-> None]
    /\ admittedAt = [c \in Client |-> None]
    /\ storedBy = [c \in Client |-> {}]

-----------------------------------------------------------------------------
(***************************************************************************)
(* The client: socketIngest's ask.                                         *)
(***************************************************************************)

\* Wrong variant: a late event overwrites what the promise was resolved with.
FinishAgain(c, o) ==
    /\ ask[c] \in {"waiting", "settled"}
    /\ ask' = [ask EXCEPT ![c] = "settled"]
    /\ outcome' = [outcome EXCEPT ![c] = o]
    /\ UNCHANGED batch

\* finish: the first event settles the promise and destroys the socket.
Finish(c, o) ==
    /\ ask[c] = "waiting"
    /\ ask' = [ask EXCEPT ![c] = "settled"]
    /\ outcome' = [outcome EXCEPT ![c] = o]
    /\ UNCHANGED batch

Connect(c, ids) ==
    /\ ask[c] = "idle" /\ host = "open"
    /\ ask' = [ask EXCEPT ![c] = "waiting"]
    /\ batch' = [batch EXCEPT ![c] = ids]
    /\ conn' = [conn EXCEPT ![c] = "reading"]
    /\ UNCHANGED <<context, outcome, reply, edge>>

\* Nobody listens: 'error'.
ConnectFails(c, ids) ==
    /\ ask[c] = "idle" /\ host # "open"
    /\ ask' = [ask EXCEPT ![c] = "settled"]
    /\ batch' = [batch EXCEPT ![c] = ids]
    /\ outcome' = [outcome EXCEPT ![c] = Unreachable]
    /\ UNCHANGED <<context, conn, reply, edge>>

\* Wrong variant: the timer is cleared once the request has been read.
TimesOutUnread(c) ==
    /\ conn[c] = "reading"
    /\ Finish(c, Unreachable)
    /\ UNCHANGED <<context, conn, reply, edge>>

\* The socket was idle for timeoutMs.
TimesOut(c) ==
    /\ conn[c] # "gone"
    /\ Finish(c, Unreachable)
    /\ UNCHANGED <<context, conn, reply, edge>>

\* The reply's frame is read; the proxy has ended the connection after it.
ReadsReply(c) ==
    /\ conn[c] = "answered"
    /\ Finish(c, reply[c])
    /\ conn' = [conn EXCEPT ![c] = "gone"]
    /\ UNCHANGED <<context, reply, edge>>

\* 'end' or 'error' without a whole frame: the host is gone.
Disconnected(c) ==
    /\ conn[c] = "gone"
    /\ Finish(c, Unreachable)
    /\ UNCHANGED <<context, conn, reply, edge>>

\* The hook process is killed.
ClientKilled(c) ==
    /\ ask[c] = "waiting"
    /\ ask' = [ask EXCEPT ![c] = "dead"]
    /\ UNCHANGED <<context, batch, outcome, conn, reply, edge>>

-----------------------------------------------------------------------------
(***************************************************************************)
(* The proxy.                                                              *)
(***************************************************************************)

\* 'data' up to the newline: handleFrame, which calls fetch.
FrameArrives(c) ==
    /\ conn[c] = "reading"
    /\ conn' = [conn EXCEPT ![c] = "forwarding"]
    /\ http' = [http EXCEPT ![c] = "sent"]
    /\ \E i \in Isolate : at' = [at EXCEPT ![c] = i]
    /\ UNCHANGED <<context, client, reply, response, windows, admittedAt, storedBy>>

\* 'end' or 'error': the client has left, with or without having sent a frame,
\* and a socket that is not half open closes on this side too.  What has been
\* forwarded goes on; its reply will have no reader.
ClientLeft(c) ==
    /\ conn[c] \in {"reading", "forwarding", "answered"} /\ ask[c] # "waiting"
    /\ conn' = [conn EXCEPT ![c] = "gone"]
    /\ UNCHANGED <<context, client, reply, edge>>

\* reply, by socket.end.
Replies(c, o) ==
    /\ conn[c] = "forwarding"
    /\ conn' = [conn EXCEPT ![c] = "answered"]
    /\ reply' = [reply EXCEPT ![c] = o]

\* fetch resolved; outcomeFor reads the response.
ResponseArrives(c) ==
    /\ http[c] = "answered"
    /\ Replies(c, OutcomeOf(response[c], batch[c]))
    /\ http' = [http EXCEPT ![c] = "over"]
    /\ UNCHANGED <<context, client, at, response, windows, admittedAt, storedBy>>

\* fetch threw: wherever the request has got to, it may go on.
FetchFails(c) ==
    /\ Replies(c, Unreachable)
    /\ UNCHANGED <<context, client, edge>>

\* close: no new connections, and then the ones there are.
CloseRequested ==
    /\ host = "open"
    /\ host' = "closing"
    /\ UNCHANGED <<now, standing, client, conn, reply, edge>>

Closed ==
    /\ host = "closing"
    /\ \A c \in Client : conn[c] \in {"none", "gone"}
    /\ host' = "closed"
    /\ UNCHANGED <<now, standing, client, conn, reply, edge>>

\* The host is killed: what it had sent is carried out all the same.
HostKilled ==
    /\ host \in {"open", "closing"}
    /\ host' = "crashed"
    /\ conn' = [c \in Client |-> IF conn[c] = "none" THEN "none" ELSE "gone"]
    /\ UNCHANGED <<now, standing, client, reply, edge>>

-----------------------------------------------------------------------------
(***************************************************************************)
(* The Edge Function.                                                      *)
(***************************************************************************)

Answers(c, r) ==
    /\ response' = [response EXCEPT ![c] = r]
    /\ http' = [http EXCEPT ![c] = "answered"]

\* What is refused before the limiter: the shape of the token, the size.
RefusesEarly(c) ==
    /\ http[c] = "sent"
    /\ \E kind \in {"malformed_token", "body_too_large"} : Answers(c, Refused(kind))
    /\ UNCHANGED <<context, client, conn, reply, at, windows, admittedAt, storedBy>>

\* RateLimiter.allow, and what it leaves in the map.
NewWindow(i) == windows[i] # None => now >= windows[i].resetAt

Allowed(i) == ~NewWindow(i) => windows[i].count < Limit

\* Wrong variant: the request that opens a window is not counted.
CountedUncounted(i) ==
    IF NewWindow(i) THEN [count |-> 0, resetAt |-> now + Window]
    ELSE [windows[i] EXCEPT !.count = @ + 1]

Counted(i) ==
    IF NewWindow(i) THEN [count |-> 1, resetAt |-> now + Window]
    ELSE [windows[i] EXCEPT !.count = @ + 1]

Admit(c) ==
    /\ http[c] = "sent"
    /\ Allowed(at[c])
    /\ windows' = [windows EXCEPT ![at[c]] = Counted(at[c])]
    /\ admittedAt' = [admittedAt EXCEPT ![c] = now]
    /\ http' = [http EXCEPT ![c] = "admitted"]
    /\ UNCHANGED <<context, client, conn, reply, at, response, storedBy>>

Limits(c) ==
    /\ http[c] = "sent"
    /\ ~Allowed(at[c])
    /\ Answers(c, Refused("rate_limited"))
    /\ UNCHANGED <<context, client, conn, reply, at, windows, admittedAt, storedBy>>

(***************************************************************************)
(* The RPC commits and names what is stored: ids of another installation's *)
(* snapshots are not named.  Its answer may be lost between the plane and  *)
(* the function, or the function's body on its way to the host.            *)
(***************************************************************************)
Commits(c) ==
    /\ http[c] = "admitted" /\ standing = "good"
    /\ \E ids \in SUBSET batch[c] :
         /\ storedBy' = [storedBy EXCEPT ![c] = ids]
         /\ \E r \in {Succeeded(ids), Succeeded(None), Refused(RefusalFor("other"))} :
              Answers(c, r)
    /\ UNCHANGED <<context, client, conn, reply, at, windows, admittedAt>>

\* The RPC raises, and stores nothing.
Raises(c, error) ==
    /\ http[c] = "admitted"
    /\ error \in TokenError => standing = "bad"
    /\ error = "ieos_batch_too_large" => standing = "good"
    /\ Answers(c, Refused(RefusalFor(error)))
    /\ UNCHANGED <<context, client, conn, reply, at, windows, admittedAt, storedBy>>

-----------------------------------------------------------------------------
\* Time passes; the owner revokes or rotates the token, or it expires.
Tick ==
    /\ now < MaxTime
    /\ now' = now + 1
    /\ UNCHANGED <<standing, host, client, conn, reply, edge>>

TokenChanges ==
    /\ standing = "good"
    /\ standing' = "bad"
    /\ UNCHANGED <<now, host, client, conn, reply, edge>>

ClientStep(c) == TimesOut(c) \/ ReadsReply(c) \/ Disconnected(c)

HostStep(c) ==
    \/ FrameArrives(c) \/ ClientLeft(c)
    \/ ResponseArrives(c) \/ FetchFails(c)

EdgeStep(c) ==
    \/ RefusesEarly(c) \/ Admit(c) \/ Limits(c) \/ Commits(c)
    \/ \E e \in DbError : Raises(c, e)

Next ==
    \/ \E c \in Client :
          \/ \E ids \in (SUBSET Item) \ {{}} : Connect(c, ids) \/ ConnectFails(c, ids)
          \/ ClientStep(c) \/ ClientKilled(c) \/ HostStep(c) \/ EdgeStep(c)
    \/ CloseRequested \/ Closed \/ HostKilled \/ Tick \/ TokenChanges

Spec == Init /\ [][Next]_vars

\* A socket's timer fires and its events are delivered.  Nothing is assumed of
\* the network: a call of the Edge Function may never return.
Fairness ==
    /\ \A c \in Client : WF_vars(ClientStep(c)) /\ WF_vars(ClientLeft(c))
    /\ WF_vars(Closed)

FairSpec == Spec /\ Fairness

-----------------------------------------------------------------------------
\* The requests an isolate's limiter let pass since its window began.
Admitted(i) ==
    {c \in Client : /\ at[c] = i /\ admittedAt[c] # None
                    /\ admittedAt[c] >= windows[i].resetAt - Window}

(***************************************************************************)
(* What the client is told is accepted, its own request stored: through a  *)
(* lost request, a lost or torn answer, a refusal or a timeout on any of   *)
(* the hops.                                                               *)
(***************************************************************************)
AcceptedIsStored ==
    \A c \in Client : outcome[c] # None =>
        outcome[c].ids \subseteq storedBy[c] \intersect batch[c]

(***************************************************************************)
(* "rejected" is final for the Flusher, so it must mean that the plane     *)
(* decided against the request: nothing of it was stored, nor will be.     *)
(***************************************************************************)
RejectedIsDecided ==
    \A c \in Client : outcome[c] # None /\ outcome[c].status = "rejected" =>
        /\ storedBy[c] = {}
        /\ http[c] = "over"

(***************************************************************************)
(* A window of an isolate's limiter lets at most Limit requests pass, the  *)
(* one that opened it included.                                            *)
(***************************************************************************)
RateBound ==
    \A i \in Isolate : windows[i] # None => Cardinality(Admitted(i)) <= Limit

(***************************************************************************)
(* What the client's promise was resolved with stays, whatever still       *)
(* arrives: a reply after the timeout, an end after the reply.             *)
(***************************************************************************)
OutcomeFinal ==
    [][\A c \in Client : outcome[c] # None => outcome'[c] = outcome[c]]_vars

(***************************************************************************)
(* Closing the proxy at the end of a trial comes to an end, though it      *)
(* waits for every connection: clients give up, or the host is killed.     *)
(***************************************************************************)
CloseEnds == host = "closing" ~> host \in {"closed", "crashed"}
=============================================================================
