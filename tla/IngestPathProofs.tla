--------------------------- MODULE IngestPathProofs ---------------------------
(***************************************************************************)
(* The ingest path, proved for any number of requests, ids and isolates,   *)
(* any limit and any window.                                               *)
(***************************************************************************)
EXTENDS IngestPath, FiniteSetTheorems, TLAPS

(***************************************************************************)
(* An outcome is just when it claims no more than the plane did, and an    *)
(* HTTP response is honest when the outcome read from it will be just.     *)
(***************************************************************************)
Just(c, o) ==
    /\ o.ids \subseteq storedBy[c] \intersect batch[c]
    /\ o.status = "rejected" => storedBy[c] = {} /\ http[c] = "over"

Honest(c, r) ==
    /\ r.status = 200 /\ r.accepted # None => r.accepted \subseteq storedBy[c]
    /\ r.status # 200 /\ r.status < 500 => storedBy[c] = {}

\* What is known of a request and its promise, hop by hop.
Promised ==
    \A c \in Client :
        /\ ask[c] = "idle" => conn[c] = "none"
        /\ ask[c] \in {"idle", "waiting"} => outcome[c] = None
        /\ outcome[c] # None => Just(c, outcome[c])
        /\ conn[c] = "answered" => reply[c] \in Outcome /\ Just(c, reply[c])

Carried ==
    \A c \in Client :
        /\ conn[c] \in {"none", "reading"} => http[c] = "none"
        /\ http[c] \in {"none", "sent", "admitted"} => storedBy[c] = {}
        /\ http[c] \in {"none", "sent"} => admittedAt[c] = None
        /\ http[c] # "none" => at[c] \in Isolate
        /\ http[c] = "answered" => response[c] \in Response /\ Honest(c, response[c])

PathInv == TypeOK /\ Promised /\ Carried

Kinds == {"malformed_token", "unknown_token", "revoked_token", "expired_token",
          "body_too_large", "malformed_body", "rate_limited", "upstream"}

-----------------------------------------------------------------------------
(***************************************************************************)
(* Refusals and what the client makes of a response.                       *)
(***************************************************************************)

LEMMA Refusals ==
    /\ \A e \in DbError : RefusalFor(e) \in Kinds
    /\ RefusalFor("other") = "upstream"
  BY DEF DbError, TokenError, RefusalFor, Kinds

LEMMA Statuses ==
    /\ \A k \in Kinds : Status(k) \in {400, 401, 403, 413, 429, 502}
    /\ Status("upstream") = 502
  BY DEF Status, Kinds

LEMMA Responses ==
    /\ \A k \in Kinds : /\ Refused(k) \in Response
                        /\ Refused(k).status # 200
    /\ Refused("upstream").status = 502
    /\ \A ids \in (SUBSET Item) \union {None} :
          /\ Succeeded(ids) \in Response
          /\ Succeeded(ids).status = 200
          /\ Succeeded(ids).accepted = ids
  BY Statuses DEF Refused, Succeeded, Response, Kinds

LEMMA UnreachableIsJust ==
    /\ Unreachable \in Outcome
    /\ Unreachable.ids = {}
    /\ Unreachable.status = "unreachable"
  BY DEF Unreachable, Outcome

\* The outcome read from an honest response is just, once the call is over.
LEMMA Reading ==
    ASSUME NEW r \in Response, NEW ids \in SUBSET Item, NEW held,
           r.status = 200 /\ r.accepted # None => r.accepted \subseteq held,
           r.status # 200 /\ r.status < 500 => held = {}
    PROVE  /\ OutcomeOf(r, ids) \in Outcome
           /\ OutcomeOf(r, ids).ids \subseteq held \intersect ids
           /\ OutcomeOf(r, ids).status = "rejected" => held = {}
  <1>1. CASE r.status = 200 /\ r.accepted # None /\ r.accepted \subseteq ids
    <2>1. OutcomeOf(r, ids) = [status |-> "accepted", ids |-> r.accepted]
      BY <1>1 DEF OutcomeOf
    <2>. QED  BY <1>1, <2>1 DEF Outcome
  <1>2. CASE r.status # 200 /\ r.status < 500
    <2>1. OutcomeOf(r, ids) = [status |-> "rejected", ids |-> {}]
      BY <1>2 DEF OutcomeOf, Response
    <2>. QED  BY <1>2, <2>1 DEF Outcome
  <1>3. CASE OutcomeOf(r, ids) = Unreachable
    BY <1>3, UnreachableIsJust
  <1>. QED  BY <1>1, <1>2, <1>3 DEF OutcomeOf, Response

-----------------------------------------------------------------------------
LEMMA InitInv == Init => PathInv
  BY PathAssumption DEF Init, PathInv, TypeOK, Promised, Carried, Time

(***************************************************************************)
(* The client's steps.                                                     *)
(***************************************************************************)

LEMMA ConnectInv ==
    ASSUME PathInv, NEW c \in Client, NEW ids \in SUBSET Item, Connect(c, ids)
    PROVE  PathInv'
  <1>. USE DEF PathInv, Connect, context, edge
  <1>1. TypeOK'
    BY DEF TypeOK
  <1>2. Promised'
    BY DEF TypeOK, Promised, Just
  <1>3. Carried'
    BY DEF TypeOK, Promised, Carried, Honest
  <1>. QED  BY <1>1, <1>2, <1>3

LEMMA ConnectFailsInv ==
    ASSUME PathInv, NEW c \in Client, NEW ids \in SUBSET Item, ConnectFails(c, ids)
    PROVE  PathInv'
  <1>. USE UnreachableIsJust DEF PathInv, ConnectFails, context, edge
  <1>1. TypeOK'
    BY DEF TypeOK
  <1>2. Promised'
    BY DEF TypeOK, Promised, Just
  <1>3. Carried'
    BY DEF TypeOK, Promised, Carried, Honest
  <1>. QED  BY <1>1, <1>2, <1>3

\* Settling the promise with a just outcome, whatever becomes of the socket.
LEMMA FinishInv ==
    ASSUME PathInv, NEW c \in Client, NEW o \in Outcome, Just(c, o), Finish(c, o),
           UNCHANGED <<context, reply, edge>>,
           \/ UNCHANGED conn
           \/ conn[c] = "answered" /\ conn' = [conn EXCEPT ![c] = "gone"]
    PROVE  PathInv'
  <1>. USE DEF PathInv, Finish, context, edge
  <1>1. TypeOK'
    BY DEF TypeOK
  <1>2. Promised'
    BY DEF TypeOK, Promised, Just
  <1>3. Carried'
    BY DEF TypeOK, Carried, Honest
  <1>. QED  BY <1>1, <1>2, <1>3

LEMMA ClientInv ==
    ASSUME PathInv, NEW c \in Client, ClientStep(c)
    PROVE  PathInv'
  <1>1. Just(c, Unreachable)
    BY UnreachableIsJust DEF Just
  <1>2. CASE TimesOut(c)
    BY <1>1, <1>2, UnreachableIsJust, FinishInv DEF TimesOut
  <1>3. CASE Disconnected(c)
    BY <1>1, <1>3, UnreachableIsJust, FinishInv DEF Disconnected
  <1>4. CASE ReadsReply(c)
    <2>1. reply[c] \in Outcome /\ Just(c, reply[c])
      BY <1>4 DEF ReadsReply, PathInv, Promised
    <2>. QED  BY <1>4, <2>1, FinishInv DEF ReadsReply
  <1>. QED  BY <1>2, <1>3, <1>4 DEF ClientStep

LEMMA KilledInv ==
    ASSUME PathInv, NEW c \in Client, ClientKilled(c)
    PROVE  PathInv'
  <1>. USE DEF PathInv, ClientKilled, context, edge
  <1>1. TypeOK'
    BY DEF TypeOK
  <1>2. Promised'
    BY DEF TypeOK, Promised, Just
  <1>3. Carried'
    BY DEF TypeOK, Carried, Honest
  <1>. QED  BY <1>1, <1>2, <1>3

-----------------------------------------------------------------------------
(***************************************************************************)
(* The proxy's steps.                                                      *)
(***************************************************************************)

LEMMA FrameArrivesInv ==
    ASSUME PathInv, NEW c \in Client, FrameArrives(c)
    PROVE  PathInv'
  <1>. USE DEF PathInv, FrameArrives, context, client
  <1>1. TypeOK'
    BY DEF TypeOK
  <1>2. Promised'
    BY DEF TypeOK, Promised, Carried, Just
  <1>3. Carried'
    BY DEF TypeOK, Carried, Honest
  <1>. QED  BY <1>1, <1>2, <1>3

LEMMA ClientLeftInv ==
    ASSUME PathInv, NEW c \in Client, ClientLeft(c)
    PROVE  PathInv'
  <1>. USE DEF PathInv, ClientLeft, context, client, edge
  <1>1. TypeOK'
    BY DEF TypeOK
  <1>2. Promised'
    BY DEF TypeOK, Promised, Just
  <1>3. Carried'
    BY DEF TypeOK, Carried, Honest
  <1>. QED  BY <1>1, <1>2, <1>3

LEMMA ResponseArrivesInv ==
    ASSUME PathInv, NEW c \in Client, ResponseArrives(c)
    PROVE  PathInv'
  <1>. DEFINE o == OutcomeOf(response[c], batch[c])
  <1>1. /\ o \in Outcome
        /\ o.ids \subseteq storedBy[c] \intersect batch[c]
        /\ o.status = "rejected" => storedBy[c] = {}
    <2>1. response[c] \in Response /\ Honest(c, response[c])
      BY DEF ResponseArrives, PathInv, Carried
    <2>2. batch[c] \in SUBSET Item
      BY DEF PathInv, TypeOK
    <2>. QED  BY <2>1, <2>2, Reading DEF Honest
  <1>. HIDE DEF o
  <1>2. /\ http[c] = "answered" /\ conn[c] = "forwarding"
        /\ conn' = [conn EXCEPT ![c] = "answered"]
        /\ reply' = [reply EXCEPT ![c] = o]
        /\ http' = [http EXCEPT ![c] = "over"]
        /\ UNCHANGED <<context, client, at, response, windows, admittedAt, storedBy>>
    BY DEF ResponseArrives, Replies, o
  <1>. USE <1>1, <1>2 DEF PathInv, context, client
  <1>3. TypeOK'
    BY DEF TypeOK
  <1>4. Promised'
    BY DEF TypeOK, Promised, Just
  <1>5. Carried'
    BY DEF TypeOK, Carried, Honest
  <1>. QED  BY <1>3, <1>4, <1>5

LEMMA FetchFailsInv ==
    ASSUME PathInv, NEW c \in Client, FetchFails(c)
    PROVE  PathInv'
  <1>. USE UnreachableIsJust DEF PathInv, FetchFails, Replies, context, client, edge
  <1>1. TypeOK'
    BY DEF TypeOK
  <1>2. Promised'
    BY DEF TypeOK, Promised, Just
  <1>3. Carried'
    BY DEF TypeOK, Carried, Honest
  <1>. QED  BY <1>1, <1>2, <1>3

-----------------------------------------------------------------------------
(***************************************************************************)
(* The Edge Function's steps.                                              *)
(***************************************************************************)

\* Answering with an honest response, having stored nothing before.
LEMMA AnswersInv ==
    ASSUME PathInv, NEW c \in Client, NEW r \in Response, NEW held \in SUBSET Item,
           http[c] \in {"sent", "admitted"},
           Answers(c, r),
           storedBy' = [storedBy EXCEPT ![c] = held],
           r.status = 200 /\ r.accepted # None => r.accepted \subseteq held,
           r.status # 200 /\ r.status < 500 => held = {},
           UNCHANGED <<context, client, conn, reply, at, windows, admittedAt>>
    PROVE  PathInv'
  <1>. USE DEF PathInv, Answers, context, client
  <1>1. TypeOK'
    BY DEF TypeOK
  <1>2. Promised'
    BY DEF TypeOK, Promised, Carried, Just
  <1>3. Carried'
    BY DEF TypeOK, Carried, Honest
  <1>. QED  BY <1>1, <1>2, <1>3

\* Answering with a refusal, and storing nothing.
LEMMA RefusesInv ==
    ASSUME PathInv, NEW c \in Client, NEW k \in Kinds,
           http[c] \in {"sent", "admitted"},
           Answers(c, Refused(k)),
           UNCHANGED <<context, client, conn, reply, at, windows, admittedAt, storedBy>>
    PROVE  PathInv'
  <1>1. storedBy[c] = {} /\ storedBy' = [storedBy EXCEPT ![c] = {}]
    BY DEF PathInv, Carried, TypeOK
  <1>2. Refused(k) \in Response /\ Refused(k).status # 200
    BY Responses
  <1>. QED  BY <1>1, <1>2, AnswersInv

LEMMA AdmitInv ==
    ASSUME PathInv, NEW c \in Client, Admit(c)
    PROVE  PathInv'
  <1>. USE DEF PathInv, Admit, context, client
  <1>1. TypeOK'
    <2>1. Counted(at[c]) \in [count : 1 .. Limit, resetAt : Nat]
      BY PathAssumption DEF TypeOK, Time, Carried, Counted, Allowed, NewWindow
    <2>. QED  BY <2>1 DEF TypeOK
  <1>2. Promised'
    BY DEF TypeOK, Promised, Just
  <1>3. Carried'
    BY DEF TypeOK, Carried, Honest
  <1>. QED  BY <1>1, <1>2, <1>3

LEMMA CommitsInv ==
    ASSUME PathInv, NEW c \in Client, Commits(c)
    PROVE  PathInv'
  <1>0. PICK ids \in SUBSET batch[c] :
           /\ storedBy' = [storedBy EXCEPT ![c] = ids]
           /\ \E r \in {Succeeded(ids), Succeeded(None), Refused(RefusalFor("other"))} :
                Answers(c, r)
    BY DEF Commits
  <1>1. PICK r \in {Succeeded(ids), Succeeded(None), Refused(RefusalFor("other"))} :
           Answers(c, r)
    BY <1>0
  <1>2. ids \in SUBSET Item
    BY DEF PathInv, TypeOK
  <1>3. /\ r \in Response
        /\ r.status = 200 /\ r.accepted # None => r.accepted \subseteq ids
        /\ r.status # 200 /\ r.status < 500 => ids = {}
    BY <1>2, Responses, Refusals DEF Kinds
  <1>4. /\ http[c] \in {"sent", "admitted"}
        /\ UNCHANGED <<context, client, conn, reply, at, windows, admittedAt>>
    BY DEF Commits
  <1>. QED  BY <1>0, <1>1, <1>2, <1>3, <1>4, AnswersInv

LEMMA EdgeInv ==
    ASSUME PathInv, NEW c \in Client, EdgeStep(c)
    PROVE  PathInv'
  <1>1. CASE RefusesEarly(c)
    BY <1>1, RefusesInv DEF RefusesEarly, Kinds
  <1>2. CASE Admit(c)
    BY <1>2, AdmitInv
  <1>3. CASE Limits(c)
    BY <1>3, RefusesInv DEF Limits, Kinds
  <1>4. CASE Commits(c)
    BY <1>4, CommitsInv
  <1>5. ASSUME NEW e \in DbError, Raises(c, e)  PROVE PathInv'
    BY <1>5, RefusesInv, Refusals DEF Raises
  <1>. QED  BY <1>1, <1>2, <1>3, <1>4, <1>5 DEF EdgeStep

-----------------------------------------------------------------------------
LEMMA HostKilledInv ==
    ASSUME PathInv, HostKilled
    PROVE  PathInv'
  <1>. USE DEF PathInv, HostKilled, client, edge
  <1>1. TypeOK'
    BY DEF TypeOK
  <1>2. Promised'
    BY DEF TypeOK, Promised, Just
  <1>3. Carried'
    BY DEF TypeOK, Carried, Honest
  <1>. QED  BY <1>1, <1>2, <1>3

\* Time, the token, closing the proxy, and stuttering.
LEMMA AroundInv ==
    ASSUME PathInv, CloseRequested \/ Closed \/ Tick \/ TokenChanges \/ UNCHANGED vars
    PROVE  PathInv'
  <1>. USE DEF PathInv, CloseRequested, Closed, Tick, TokenChanges, vars, context,
               client, edge
  <1>1. TypeOK'
    BY PathAssumption DEF TypeOK, Time
  <1>2. Promised'
    BY DEF Promised, Just
  <1>3. Carried'
    BY DEF Carried, Honest
  <1>. QED  BY <1>1, <1>2, <1>3

LEMMA StepInv == PathInv /\ [Next]_vars => PathInv'
  <1>. SUFFICES ASSUME PathInv, [Next]_vars PROVE PathInv'
    OBVIOUS
  <1>1. ASSUME NEW c \in Client, NEW ids \in (SUBSET Item) \ {{}},
               Connect(c, ids) \/ ConnectFails(c, ids)
        PROVE  PathInv'
    BY <1>1, ConnectInv, ConnectFailsInv
  <1>2. ASSUME NEW c \in Client, ClientStep(c) \/ ClientKilled(c)  PROVE PathInv'
    BY <1>2, ClientInv, KilledInv
  <1>3. ASSUME NEW c \in Client, HostStep(c)  PROVE PathInv'
    BY <1>3, FrameArrivesInv, ClientLeftInv, ResponseArrivesInv, FetchFailsInv
       DEF HostStep
  <1>4. ASSUME NEW c \in Client, EdgeStep(c)  PROVE PathInv'
    BY <1>4, EdgeInv
  <1>. QED  BY <1>1, <1>2, <1>3, <1>4, HostKilledInv, AroundInv DEF Next

LEMMA PathHolds == Spec => []PathInv
  BY InitInv, StepInv, PTL DEF Spec

-----------------------------------------------------------------------------
(***************************************************************************)
(* Requests, isolates, windows and tokens stay what they are: every        *)
(* variable of client, proxy and Edge Function keeps its type, a window's  *)
(* count its limit.                                                        *)
(***************************************************************************)
THEOREM TypeCorrect == Spec => []TypeOK
  BY PathHolds, PTL DEF PathInv

(***************************************************************************)
(* What a client is told is accepted, its own request stored, for any      *)
(* number of requests and ids and whatever is lost on the way.             *)
(***************************************************************************)
THEOREM Accepted == Spec => []AcceptedIsStored
  <1>1. PathInv => AcceptedIsStored
    BY DEF PathInv, Promised, Just, AcceptedIsStored
  <1>. QED  BY <1>1, PathHolds, PTL

(***************************************************************************)
(* A client that is told "rejected" has a request that stored nothing and  *)
(* has come to its end: giving up on it loses nothing that was stored.     *)
(***************************************************************************)
THEOREM Rejected == Spec => []RejectedIsDecided
  <1>1. PathInv => RejectedIsDecided
    BY DEF PathInv, Promised, Just, RejectedIsDecided
  <1>. QED  BY <1>1, PathHolds, PTL

(***************************************************************************)
(* A promise is settled once: no event of the socket changes its outcome.  *)
(***************************************************************************)
THEOREM SettledOnce == Spec => OutcomeFinal
  <1>1. PathInv /\ [Next]_vars =>
          [\A c \in Client : outcome[c] # None => outcome'[c] = outcome[c]]_vars
    <2>. SUFFICES ASSUME PathInv, [Next]_vars, NEW c \in Client, outcome[c] # None
                  PROVE  outcome'[c] = outcome[c]
      OBVIOUS
    <2>1. ask[c] \notin {"idle", "waiting"}
      BY DEF PathInv, Promised
    <2>2. ASSUME NEW d \in Client, NEW ids \in (SUBSET Item) \ {{}},
                 Connect(d, ids) \/ ConnectFails(d, ids)
          PROVE  outcome'[c] = outcome[c]
      BY <2>1, <2>2 DEF PathInv, TypeOK, Connect, ConnectFails
    <2>3. ASSUME NEW d \in Client, ClientStep(d) \/ ClientKilled(d)
          PROVE  outcome'[c] = outcome[c]
      BY <2>1, <2>3 DEF PathInv, TypeOK, ClientStep, TimesOut, ReadsReply,
                        Disconnected, Finish, ClientKilled
    <2>4. ASSUME NEW d \in Client, HostStep(d) \/ EdgeStep(d)
          PROVE  outcome' = outcome
      BY <2>4 DEF HostStep, FrameArrives, ClientLeft, ResponseArrives, FetchFails,
                  EdgeStep, RefusesEarly, Admit, Limits, Commits, Raises, client
    <2>5. ASSUME CloseRequested \/ Closed \/ HostKilled \/ Tick \/ TokenChanges
          PROVE  outcome' = outcome
      BY <2>5 DEF CloseRequested, Closed, HostKilled, Tick, TokenChanges, client
    <2>. QED  BY <2>2, <2>3, <2>4, <2>5 DEF Next, vars, client
  <1>. QED  BY <1>1, PathHolds, PTL DEF Spec, OutcomeFinal

-----------------------------------------------------------------------------
(***************************************************************************)
(* The limiter.  A window's count is the number of requests it let pass,   *)
(* it has begun, and all that passed at its isolate did so before it ends. *)
(***************************************************************************)
WindowCounts ==
    \A i \in Isolate :
        /\ windows[i] = None => \A c \in Client : at[c] = i => admittedAt[c] = None
        /\ windows[i] # None =>
             /\ windows[i].resetAt <= now + Window
             /\ Cardinality(Admitted(i)) = windows[i].count
             /\ \A c \in Client : at[c] = i /\ admittedAt[c] # None =>
                  admittedAt[c] < windows[i].resetAt

LEMMA AdmittedFinite == \A i \in Isolate : IsFiniteSet(Admitted(i))
  BY ClientsFinite, FS_Subset DEF Admitted

LEMMA AdmitCounts ==
    ASSUME PathInv, WindowCounts, NEW c \in Client, Admit(c)
    PROVE  WindowCounts'
  <1>. DEFINE e == at[c]
  <1>1. /\ e \in Isolate /\ now \in Nat /\ now # None /\ now' = now
        /\ admittedAt[c] = None
        /\ at' = at
        /\ windows' = [windows EXCEPT ![e] = Counted(e)]
        /\ admittedAt' = [admittedAt EXCEPT ![c] = now]
        /\ windows \in [Isolate -> [count : 1 .. Limit, resetAt : Nat] \union {None}]
        /\ admittedAt \in [Client -> Nat \union {None}]
    BY PathAssumption, NoneIsNothing DEF Admit, PathInv, TypeOK, Carried, Time, context
  <1>. HIDE DEF e
  <1>. SUFFICES ASSUME NEW i \in Isolate
                PROVE  /\ windows'[i] = None =>
                            \A d \in Client : at'[d] = i => admittedAt'[d] = None
                       /\ windows'[i] # None =>
                            /\ windows'[i].resetAt <= now' + Window
                            /\ Cardinality(Admitted(i)') = windows'[i].count
                            /\ \A d \in Client : at'[d] = i /\ admittedAt'[d] # None =>
                                 admittedAt'[d] < windows'[i].resetAt
    BY DEF WindowCounts
  <1>2. CASE i # e
    <2>1. windows'[i] = windows[i] /\ at[c] # i
      BY <1>1, <1>2 DEF e
    <2>2. \A d \in Client : at[d] = i => admittedAt'[d] = admittedAt[d]
      BY <1>1, <2>1
    <2>3. Admitted(i)' = Admitted(i)
      BY <1>1, <2>1, <2>2 DEF Admitted
    <2>. QED  BY <1>1, <2>1, <2>2, <2>3 DEF WindowCounts
  <1>3. CASE i = e /\ NewWindow(e)
    <2>1. windows'[i] = [count |-> 1, resetAt |-> now + Window]
      BY <1>1, <1>3 DEF Counted
    <2>2. \A d \in Client : at[d] = i /\ admittedAt[d] # None => admittedAt[d] < now
      BY <1>1, <1>3, NoneIsNothing DEF WindowCounts, NewWindow
    <2>3. Admitted(i)' = {c}
      BY <1>1, <1>3, <2>1, <2>2, PathAssumption DEF Admitted, e
    <2>4. \A d \in Client : at'[d] = i /\ admittedAt'[d] # None =>
             admittedAt'[d] < now + Window
      BY <1>1, <2>2, PathAssumption
    <2>5. windows'[i] # None /\ Cardinality(Admitted(i)') = 1
      <3>1. [count |-> 1, resetAt |-> now + Window] \in [count : Nat, resetAt : Nat]
        BY <1>1, PathAssumption
      <3>. QED  BY <2>1, <2>3, <3>1, FS_Singleton, NoneIsNothing
    <2>. QED  BY <1>1, <2>1, <2>4, <2>5, PathAssumption
  <1>4. CASE i = e /\ ~NewWindow(e)
    <2>1. /\ windows[i] # None /\ now < windows[i].resetAt
          /\ windows[i] \in [count : 1 .. Limit, resetAt : Nat]
      BY <1>1, <1>4 DEF NewWindow
    <2>2. /\ windows'[i].count = windows[i].count + 1
          /\ windows'[i].resetAt = windows[i].resetAt
      BY <1>1, <1>4, <2>1 DEF Counted
    <2>3. now >= windows[i].resetAt - Window
      BY <1>1, <2>1, PathAssumption DEF WindowCounts
    <2>4. Admitted(i)' = Admitted(i) \union {c} /\ c \notin Admitted(i)
      BY <1>1, <1>4, <2>1, <2>2, <2>3 DEF Admitted, e
    <2>5. Cardinality(Admitted(i)') = windows[i].count + 1
      BY <2>1, <2>4, AdmittedFinite, FS_AddElement DEF WindowCounts
    <2>6. \A d \in Client : at'[d] = i /\ admittedAt'[d] # None =>
             admittedAt'[d] < windows[i].resetAt
      BY <1>1, <2>1 DEF WindowCounts
    <2>7. windows'[i] # None
      BY <1>1, <1>4, <2>1, NoneIsNothing DEF Counted
    <2>. QED  BY <1>1, <2>1, <2>2, <2>5, <2>6, <2>7 DEF WindowCounts
  <1>. QED  BY <1>2, <1>3, <1>4

\* A request that is handed to an isolate has not been admitted yet.
LEMMA ArrivalCounts ==
    ASSUME PathInv, WindowCounts, NEW c \in Client, FrameArrives(c)
    PROVE  WindowCounts'
  <1>1. /\ admittedAt[c] = None
        /\ \A d \in Client : d # c => at'[d] = at[d]
        /\ UNCHANGED <<now, windows, admittedAt>>
    BY DEF FrameArrives, PathInv, TypeOK, Carried, context
  <1>2. \A i \in Isolate : Admitted(i)' = Admitted(i)
    BY <1>1 DEF Admitted
  <1>. QED  BY <1>1, <1>2 DEF WindowCounts

\* Everyone else leaves the limiters alone, while time passes.
LEMMA RestCounts ==
    ASSUME PathInv, WindowCounts, UNCHANGED <<at, windows, admittedAt>>,
           now' = now \/ now' = now + 1
    PROVE  WindowCounts'
  <1>1. \A i \in Isolate : Admitted(i)' = Admitted(i)
    BY DEF Admitted
  <1>. SUFFICES ASSUME NEW i \in Isolate, windows[i] # None
                PROVE  windows[i].resetAt <= now' + Window
    BY <1>1 DEF WindowCounts
  <1>2. windows[i].resetAt \in Nat /\ now \in Nat
    BY PathAssumption DEF PathInv, TypeOK, Time
  <1>. QED  BY <1>2, PathAssumption DEF WindowCounts

LEMMA StepCounts == PathInv /\ WindowCounts /\ [Next]_vars => WindowCounts'
  <1>. SUFFICES ASSUME PathInv, WindowCounts, [Next]_vars PROVE WindowCounts'
    OBVIOUS
  <1>. DEFINE Idle == /\ UNCHANGED <<at, windows, admittedAt>>
                      /\ now' = now \/ now' = now + 1
  <1>1. ASSUME NEW c \in Client, NEW ids, Connect(c, ids) \/ ConnectFails(c, ids)
        PROVE  Idle
    BY <1>1 DEF Connect, ConnectFails, edge, context
  <1>2. ASSUME NEW c \in Client, ClientStep(c) \/ ClientKilled(c)
        PROVE  Idle
    BY <1>2 DEF ClientStep, TimesOut, ReadsReply, Disconnected, ClientKilled, edge,
                context
  <1>3. ASSUME NEW c \in Client, ClientLeft(c) \/ ResponseArrives(c) \/ FetchFails(c)
        PROVE  Idle
    BY <1>3 DEF ClientLeft, ResponseArrives, FetchFails, edge, context
  <1>4. ASSUME NEW c \in Client,
               \/ RefusesEarly(c) \/ Limits(c) \/ Commits(c)
               \/ \E e \in DbError : Raises(c, e)
        PROVE  Idle
    BY <1>4 DEF RefusesEarly, Limits, Commits, Raises, context
  <1>5. ASSUME \/ CloseRequested \/ Closed \/ HostKilled \/ Tick \/ TokenChanges
               \/ UNCHANGED vars
        PROVE  Idle
    BY <1>5 DEF CloseRequested, Closed, HostKilled, Tick, TokenChanges, vars, edge,
                context
  <1>6. Idle => WindowCounts'
    BY RestCounts
  <1>. HIDE DEF Idle
  <1>. QED  BY <1>1, <1>2, <1>3, <1>4, <1>5, <1>6, AdmitCounts, ArrivalCounts
            DEF Next, HostStep, EdgeStep

(***************************************************************************)
(* Whatever the limit, the window and the order of requests: no window of  *)
(* a limiter lets more than the limit pass.                                *)
(***************************************************************************)
THEOREM RateLimited == Spec => []RateBound
  <1>1. Init => WindowCounts
    BY DEF Init, WindowCounts
  <1>2. PathInv /\ WindowCounts => RateBound
    <2>. SUFFICES ASSUME PathInv, WindowCounts, NEW i \in Isolate, windows[i] # None
                  PROVE  Cardinality(Admitted(i)) <= Limit
      BY DEF RateBound
    <2>1. windows \in [Isolate -> [count : 1 .. Limit, resetAt : Nat] \union {None}]
      BY DEF PathInv, TypeOK
    <2>2. windows[i] \in [count : 1 .. Limit, resetAt : Nat]
      BY <2>1
    <2>3. Cardinality(Admitted(i)) = windows[i].count
      BY DEF WindowCounts
    <2>. QED  BY <2>2, <2>3, PathAssumption
  <1>. QED  BY <1>1, <1>2, StepCounts, PathHolds, PTL DEF Spec
=============================================================================
