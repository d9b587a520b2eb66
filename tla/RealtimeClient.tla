--------------------------- MODULE RealtimeClient ---------------------------
(***************************************************************************)
(* The connection object through which the app reads and writes diaries:   *)
(* FPersistentConnection of the Realtime Database SDK, with the part of    *)
(* FRepo that decides whether a read goes to the server at all, and the    *)
(* database server it talks to.                                            *)
(*                                                                         *)
(* Everything in FPersistentConnection runs on one serial dispatch queue,  *)
(* so a handler is one step; the steps interleave with the server, the     *)
(* network, the token service and the timers.  The app attaches no         *)
(* listener, runs no transaction and no onDisconnect operation, and leaves *)
(* disk persistence off, so those branches of the SDK are not taken.       *)
(*                                                                         *)
(* A put is known by the number putInternal gives it, and a date in the    *)
(* database by the number of the put it holds (0: the value it had before  *)
(* the first put), so "newer" is "greater".                                *)
(***************************************************************************)
EXTENDS Integers, Sequences, FiniteSets

CONSTANTS
    Dates,        \* the children of diary/<uid> the user reads and writes
    WholeDiary,   \* the node diary/<uid> itself, read to count its children
    MaxPuts,      \* bound on the setValue calls of a behaviour
    MaxGets,      \* bound on the getData calls of a behaviour
    MaxFaults,    \* bound on lost connections, refused tokens, kills
    MaxRefreshes  \* bound on token changes reported by the auth service

ASSUME BoundsAssumption ==
    /\ MaxPuts \in Nat
    /\ MaxGets \in Nat
    /\ MaxFaults \in Nat
    /\ MaxRefreshes \in Nat

ASSUME WholeDiaryAssumption == WholeDiary \notin Dates

VARIABLES
    \* FPersistentConnection
    conn,            \* connectionState
    interrupted,     \* interruptReasons holds the server's kill
    retryScheduled,  \* retryHelper.scheduledRetry is set
    token,           \* authToken is not nil
    outstandingPuts, \* keys of outstandingPuts
    outstandingGets, \* keys of outstandingGets
    sentGets,        \* gets whose `sent` flag is set
    timers,          \* gets for which the offline timer is running
    \* one connection: requests in order, the first `served` already answered
    wire,
    served,
    \* the server
    db,
    \* history
    puts,            \* puts[i]: the date put i writes
    gets,            \* gets[g]: what get g reads, how many puts came before
    answers,         \* completion callbacks of gets, in order
    rejected,        \* puts the server refused
    lost,            \* puts forgotten with the process that queued them
    faults,
    refreshes

clientVars == <<conn, interrupted, retryScheduled, token>>
queueVars  == <<outstandingPuts, outstandingGets, sentGets, timers>>
wireVars   == <<wire, served>>
logVars    == <<puts, gets, answers>>
fateVars   == <<rejected, lost>>
boundVars  == <<faults, refreshes>>
vars == <<conn, interrupted, retryScheduled, token,
          outstandingPuts, outstandingGets, sentGets, timers,
          wire, served, db, puts, gets, answers, rejected, lost,
          faults, refreshes>>

-----------------------------------------------------------------------------
ConnectionState ==
    {"Disconnected", "GettingToken", "Connecting", "Authenticating",
     "Connected"}

\* "restoreAuth" is the auth request of a new connection, whose answer runs
\* restoreState; "auth" and "unauth" come from refreshAuthToken.
Kinds == {"restoreAuth", "auth", "unauth", "put", "get"}

Snapshot == [Dates -> Nat]
NoData == [d \in Dates |-> 0]
Targets == Dates \cup {WholeDiary}

Requests == [kind : Kinds, id : Nat, reply : {"none", "ok", "error"},
             snap : Snapshot]
Answers == [get : Nat, status : {"local", "ok", "error", "offline"},
            snap : Snapshot]
Request(k, i) == [kind |-> k, id |-> i, reply |-> "none", snap |-> NoData]

Open == conn \in {"Authenticating", "Connected"}     \* [self connected]

\* Mutant: [self connected] asked where canSendWrites and canSendReads are.
ConnectedOrAuthenticating == Open

Connected == conn = "Connected"       \* canSendWrites, canSendReads

\* The dates whose value the answer to a read of t carries.
Covers(t) == IF t = WholeDiary THEN Dates ELSE {t}

\* Mutant: allKeys is not sorted.
AnyOrder(S) ==
    {s \in [1..Cardinality(S) -> S] :
        \A x \in S : \E k \in 1..Cardinality(S) : s[k] = x}

\* The elements of a finite set of numbers in increasing order, as
\* restoreState lists the keys of a queue.  The set has one element.
Increasing(S) ==
    {s \in [1..Cardinality(S) -> S] :
        /\ \A j, k \in 1..Cardinality(S) : j < k => s[j] < s[k]
        /\ \A x \in S : \E k \in 1..Cardinality(S) : s[k] = x}

TypeOK ==
    /\ conn \in ConnectionState
    /\ interrupted \in BOOLEAN
    /\ retryScheduled \in BOOLEAN
    /\ token \in BOOLEAN
    /\ puts \in Seq(Dates)
    /\ gets \in Seq([target : Targets, since : Nat])
    /\ outstandingPuts \subseteq 1..Len(puts)
    /\ outstandingGets \subseteq 1..Len(gets)
    /\ sentGets \subseteq 1..Len(gets)
    /\ timers \subseteq 1..Len(gets)
    /\ wire \in Seq(Requests)
    /\ served \in 0..Len(wire)
    /\ db \in Snapshot
    /\ answers \in Seq(Answers)
    /\ rejected \subseteq 1..Len(puts)
    /\ lost \subseteq 1..Len(puts)
    /\ faults \in Nat
    /\ refreshes \in Nat

Init ==
    /\ conn = "Disconnected"
    /\ interrupted = FALSE
    /\ retryScheduled = TRUE        \* open has run
    /\ token = FALSE
    /\ outstandingPuts = {}
    /\ outstandingGets = {}
    /\ sentGets = {}
    /\ timers = {}
    /\ wire = <<>>
    /\ served = 0
    /\ db = NoData
    /\ puts = <<>>
    /\ gets = <<>>
    /\ answers = <<>>
    /\ rejected = {}
    /\ lost = {}
    /\ faults = 0
    /\ refreshes = 0

-----------------------------------------------------------------------------
(* Calls of the app                                                        *)

\* setValue: the write is queued under the next number and, when the
\* connection is ready, sent.
PutInternal(d) ==
    LET i == Len(puts) + 1
    IN  /\ Len(puts) < MaxPuts
        /\ puts' = Append(puts, d)
        /\ outstandingPuts' = outstandingPuts \cup {i}
        /\ wire' = IF Connected THEN Append(wire, Request("put", i)) ELSE wire
        /\ UNCHANGED <<clientVars, outstandingGets, sentGets, timers, served,
                       db, gets, answers, fateVars, boundVars>>

\* The queued writes that hold all of t: only a write of the date itself.
Shadowing(t) == {i \in outstandingPuts : puts[i] = t}

\* getServerValue finds a complete value in the queued writes: the callback
\* gets the newest of them and the server is not asked.
GetDataLocally(t) ==
    /\ Len(gets) < MaxGets
    /\ gets' = Append(gets, [target |-> t, since |-> Len(puts)])
    /\ \E newest \in Shadowing(t) :
         /\ \A i \in Shadowing(t) : i <= newest
         /\ answers' = Append(answers,
                [get |-> Len(gets) + 1, status |-> "local",
                 snap |-> [NoData EXCEPT ![t] = newest]])
    /\ UNCHANGED <<clientVars, queueVars, wireVars, db, puts, fateVars,
                   boundVars>>

\* getDataAtPath: queued; sent when the connection is ready; given a timer
\* when there is no connection; neither while the connection authenticates.
GetDataAtPath(t) ==
    LET g == Len(gets) + 1
    IN  /\ Len(gets) < MaxGets
        /\ Shadowing(t) = {}
        /\ gets' = Append(gets, [target |-> t, since |-> Len(puts)])
        /\ outstandingGets' = outstandingGets \cup {g}
        /\ timers' = IF Open THEN timers ELSE timers \cup {g}
        /\ sentGets' = IF Connected THEN sentGets \cup {g} ELSE sentGets
        /\ wire' = IF Connected THEN Append(wire, Request("get", g)) ELSE wire
        /\ UNCHANGED <<clientVars, outstandingPuts, served, db, puts, answers,
                       fateVars, boundVars>>

\* Mutant: the timer's block has no early return.
AlwaysWaiting(g) == TRUE

StillWaiting(g) == g \in outstandingGets \ sentGets

\* The timer of a get fires: the get fails unless it was sent or answered.
GetTimesOut(g) ==
    /\ g \in timers
    /\ timers' = timers \ {g}
    /\ IF StillWaiting(g)
       THEN /\ outstandingGets' = outstandingGets \ {g}
            /\ sentGets' = sentGets \cup {g}
            /\ answers' = Append(answers,
                   [get |-> g, status |-> "offline", snap |-> NoData])
       ELSE UNCHANGED <<outstandingGets, sentGets, answers>>
    /\ UNCHANGED <<clientVars, outstandingPuts, wireVars, db, puts, gets,
                   fateVars, boundVars>>

-----------------------------------------------------------------------------
(* Connecting                                                              *)

\* The scheduled retry starts fetching a token.
RetryFires ==
    /\ retryScheduled
    /\ retryScheduled' = FALSE
    /\ conn' = "GettingToken"
    /\ UNCHANGED <<interrupted, token, queueVars, wireVars, db, logVars,
                   fateVars, boundVars>>

\* The token service answers, with a token or with none (signed out).
TokenFetched ==
    /\ conn = "GettingToken"
    /\ conn' = "Connecting"
    /\ token' \in BOOLEAN
    /\ UNCHANGED <<interrupted, retryScheduled, queueVars, wireVars, db,
                   logVars, fateVars, boundVars>>

\* Mutant: a failed token fetch does not try again.
TokenFailsForGood ==
    /\ conn = "GettingToken"
    /\ faults < MaxFaults
    /\ faults' = faults + 1
    /\ conn' = "Disconnected"
    /\ UNCHANGED <<interrupted, retryScheduled, token, queueVars, wireVars, db,
                   logVars, fateVars, refreshes>>

\* The token service fails: the error schedules the next attempt.
TokenFails ==
    /\ conn = "GettingToken"
    /\ faults < MaxFaults
    /\ faults' = faults + 1
    /\ conn' = "Disconnected"
    /\ retryScheduled' = ~interrupted
    /\ UNCHANGED <<interrupted, token, queueVars, wireVars, db, logVars,
                   fateVars, refreshes>>

RequestsFor(k, ids) == [n \in DOMAIN ids |-> Request(k, ids[n])]

\* Mutant: the gets are restored before the puts.
RestoreGetsFirst(rest) ==
    \E p \in Increasing(outstandingPuts),
       g \in Increasing(outstandingGets \ sentGets) :
        /\ wire' = rest \o RequestsFor("get", g) \o RequestsFor("put", p)
        /\ sentGets' = sentGets \cup outstandingGets

\* Mutant: only the gets are restored.
RestoreGetsOnly(rest) ==
    \E g \in Increasing(outstandingGets \ sentGets) :
        /\ wire' = rest \o RequestsFor("get", g)
        /\ sentGets' = sentGets \cup outstandingGets

\* restoreState: every queued put again, then every get not sent before.
RestoreState(rest) ==
    \E p \in Increasing(outstandingPuts),
       g \in Increasing(outstandingGets \ sentGets) :
        /\ wire' = rest \o RequestsFor("put", p) \o RequestsFor("get", g)
        /\ sentGets' = sentGets \cup outstandingGets

\* onReady: restoreAuth, and without a token restoreState at once.
OnReady ==
    /\ conn = "Connecting"
    /\ IF token
       THEN /\ conn' = "Authenticating"
            /\ wire' = <<Request("restoreAuth", 0)>>
            /\ UNCHANGED sentGets
       ELSE /\ conn' = "Connected"
            /\ RestoreState(<<>>)
    /\ UNCHANGED <<interrupted, retryScheduled, token, outstandingPuts,
                   outstandingGets, timers, served, db, logVars, fateVars,
                   boundVars>>

\* The auth service reports a new token, or none after a sign-out.
RefreshAuthToken(t) ==
    /\ refreshes < MaxRefreshes
    /\ refreshes' = refreshes + 1
    /\ token' = t
    /\ wire' = IF Open
               THEN Append(wire, Request(IF t THEN "auth" ELSE "unauth", 0))
               ELSE wire
    /\ UNCHANGED <<conn, interrupted, retryScheduled, queueVars, served, db,
                   logVars, fateVars, faults>>

-----------------------------------------------------------------------------
(* The server: requests of a connection are served in the order sent       *)

NextRequest == wire[served + 1]

Reply(status, data) ==
    /\ wire' = [wire EXCEPT ![served + 1] =
                   [@ EXCEPT !.reply = status, !.snap = data]]
    /\ served' = served + 1

ServerAppliesPut ==
    /\ served < Len(wire)
    /\ NextRequest.kind = "put"
    /\ Reply("ok", NoData)
    /\ db' = [db EXCEPT ![puts[NextRequest.id]] = NextRequest.id]
    /\ UNCHANGED <<clientVars, queueVars, logVars, fateVars, boundVars>>

\* The security rules refuse the write.
ServerRejectsPut ==
    /\ served < Len(wire)
    /\ NextRequest.kind = "put"
    /\ Reply("error", NoData)
    /\ rejected' = rejected \cup {NextRequest.id}
    /\ UNCHANGED <<clientVars, queueVars, db, logVars, lost, boundVars>>

ServerAnswersGet ==
    /\ served < Len(wire)
    /\ NextRequest.kind = "get"
    /\ \/ Reply("ok", db)
       \/ Reply("error", NoData)
    /\ UNCHANGED <<clientVars, queueVars, db, logVars, fateVars, boundVars>>

ServerAnswersAuth ==
    /\ served < Len(wire)
    /\ NextRequest.kind \in {"restoreAuth", "auth", "unauth"}
    /\ \/ /\ Reply("ok", NoData)
          /\ UNCHANGED faults
       \/ /\ NextRequest.kind # "unauth"
          /\ faults < MaxFaults
          /\ faults' = faults + 1
          /\ Reply("error", NoData)
    /\ UNCHANGED <<clientVars, queueVars, db, logVars, fateVars, refreshes>>

-----------------------------------------------------------------------------
(* Answers reach the client in the order of the requests                   *)

Answered == served > 0
Response == Head(wire)
Consume == served' = served - 1

\* Mutant: shouldReconnect is not asked.
ReconnectAnyway ==
    /\ conn' = "Disconnected"
    /\ wire' = <<>>
    /\ served' = 0
    /\ retryScheduled' = TRUE

\* Mutant: the callbacks of the connection's requests are not dropped.
KeepCallbacks ==
    /\ conn' = "Disconnected"
    /\ wire' = <<>>
    /\ retryScheduled' = ~interrupted'
    /\ UNCHANGED served

\* onDisconnect: the connection's requests and their callbacks are gone, the
\* queues stay, and so does the `sent` flag of a get.  A reconnection is
\* scheduled unless the client is interrupted.
OnDisconnect ==
    /\ conn' = "Disconnected"
    /\ wire' = <<>>
    /\ served' = 0
    /\ retryScheduled' = ~interrupted'

\* sendAuthAndRestoreStateAfterComplete's callback, accepted.
AuthAccepted ==
    /\ Answered
    /\ Response.kind \in {"restoreAuth", "auth"}
    /\ Response.reply = "ok"
    /\ Consume
    /\ conn' = "Connected"
    /\ IF Response.kind = "restoreAuth"
       THEN RestoreState(Tail(wire))
       ELSE /\ wire' = Tail(wire)
            /\ UNCHANGED sentGets
    /\ UNCHANGED <<interrupted, retryScheduled, token, outstandingPuts,
                   outstandingGets, timers, db, logVars, fateVars, boundVars>>

\* The same callback, refused: the token is dropped and the connection closed.
AuthRefused ==
    /\ Answered
    /\ Response.kind \in {"restoreAuth", "auth"}
    /\ Response.reply = "error"
    /\ token' = FALSE
    /\ UNCHANGED <<interrupted, queueVars, db, logVars, fateVars, boundVars>>
    /\ OnDisconnect

\* The answer to unauth has no callback.
UnauthAnswered ==
    /\ Answered
    /\ Response.kind = "unauth"
    /\ Consume
    /\ wire' = Tail(wire)
    /\ UNCHANGED <<clientVars, queueVars, db, logVars, fateVars, boundVars>>

\* sendPut's callback: the put leaves the queue whatever the status.
PutAnswered ==
    /\ Answered
    /\ Response.kind = "put"
    /\ Consume
    /\ wire' = Tail(wire)
    /\ outstandingPuts' = outstandingPuts \ {Response.id}
    /\ UNCHANGED <<clientVars, outstandingGets, sentGets, timers, db, logVars,
                   fateVars, boundVars>>

\* sendGet's callback, ignored when the get has left the queue.
GetAnswered ==
    /\ Answered
    /\ Response.kind = "get"
    /\ Consume
    /\ wire' = Tail(wire)
    /\ IF Response.id \in outstandingGets
       THEN /\ outstandingGets' = outstandingGets \ {Response.id}
            /\ answers' = Append(answers,
                   [get |-> Response.id, status |-> Response.reply,
                    snap |-> Response.snap])
       ELSE UNCHANGED <<outstandingGets, answers>>
    /\ UNCHANGED <<clientVars, outstandingPuts, sentGets, timers, db, puts,
                   gets, fateVars, boundVars>>

-----------------------------------------------------------------------------
(* Failures                                                                *)

ConnectionLost ==
    /\ conn \in {"Connecting", "Authenticating", "Connected"}
    /\ faults < MaxFaults
    /\ faults' = faults + 1
    /\ UNCHANGED <<interrupted, token, queueVars, db, logVars, fateVars,
                   refreshes>>
    /\ OnDisconnect

\* onAuthRevoked, pushed by the server.
AuthRevoked ==
    /\ Open
    /\ faults < MaxFaults
    /\ faults' = faults + 1
    /\ token' = FALSE
    /\ UNCHANGED <<interrupted, queueVars, db, logVars, fateVars, refreshes>>
    /\ OnDisconnect

\* onKill: the server ends the connection for good.
OnKill ==
    /\ conn \in {"Connecting", "Authenticating", "Connected"}
    /\ faults < MaxFaults
    /\ faults' = faults + 1
    /\ interrupted' = TRUE
    /\ OnDisconnect
    /\ UNCHANGED <<token, queueVars, db, logVars, fateVars, refreshes>>

\* The process dies and the app is started again: with disk persistence off
\* the queues die with it, and open schedules the first connection.
ProcessRestarts ==
    /\ faults < MaxFaults
    /\ faults' = faults + 1
    /\ interrupted' = FALSE
    /\ token' = FALSE
    /\ OnDisconnect
    /\ outstandingPuts' = {}
    /\ outstandingGets' = {}
    /\ sentGets' = {}
    /\ timers' = {}
    /\ lost' = lost \cup outstandingPuts
    /\ UNCHANGED <<db, logVars, rejected, refreshes>>

-----------------------------------------------------------------------------
App ==
    \/ \E d \in Dates : PutInternal(d)
    \/ \E t \in Targets : GetDataLocally(t) \/ GetDataAtPath(t)
    \/ \E t \in BOOLEAN : RefreshAuthToken(t)

Server ==
    \/ ServerAppliesPut
    \/ ServerRejectsPut
    \/ ServerAnswersGet
    \/ ServerAnswersAuth

OnDataMessage ==
    \/ AuthAccepted
    \/ AuthRefused
    \/ UnauthAnswered
    \/ PutAnswered
    \/ GetAnswered

Timer == \E g \in timers : GetTimesOut(g)

Failure ==
    \/ TokenFails
    \/ ConnectionLost
    \/ AuthRevoked
    \/ OnKill
    \/ ProcessRestarts

Next ==
    \/ App
    \/ Timer
    \/ RetryFires
    \/ TokenFetched
    \/ OnReady
    \/ Server
    \/ OnDataMessage
    \/ Failure

Spec == Init /\ [][Next]_vars

\* What the dispatch queue, the timers and a reachable server guarantee:
\* every block that is scheduled runs, every request on a connection that
\* lasts is answered, and the answer is delivered.
Fairness ==
    /\ WF_vars(Timer)
    /\ WF_vars(RetryFires)
    /\ WF_vars(TokenFetched)
    /\ WF_vars(OnReady)
    /\ WF_vars(Server)
    /\ WF_vars(OnDataMessage)

FairSpec == Spec /\ Fairness

-----------------------------------------------------------------------------
(* Safety                                                                  *)

OnWire(k, i) == \E n \in 1..Len(wire) : wire[n].kind = k /\ wire[n].id = i

\* The NSAsserts of tryScheduleReconnect, and that a client that is not
\* stopped never waits without a connection attempt: a retry is scheduled
\* exactly while the client is disconnected and not interrupted.
ReconnectIsScheduled ==
    retryScheduled <=> conn = "Disconnected" /\ ~interrupted

\* No write or read is sent on a connection that is not ready, and a
\* connection that authenticates has its auth request as the oldest one, the
\* one whose answer will run restoreState.
AuthenticatesBeforeData ==
    /\ \A n \in 1..Len(wire) : wire[n].kind \in {"put", "get"} => conn = "Connected"
    /\ conn = "Authenticating" => wire # <<>> /\ Response.kind = "restoreAuth"

\* While the connection is ready each queued put is on it exactly once, in
\* the order of the setValue calls, and nothing else is.
EveryPutIsOnTheWire ==
    /\ conn = "Connected" => \A i \in outstandingPuts : OnWire("put", i)
    /\ \A j, k \in 1..Len(wire) :
          wire[j].kind = "put" /\ wire[k].kind = "put" /\ j < k
              => wire[j].id < wire[k].id
    /\ \A n \in 1..Len(wire) :
          wire[n].kind = "put" => wire[n].id \in outstandingPuts

\* Puts settle in the order they were made: after a later put was answered
\* no earlier one is still waiting, whatever connections came and went.
PutsSettleInOrder ==
    \A i, j \in 1..Len(puts) : i \in outstandingPuts /\ i < j
        => j \in outstandingPuts

\* A put that was answered and not refused is on the server for good: the
\* replay of queued puts after a reconnection never brings back an older
\* value of its date.
AcknowledgedPutStands ==
    \A i \in 1..Len(puts) :
        i \notin outstandingPuts \cup rejected \cup lost => db[puts[i]] >= i

\* A read that succeeds contains every write made before it that was not
\* refused or forgotten, or a newer one.
ReadYourWrites ==
    \A n \in 1..Len(answers) :
        LET a == answers[n]
            get == gets[a.get]
        IN  a.status \in {"local", "ok"} =>
              \A i \in 1..get.since :
                 puts[i] \in Covers(get.target) /\ i \notin rejected \cup lost
                    => a.snap[puts[i]] >= i

\* The completion of a get runs at most once: the offline timer and the
\* server's answer never both complete it.
GetAnsweredOnce ==
    \A j, k \in 1..Len(answers) : j # k => answers[j].get # answers[k].get

-----------------------------------------------------------------------------
(* Liveness                                                                *)

\* Every write queued by the client is settled, once connections stop being
\* lost, unless the server has ended the client or the process has died.
PutsAreSettled ==
    \A i \in 1..MaxPuts :
        i \in outstandingPuts ~> i \notin outstandingPuts \/ interrupted

\* A read that waits for a connection is answered or sent.
QueuedGetsMoveOn ==
    \A g \in 1..MaxGets :
        g \in outstandingGets \ sentGets
            ~> g \notin outstandingGets \ sentGets \/ interrupted

\* FIRDatabaseQuery.h on getDataWithCompletionBlock: the block is called with
\* the value or with an error.  Every read is answered, unless the process
\* that asked has died or the server has ended the client.
EveryGetIsAnswered ==
    \A g \in 1..MaxGets :
        g \in outstandingGets ~> g \notin outstandingGets \/ interrupted

=============================================================================
