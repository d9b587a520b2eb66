------------------------- MODULE RealtimePromiseProofs -------------------------
(***************************************************************************)
(* Proofs that the client keeps its promises about writes and reads, for   *)
(* every value of the constants of RealtimeClient: writes settle in order, *)
(* an acknowledged write stands, a read contains the writes before it, and *)
(* its completion runs once.  TypeInv, proved in RealtimeClientProofs,     *)
(* says what the wire holds in each phase; the invariants here relate the  *)
(* wire to the queues, to the database and to the answers.                 *)
(***************************************************************************)
EXTENDS RealtimeClientProofs

-----------------------------------------------------------------------------
(* What a step can do to the wire                                          *)

\* A request is sent.
Sent(k, i) ==
    /\ Len(wire) \in Nat
    /\ Len(wire') = Len(wire) + 1
    /\ \A n \in 1..Len(wire) : wire'[n] = wire[n]
    /\ wire'[Len(wire) + 1].kind = k
    /\ wire'[Len(wire) + 1].id = i
    /\ wire'[Len(wire) + 1].reply = "none"

\* The server replies to the oldest request it has not dealt with.
Dealt ==
    /\ Len(wire) \in Nat
    /\ Len(wire') = Len(wire)
    /\ served \in Nat
    /\ served + 1 \in 1..Len(wire)
    /\ served' = served + 1
    /\ NextRequest = wire[served + 1]
    /\ \A n \in 1..Len(wire) :
          /\ wire'[n].kind = wire[n].kind
          /\ wire'[n].id = wire[n].id
          /\ n # served + 1 => wire'[n] = wire[n]

\* The oldest answer is consumed.
Shifted ==
    /\ Len(wire) \in Nat \ {0}
    /\ served \in 1..Len(wire)
    /\ served' = served - 1
    /\ Len(wire') = Len(wire) - 1
    /\ \A n \in 1..Len(wire') : wire'[n] = wire[n + 1]

\* The queues are replayed behind requests that carry no data.
Replayed ==
    /\ conn' = "Connected"
    /\ Len(wire') \in Nat
    /\ served' \in 0..Len(wire')
    /\ \A n \in 1..Len(wire') :
          wire'[n].kind \in {"put", "get"} =>
             /\ n > served'
             /\ wire'[n].kind = "put" => wire'[n].id \in outstandingPuts
             /\ wire'[n].kind = "get" => wire'[n].id \in outstandingGets
    /\ \A m, n \in 1..Len(wire') : wire'[n].kind = "put" /\ m < n =>
          /\ wire'[m].kind # "get"
          /\ wire'[m].kind = "put" => wire'[m].id < wire'[n].id
    /\ \A i \in outstandingPuts :
          \E n \in 1..Len(wire') : wire'[n].kind = "put" /\ wire'[n].id = i

\* The connection is gone and nothing is on it.
Dropped ==
    /\ conn' = "Disconnected"
    /\ wire' = <<>>
    /\ Len(wire') = 0
    /\ served' = 0

LEMMA SendingStep ==
    ASSUME TypeInv, NEW k \in Kinds, NEW i \in Nat,
           wire' = Append(wire, Request(k, i))
    PROVE  Sent(k, i)
<1>1. wire \in Seq(Requests)
  BY DEF TypeInv, TypeOK
<1>2. /\ Request(k, i) \in Requests
      /\ Request(k, i).kind = k
      /\ Request(k, i).id = i
      /\ Request(k, i).reply = "none"
  BY RequestType
<1> QED
  BY <1>1, <1>2, AppendedWire DEF Sent

LEMMA ReplyingStep ==
    ASSUME TypeInv, served < Len(wire),
           NEW status \in {"ok", "error"}, NEW data \in Snapshot,
           Reply(status, data)
    PROVE  /\ Dealt
           /\ wire'[served + 1].reply = status
           /\ wire'[served + 1].snap = data
           /\ NextRequest \in Requests
<1>1. TypeOK /\ served \in Nat
  BY DEF TypeInv, TypeOK
<1> QED
  BY <1>1, Replied DEF Dealt, NextRequest

LEMMA ConsumingStep ==
    ASSUME TypeInv, Answered, Consume, wire' = Tail(wire)
    PROVE  Shifted /\ Response = wire[1]
<1>1. /\ Len(wire) \in Nat \ {0}
      /\ Response = wire[1]
      /\ Len(Tail(wire)) = Len(wire) - 1
      /\ \A n \in 1..Len(Tail(wire)) : Tail(wire)[n] = wire[n + 1]
      /\ served \in 1..Len(wire)
  BY AnswerArrived
<1> QED
  BY <1>1 DEF Shifted, Consume

\* restoreState behind requests that carry no data, as both of its callers
\* leave them on the wire.
LEMMA RestoringStep ==
    ASSUME TypeInv, NEW rest \in Seq(Requests), RestoreState(rest),
           conn' = "Connected", served' \in 0..Len(rest),
           \A n \in 1..Len(rest) : rest[n].kind \notin {"put", "get"}
    PROVE  Replayed
<1>1. RestoredFrom(rest, wire')
  BY RestoredWire DEF TypeInv
<1>2. Len(rest) \in Nat /\ Len(wire') \in Nat /\ Len(rest) <= Len(wire')
  BY <1>1 DEF RestoredFrom
<1>3. ASSUME NEW n \in 1..Len(wire'), wire'[n].kind \in {"put", "get"}
      PROVE  n > Len(rest)
  <2>1. CASE n <= Len(rest)
    <3>1. n \in 1..Len(rest) /\ wire'[n] = rest[n]
      BY <1>1, <1>2, <2>1 DEF RestoredFrom
    <3> QED
      BY <1>3, <3>1
  <2> QED
    BY <1>2, <2>1
<1>4. ASSUME NEW n \in 1..Len(wire'), wire'[n].kind \in {"put", "get"}
      PROVE  /\ n > served'
             /\ wire'[n].kind = "put" => wire'[n].id \in outstandingPuts
             /\ wire'[n].kind = "get" => wire'[n].id \in outstandingGets
  BY <1>1, <1>2, <1>3, <1>4 DEF RestoredFrom
<1>5. ASSUME NEW m \in 1..Len(wire'), NEW n \in 1..Len(wire'),
             wire'[n].kind = "put", m < n
      PROVE  /\ wire'[m].kind # "get"
             /\ wire'[m].kind = "put" => wire'[m].id < wire'[n].id
  <2> SUFFICES ASSUME wire'[m].kind \in {"put", "get"}
               PROVE  wire'[m].kind = "put" /\ wire'[m].id < wire'[n].id
    OBVIOUS
  <2>1. m > Len(rest)
    BY <1>3
  <2> QED
    BY <1>1, <1>2, <1>5, <2>1 DEF RestoredFrom
<1>6. \A i \in outstandingPuts :
         \E n \in 1..Len(wire') : wire'[n].kind = "put" /\ wire'[n].id = i
  BY <1>1 DEF RestoredFrom
<1>7. served' \in 0..Len(wire')
  BY <1>2
<1> QED
  BY <1>2, <1>4, <1>5, <1>6, <1>7 DEF Replayed

LEMMA ReadyStep ==
    ASSUME TypeInv, OnReady
    PROVE  \/ Replayed
           \/ /\ conn' = "Authenticating"
              /\ served = 0 /\ served' = 0
              /\ Len(wire') = 1
              /\ wire'[1].kind = "restoreAuth"
<1>1. wire = <<>> /\ served = 0 /\ served' = 0
  <2>1. wire = <<>>
    BY DEF TypeInv, OtherPhases, OnReady
  <2>2. Len(wire) = 0
    BY <2>1
  <2> QED
    BY <2>1, <2>2 DEF TypeInv, TypeOK, OnReady
<1>2. CASE token
  <2>1. conn' = "Authenticating" /\ wire' = <<Request("restoreAuth", 0)>>
    BY <1>2 DEF OnReady
  <2>2. Len(wire') = 1 /\ wire'[1].kind = "restoreAuth"
    BY <2>1, RequestType DEF Kinds
  <2> QED
    BY <1>1, <2>1, <2>2
<1>3. CASE ~token
  <2>1. PICK rest : rest = <<>>
    OBVIOUS
  <2>2. rest \in Seq(Requests) /\ Len(rest) = 0
    BY <2>1
  <2>3. conn' = "Connected" /\ RestoreState(rest)
    BY <1>3, <2>1 DEF OnReady
  <2>4. /\ served' \in 0..Len(rest)
        /\ \A n \in 1..Len(rest) : rest[n].kind \notin {"put", "get"}
    BY <1>1, <2>2
  <2>5. Replayed
    BY <2>2, <2>3, <2>4, RestoringStep
  <2> QED
    BY <2>5
<1> QED
  BY <1>2, <1>3

LEMMA AcceptedStep ==
    ASSUME TypeInv, AuthAccepted
    PROVE  \/ Replayed
           \/ /\ conn = "Connected" /\ conn' = "Connected"
              /\ Shifted
              /\ wire[1].kind = "auth"
<1>1. Answered /\ Consume /\ conn' = "Connected"
  BY DEF AuthAccepted
<1>2. /\ wire \in Seq(Requests)
      /\ Len(wire) \in Nat \ {0}
      /\ Response = wire[1]
      /\ Tail(wire) \in Seq(Requests)
      /\ Len(Tail(wire)) = Len(wire) - 1
      /\ \A n \in 1..Len(Tail(wire)) : Tail(wire)[n] = wire[n + 1]
      /\ conn \in {"Authenticating", "Connected"}
      /\ served \in 1..Len(wire)
  BY <1>1, AnswerArrived
<1>3. CASE Response.kind = "restoreAuth"
  <2>1. RestoreState(Tail(wire))
    BY <1>3 DEF AuthAccepted
  <2>2. conn = "Authenticating"
    BY <1>2, <1>3 DEF TypeInv, OtherPhases
  <2>3. \A n \in 2..Len(wire) : wire[n].kind \in {"auth", "unauth"}
    BY <2>2 DEF TypeInv, AuthPhase
  <2>4. \A n \in 1..Len(Tail(wire)) : Tail(wire)[n].kind \notin {"put", "get"}
    BY <1>2, <2>3
  <2>5. served' \in 0..Len(Tail(wire))
    BY <1>1, <1>2 DEF Consume
  <2>6. Replayed
    BY <1>1, <1>2, <2>1, <2>4, <2>5, RestoringStep
  <2> QED
    BY <2>6
<1>4. CASE Response.kind = "auth"
  <2>1. wire' = Tail(wire)
    BY <1>4 DEF AuthAccepted
  <2>2. Shifted
    BY <1>1, <2>1, ConsumingStep
  <2>3. conn = "Connected"
    BY <1>2, <1>4 DEF TypeInv, AuthPhase
  <2> QED
    BY <1>1, <1>2, <1>4, <2>2, <2>3
<1> QED
  BY <1>3, <1>4 DEF AuthAccepted

LEMMA DroppingStep ==
    ASSUME OnDisconnect
    PROVE  Dropped
  BY DEF OnDisconnect, Dropped

-----------------------------------------------------------------------------
(* The forms of a step, as far as the promises can tell them apart         *)

KeepsMemory ==
    UNCHANGED <<puts, gets, answers, outstandingPuts, outstandingGets, db,
                rejected, lost>>

\* Retries, tokens that are not sent, a stutter: nothing moves.
Quiet ==
    /\ KeepsMemory
    /\ UNCHANGED wireVars
    /\ conn' = "Connected" => conn = "Connected"

TokenSent ==
    /\ KeepsMemory
    /\ UNCHANGED <<conn, served>>
    /\ Sent("auth", 0) \/ Sent("unauth", 0)

Started ==
    /\ KeepsMemory
    /\ conn' = "Authenticating"
    /\ served = 0 /\ served' = 0
    /\ Len(wire') = 1
    /\ wire'[1].kind = "restoreAuth"

Restored == KeepsMemory /\ Replayed

TokenAnswered ==
    /\ KeepsMemory
    /\ UNCHANGED conn
    /\ Shifted
    /\ wire[1].kind \in {"auth", "unauth"}

TokenDealt ==
    /\ KeepsMemory
    /\ UNCHANGED conn
    /\ Dealt
    /\ NextRequest.kind \notin {"put", "get"}

Disconnected == KeepsMemory /\ Dropped

Restarted ==
    /\ Dropped
    /\ outstandingPuts' = {}
    /\ outstandingGets' = {}
    /\ lost' = lost \cup outstandingPuts
    /\ UNCHANGED <<puts, gets, answers, db, rejected>>

\* setValue: a write is numbered, queued, and sent on a ready connection.
PutMade ==
    /\ Len(puts') = Len(puts) + 1
    /\ \A i \in 1..Len(puts) : puts'[i] = puts[i]
    /\ outstandingPuts' = outstandingPuts \cup {Len(puts) + 1}
    /\ \/ conn = "Connected" /\ Sent("put", Len(puts) + 1)
       \/ conn # "Connected" /\ wire' = wire
    /\ UNCHANGED <<conn, served, gets, answers, outstandingGets, db, rejected,
                   lost>>

\* getData: a read is numbered; GetNumbered says what it asks for.
GetNumbered(t) ==
    /\ Len(gets') = Len(gets) + 1
    /\ \A g \in 1..Len(gets) : gets'[g] = gets[g]
    /\ gets'[Len(gets) + 1].target = t
    /\ gets'[Len(gets) + 1].since = Len(puts)

Answer(a) ==
    /\ Len(answers') = Len(answers) + 1
    /\ \A n \in 1..Len(answers) : answers'[n] = answers[n]
    /\ answers'[Len(answers) + 1] = a

GetMade(t) ==
    /\ GetNumbered(t)
    /\ outstandingGets' = outstandingGets \cup {Len(gets) + 1}
    /\ \/ Sent("get", Len(gets) + 1)
       \/ wire' = wire
    /\ UNCHANGED <<conn, served, puts, answers, outstandingPuts, db, rejected,
                   lost>>

GetMadeLocally(t) ==
    /\ GetNumbered(t)
    /\ \E newest \in outstandingPuts :
          /\ puts[newest] = t
          /\ \A i \in outstandingPuts : puts[i] = t => i <= newest
          /\ Answer([get |-> Len(gets) + 1, status |-> "local",
                     snap |-> [NoData EXCEPT ![t] = newest]])
    /\ UNCHANGED <<conn, wire, served, puts, outstandingPuts, outstandingGets,
                   db, rejected, lost>>

GetTimedOut ==
    /\ \E g \in outstandingGets :
          /\ outstandingGets' = outstandingGets \ {g}
          /\ Answer([get |-> g, status |-> "offline", snap |-> NoData])
    /\ UNCHANGED <<conn, wire, served, puts, gets, outstandingPuts, db,
                   rejected, lost>>

PutApplied ==
    /\ Dealt
    /\ NextRequest.kind = "put"
    /\ db' = [db EXCEPT ![puts[NextRequest.id]] = NextRequest.id]
    /\ UNCHANGED <<conn, puts, gets, answers, outstandingPuts, outstandingGets,
                   rejected, lost>>

PutRejected ==
    /\ Dealt
    /\ NextRequest.kind = "put"
    /\ rejected' = rejected \cup {NextRequest.id}
    /\ UNCHANGED <<conn, puts, gets, answers, outstandingPuts, outstandingGets,
                   db, lost>>

GetDealt ==
    /\ KeepsMemory
    /\ UNCHANGED conn
    /\ Dealt
    /\ NextRequest.kind = "get"
    /\ \/ wire'[served + 1].reply = "ok" /\ wire'[served + 1].snap = db
       \/ wire'[served + 1].reply = "error"

PutSettled ==
    /\ Shifted
    /\ wire[1].kind = "put"
    /\ outstandingPuts' = outstandingPuts \ {wire[1].id}
    /\ UNCHANGED <<conn, puts, gets, answers, outstandingGets, db, rejected,
                   lost>>

GetSettled ==
    /\ Shifted
    /\ wire[1].kind = "get"
    /\ \/ UNCHANGED <<outstandingGets, answers>>
       \/ /\ wire[1].id \in outstandingGets
          /\ outstandingGets' = outstandingGets \ {wire[1].id}
          /\ Answer([get |-> wire[1].id, status |-> wire[1].reply,
                     snap |-> wire[1].snap])
    /\ UNCHANGED <<conn, puts, gets, outstandingPuts, db, rejected, lost>>

AppStep ==
    \/ PutMade
    \/ \E t \in Targets : GetMade(t) \/ GetMadeLocally(t)
    \/ GetTimedOut

ServerStep == PutApplied \/ PutRejected \/ GetDealt \/ TokenDealt

AnswerStep == PutSettled \/ GetSettled \/ TokenAnswered

ConnectionStep == TokenSent \/ Started \/ Restored \/ Disconnected \/ Restarted

\* A completion callback runs.
LEMMA AnsweringStep ==
    ASSUME TypeInv, NEW a, answers' = Append(answers, a)
    PROVE  Answer(a)
<1>1. answers \in Seq(Answers)
  BY DEF TypeInv, TypeOK
<1>2. Len(answers) \in Nat
  BY <1>1, LenProperties
<1> QED
  BY <1>1, <1>2, AppendProperties DEF Answer

LEMMA NumberingStep ==
    ASSUME TypeInv, NEW t \in Targets,
           gets' = Append(gets, [target |-> t, since |-> Len(puts)])
    PROVE  GetNumbered(t) /\ Len(gets) \in Nat
<1>1. gets \in Seq([target : Targets, since : Nat])
  BY DEF TypeInv, TypeOK
<1>2. Len(gets) \in Nat /\ Len(puts) \in Nat
  BY <1>1, LenProperties DEF TypeInv, TypeOK
<1> QED
  BY <1>1, <1>2 DEF GetNumbered

LEMMA AppSteps ==
    ASSUME TypeInv, App \/ Timer
    PROVE  AppStep \/ Quiet \/ TokenSent
<1>1. ASSUME NEW d \in Dates, PutInternal(d) PROVE PutMade
  <2>1. puts \in Seq(Dates) /\ Len(puts) \in Nat
    BY DEF TypeInv, TypeOK
  <2>2. /\ Len(puts') = Len(puts) + 1
        /\ \A i \in 1..Len(puts) : puts'[i] = puts[i]
    BY <1>1, <2>1 DEF PutInternal
  <2>3. CASE conn = "Connected"
    <3>1. wire' = Append(wire, Request("put", Len(puts) + 1))
      BY <1>1, <2>3 DEF PutInternal, Connected
    <3>2. Sent("put", Len(puts) + 1)
      BY <2>1, <3>1, SendingStep DEF Kinds
    <3> QED
      BY <1>1, <2>2, <2>3, <3>2
      DEF PutInternal, PutMade, clientVars, fateVars
  <2>4. CASE conn # "Connected"
    BY <1>1, <2>2, <2>4
    DEF PutInternal, PutMade, Connected, clientVars, fateVars
  <2> QED
    BY <2>3, <2>4
<1>2. ASSUME NEW t \in Targets, GetDataLocally(t) PROVE GetMadeLocally(t)
  <2>1. GetNumbered(t)
    BY <1>2, NumberingStep DEF GetDataLocally
  <2>2. PICK newest \in Shadowing(t) :
          /\ \A i \in Shadowing(t) : i <= newest
          /\ answers' = Append(answers,
                [get |-> Len(gets) + 1, status |-> "local",
                 snap |-> [NoData EXCEPT ![t] = newest]])
    BY <1>2 DEF GetDataLocally
  <2>3. Answer([get |-> Len(gets) + 1, status |-> "local",
                snap |-> [NoData EXCEPT ![t] = newest]])
    BY <2>2, AnsweringStep
  <2>4. /\ newest \in outstandingPuts
        /\ puts[newest] = t
        /\ \A i \in outstandingPuts : puts[i] = t => i <= newest
    BY <2>2 DEF Shadowing
  <2>5. UNCHANGED <<conn, wire, served, puts, outstandingPuts, outstandingGets,
                    db, rejected, lost>>
    BY <1>2 DEF GetDataLocally, clientVars, queueVars, wireVars, fateVars
  <2> QED
    BY <2>1, <2>3, <2>4, <2>5 DEF GetMadeLocally
<1>3. ASSUME NEW t \in Targets, GetDataAtPath(t) PROVE GetMade(t)
  <2>1. GetNumbered(t) /\ Len(gets) + 1 \in Nat
    BY <1>3, NumberingStep DEF GetDataAtPath
  <2>2. CASE Connected
    <3>1. wire' = Append(wire, Request("get", Len(gets) + 1))
      BY <1>3, <2>2 DEF GetDataAtPath
    <3>2. Sent("get", Len(gets) + 1)
      BY <2>1, <3>1, SendingStep DEF Kinds
    <3> QED
      BY <1>3, <2>1, <3>2 DEF GetDataAtPath, GetMade, clientVars, fateVars
  <2>3. CASE ~Connected
    BY <1>3, <2>1, <2>3 DEF GetDataAtPath, GetMade, clientVars, fateVars
  <2> QED
    BY <2>2, <2>3
<1>4. ASSUME NEW t \in BOOLEAN, RefreshAuthToken(t)
      PROVE  Quiet \/ TokenSent
  <2>1. KeepsMemory /\ UNCHANGED <<conn, served>>
    BY <1>4 DEF RefreshAuthToken, KeepsMemory, queueVars, logVars, fateVars
  <2>2. CASE Open
    <3>1. PICK k \in {"auth", "unauth"} : wire' = Append(wire, Request(k, 0))
      BY <1>4, <2>2 DEF RefreshAuthToken
    <3>2. Sent(k, 0)
      BY <3>1, SendingStep DEF Kinds
    <3> QED
      BY <2>1, <3>1, <3>2 DEF TokenSent
  <2>3. CASE ~Open
    BY <1>4, <2>1, <2>3 DEF RefreshAuthToken, Quiet, wireVars
  <2> QED
    BY <2>2, <2>3
<1>5. ASSUME NEW g \in timers, GetTimesOut(g) PROVE GetTimedOut \/ Quiet
  <2>1. UNCHANGED <<conn, wire, served, puts, gets, outstandingPuts, db,
                    rejected, lost>>
    BY <1>5 DEF GetTimesOut, clientVars, wireVars, fateVars
  <2>2. CASE StillWaiting(g)
    <3>1. Answer([get |-> g, status |-> "offline", snap |-> NoData])
      BY <1>5, <2>2, AnsweringStep DEF GetTimesOut
    <3> QED
      BY <1>5, <2>1, <2>2, <3>1 DEF GetTimesOut, GetTimedOut, StillWaiting
  <2>3. CASE ~StillWaiting(g)
    BY <1>5, <2>1, <2>3 DEF GetTimesOut, Quiet, KeepsMemory, wireVars
  <2> QED
    BY <2>2, <2>3
<1> QED
  BY <1>1, <1>2, <1>3, <1>4, <1>5 DEF App, Timer, AppStep

LEMMA ServerSteps ==
    ASSUME TypeInv, Server
    PROVE  ServerStep
<1>1. NoData \in Snapshot /\ db \in Snapshot
  BY DEF NoData, Snapshot, TypeInv, TypeOK
<1>2. CASE ServerAppliesPut
  <2>1. Dealt
    BY <1>1, <1>2, ReplyingStep DEF ServerAppliesPut
  <2> QED
    BY <1>2, <2>1
    DEF ServerAppliesPut, ServerStep, PutApplied, clientVars, queueVars,
        logVars, fateVars
<1>3. CASE ServerRejectsPut
  <2>1. Dealt
    BY <1>1, <1>3, ReplyingStep DEF ServerRejectsPut
  <2> QED
    BY <1>3, <2>1
    DEF ServerRejectsPut, ServerStep, PutRejected, clientVars, queueVars,
        logVars
<1>4. CASE ServerAnswersGet
  <2>1. served < Len(wire)
    BY <1>4 DEF ServerAnswersGet
  <2>2. /\ Dealt
        /\ \/ wire'[served + 1].reply = "ok" /\ wire'[served + 1].snap = db
           \/ wire'[served + 1].reply = "error"
    <3>1. CASE Reply("ok", db)
      BY <1>1, <2>1, <3>1, ReplyingStep
    <3>2. CASE Reply("error", NoData)
      BY <1>1, <2>1, <3>2, ReplyingStep
    <3> QED
      BY <1>4, <3>1, <3>2 DEF ServerAnswersGet
  <2> QED
    BY <1>4, <2>2
    DEF ServerAnswersGet, ServerStep, GetDealt, KeepsMemory, clientVars,
        queueVars, logVars, fateVars
<1>5. CASE ServerAnswersAuth
  <2>1. served < Len(wire)
    BY <1>5 DEF ServerAnswersAuth
  <2>2. Dealt
    <3>1. CASE Reply("ok", NoData)
      BY <1>1, <2>1, <3>1, ReplyingStep
    <3>2. CASE Reply("error", NoData)
      BY <1>1, <2>1, <3>2, ReplyingStep
    <3> QED
      BY <1>5, <3>1, <3>2 DEF ServerAnswersAuth
  <2> QED
    BY <1>5, <2>2
    DEF ServerAnswersAuth, ServerStep, TokenDealt, KeepsMemory, clientVars,
        queueVars, logVars, fateVars
<1> QED
  BY <1>2, <1>3, <1>4, <1>5 DEF Server

LEMMA AnswerSteps ==
    ASSUME TypeInv, OnDataMessage
    PROVE  AnswerStep \/ Restored \/ Disconnected
<1>1. CASE AuthAccepted
  <2>1. KeepsMemory
    BY <1>1 DEF AuthAccepted, KeepsMemory, logVars, fateVars
  <2> QED
    BY <1>1, <2>1, AcceptedStep DEF Restored, AnswerStep, TokenAnswered
<1>2. CASE AuthRefused
  BY <1>2, DroppingStep
  DEF AuthRefused, Disconnected, KeepsMemory, queueVars, logVars, fateVars
<1>3. CASE UnauthAnswered
  <2>1. Shifted /\ wire[1].kind = "unauth"
    BY <1>3, ConsumingStep DEF UnauthAnswered
  <2> QED
    BY <1>3, <2>1
    DEF UnauthAnswered, AnswerStep, TokenAnswered, KeepsMemory, clientVars,
        queueVars, logVars, fateVars
<1>4. CASE PutAnswered
  <2>1. Shifted /\ Response = wire[1]
    BY <1>4, ConsumingStep DEF PutAnswered
  <2> QED
    BY <1>4, <2>1
    DEF PutAnswered, AnswerStep, PutSettled, clientVars, logVars, fateVars
<1>5. CASE GetAnswered
  <2>1. Shifted /\ Response = wire[1]
    BY <1>5, ConsumingStep DEF GetAnswered
  <2>2. UNCHANGED <<conn, puts, gets, outstandingPuts, db, rejected, lost>>
    BY <1>5 DEF GetAnswered, clientVars, fateVars
  <2>3. CASE Response.id \in outstandingGets
    <3>1. Answer([get |-> wire[1].id, status |-> wire[1].reply,
                  snap |-> wire[1].snap])
      BY <1>5, <2>1, <2>3, AnsweringStep DEF GetAnswered
    <3> QED
      BY <1>5, <2>1, <2>2, <2>3, <3>1 DEF GetAnswered, AnswerStep, GetSettled
  <2>4. CASE Response.id \notin outstandingGets
    BY <1>5, <2>1, <2>2, <2>4 DEF GetAnswered, AnswerStep, GetSettled
  <2> QED
    BY <2>3, <2>4
<1> QED
  BY <1>1, <1>2, <1>3, <1>4, <1>5 DEF OnDataMessage

LEMMA FailureSteps ==
    ASSUME TypeInv, Failure
    PROVE  Quiet \/ Disconnected \/ Restarted
<1> USE DroppingStep DEF queueVars, logVars, fateVars
<1>1. CASE TokenFails
  BY <1>1 DEF TokenFails, Quiet, KeepsMemory, wireVars
<1>2. CASE ConnectionLost
  BY <1>2 DEF ConnectionLost, Disconnected, KeepsMemory
<1>3. CASE AuthRevoked
  BY <1>3 DEF AuthRevoked, Disconnected, KeepsMemory
<1>4. CASE OnKill
  BY <1>4 DEF OnKill, Disconnected, KeepsMemory
<1>5. CASE ProcessRestarts
  BY <1>5 DEF ProcessRestarts, Restarted
<1> QED
  BY <1>1, <1>2, <1>3, <1>4, <1>5 DEF Failure

\* Every step has one of the forms above.
LEMMA StepForms ==
    ASSUME TypeInv, [Next]_vars
    PROVE  AppStep \/ ServerStep \/ AnswerStep \/ ConnectionStep \/ Quiet
<1>1. CASE RetryFires
  BY <1>1
  DEF RetryFires, Quiet, KeepsMemory, queueVars, wireVars, logVars, fateVars
<1>2. CASE TokenFetched
  BY <1>2
  DEF TokenFetched, Quiet, KeepsMemory, queueVars, wireVars, logVars, fateVars
<1>3. CASE OnReady
  <2>1. KeepsMemory
    BY <1>3 DEF OnReady, KeepsMemory, logVars, fateVars
  <2> QED
    BY <1>3, <2>1, ReadyStep DEF ConnectionStep, Restored, Started
<1>4. CASE UNCHANGED vars
  BY <1>4 DEF vars, Quiet, KeepsMemory, wireVars
<1> QED
  BY <1>1, <1>2, <1>3, <1>4, AppSteps, ServerSteps, AnswerSteps, FailureSteps
  DEF Next, ConnectionStep

-----------------------------------------------------------------------------
(* Writes settle in order                                                  *)

WritesInv == EveryPutIsOnTheWire /\ PutsSettleInOrder

\* What TypeInv says of the numbers the promises compare.
LEMMA NumbersOK ==
    ASSUME TypeInv
    PROVE  /\ Len(puts) \in Nat /\ Len(gets) \in Nat /\ Len(answers) \in Nat
           /\ Len(wire) \in Nat /\ served \in 0..Len(wire)
           /\ outstandingPuts \subseteq 1..Len(puts)
           /\ outstandingGets \subseteq 1..Len(gets)
           /\ \A n \in 1..Len(wire) :
                 /\ wire[n].kind = "put" =>
                       wire[n].id \in 1..Len(puts) /\ conn = "Connected"
                 /\ wire[n].kind = "get" =>
                       wire[n].id \in 1..Len(gets) /\ conn = "Connected"
                 /\ wire[n].reply = "none" <=> n > served
<1>1. TypeOK /\ WireIds /\ RepliesInOrder
  BY DEF TypeInv
<1>2. ASSUME NEW n \in 1..Len(wire), wire[n].kind \in {"put", "get"}
      PROVE  conn = "Connected"
  <2>1. wire # <<>> /\ Len(wire) \in Nat
    BY <1>1 DEF TypeOK
  <2>2. conn \in {"Authenticating", "Connected"}
    BY <1>1, <2>1 DEF TypeInv, TypeOK, OtherPhases, ConnectionState
  <2>3. n = 1 \/ n \in 2..Len(wire)
    BY <2>1
  <2> QED
    BY <1>2, <2>2, <2>3 DEF TypeInv, AuthPhase
<1> QED
  BY <1>1, <1>2 DEF TypeOK, WireIds, RepliesInOrder

\* The put whose answer arrives is the oldest one that waits.
LEMMA OldestSettles ==
    ASSUME TypeInv, WritesInv, PutSettled
    PROVE  /\ wire[1].id \in outstandingPuts
           /\ \A i \in outstandingPuts : wire[1].id <= i
<1>1. 1 \in 1..Len(wire) /\ wire[1].kind = "put"
  BY DEF PutSettled, Shifted
<1>2. conn = "Connected" /\ wire[1].id \in outstandingPuts
  BY <1>1, NumbersOK DEF WritesInv, EveryPutIsOnTheWire
<1>3. ASSUME NEW i \in outstandingPuts PROVE wire[1].id <= i
  <2>1. PICK n \in 1..Len(wire) : wire[n].kind = "put" /\ wire[n].id = i
    BY <1>2, <1>3 DEF WritesInv, EveryPutIsOnTheWire, OnWire
  <2>2. n = 1 \/ 1 < n
    BY NumbersOK
  <2>3. CASE 1 < n
    BY <1>1, <2>1, <2>3, NumbersOK DEF WritesInv, EveryPutIsOnTheWire
  <2>4. wire[1].id \in Nat
    BY <1>2, NumbersOK
  <2> QED
    BY <2>1, <2>2, <2>3, <2>4
<1> QED
  BY <1>2, <1>3

\* Consuming an answer leaves the puts on the wire in order.
LEMMA ShiftKeepsOrder ==
    ASSUME WritesInv, Shifted,
           NEW j \in 1..Len(wire'), NEW k \in 1..Len(wire'),
           wire'[j].kind = "put", wire'[k].kind = "put", j < k
    PROVE  wire'[j].id < wire'[k].id
<1>1. /\ j + 1 \in 1..Len(wire) /\ wire'[j] = wire[j + 1]
      /\ k + 1 \in 1..Len(wire) /\ wire'[k] = wire[k + 1]
      /\ j + 1 < k + 1
  BY DEF Shifted
<1> QED
  BY <1>1 DEF WritesInv, EveryPutIsOnTheWire

LEMMA WritesNext == TypeInv /\ WritesInv /\ [Next]_vars => WritesInv'
<1> SUFFICES ASSUME TypeInv, WritesInv, [Next]_vars PROVE WritesInv'
  OBVIOUS
<1> USE NumbersOK
<1>1. CASE PutMade
  <2>1. PutsSettleInOrder'
    BY <1>1 DEF PutMade, WritesInv, PutsSettleInOrder
  <2>2. CASE conn # "Connected"
    BY <1>1, <2>1, <2>2 DEF PutMade, WritesInv, EveryPutIsOnTheWire, OnWire
  <2>3. CASE conn = "Connected" /\ Sent("put", Len(puts) + 1)
    <3>1. ASSUME NEW i \in outstandingPuts'
          PROVE  \E n \in 1..Len(wire') : wire'[n].kind = "put" /\ wire'[n].id = i
      <4>1. CASE i = Len(puts) + 1
        <5>1. Len(wire) + 1 \in 1..Len(wire')
          BY <2>3 DEF Sent
        <5> QED
          BY <2>3, <4>1, <5>1 DEF Sent
      <4>2. CASE i \in outstandingPuts
        <5>1. PICK n \in 1..Len(wire) : wire[n].kind = "put" /\ wire[n].id = i
          BY <2>3, <4>2 DEF WritesInv, EveryPutIsOnTheWire, OnWire
        <5>2. n \in 1..Len(wire') /\ wire'[n] = wire[n]
          BY <2>3, <5>1 DEF Sent
        <5> QED
          BY <5>1, <5>2
      <4> QED
        BY <1>1, <4>1, <4>2 DEF PutMade
    <3>2. ASSUME NEW j \in 1..Len(wire'), NEW k \in 1..Len(wire'),
                 wire'[j].kind = "put", wire'[k].kind = "put", j < k
          PROVE  wire'[j].id < wire'[k].id
      <4>1. j \in 1..Len(wire) /\ wire'[j] = wire[j]
        BY <2>3, <3>2 DEF Sent
      <4>2. CASE k \in 1..Len(wire)
        <5>1. wire'[k] = wire[k]
          BY <2>3, <4>2 DEF Sent
        <5> QED
          BY <3>2, <4>1, <4>2, <5>1 DEF WritesInv, EveryPutIsOnTheWire
      <4>3. CASE k = Len(wire) + 1
        <5>1. wire'[k].id = Len(puts) + 1 /\ wire[j].id \in 1..Len(puts)
          BY <2>3, <3>2, <4>1, <4>3 DEF Sent
        <5> QED
          BY <4>1, <5>1
      <4> QED
        BY <2>3, <4>2, <4>3 DEF Sent
    <3>3. \A n \in 1..Len(wire') :
             wire'[n].kind = "put" => wire'[n].id \in outstandingPuts'
      BY <1>1, <2>3 DEF PutMade, Sent, WritesInv, EveryPutIsOnTheWire
    <3> QED
      BY <2>1, <3>1, <3>2, <3>3 DEF WritesInv, EveryPutIsOnTheWire, OnWire
  <2> QED
    BY <1>1, <2>2, <2>3 DEF PutMade
<1>2. CASE PutSettled
  <2>1. \A i \in outstandingPuts : wire[1].id <= i
    BY <1>2, OldestSettles
  <2>2. PutsSettleInOrder'
    BY <1>2, <2>1 DEF PutSettled, WritesInv, PutsSettleInOrder
  <2>3. ASSUME NEW i \in outstandingPuts', conn = "Connected"
        PROVE  \E n \in 1..Len(wire') : wire'[n].kind = "put" /\ wire'[n].id = i
    <3>1. i \in outstandingPuts /\ i # wire[1].id
      BY <1>2, <2>3 DEF PutSettled
    <3>2. PICK n \in 1..Len(wire) : wire[n].kind = "put" /\ wire[n].id = i
      BY <2>3, <3>1 DEF WritesInv, EveryPutIsOnTheWire, OnWire
    <3>3. n - 1 \in 1..Len(wire') /\ wire'[n - 1] = wire[(n - 1) + 1]
      BY <1>2, <3>1, <3>2 DEF PutSettled, Shifted
    <3>4. (n - 1) + 1 = n
      BY <3>2
    <3> QED
      BY <3>2, <3>3, <3>4
  <2>4. ASSUME NEW j \in 1..Len(wire'), NEW k \in 1..Len(wire'),
               wire'[j].kind = "put", wire'[k].kind = "put", j < k
        PROVE  wire'[j].id < wire'[k].id
    <3>1. Shifted
      BY <1>2 DEF PutSettled
    <3> QED
      BY <2>4, <3>1, ShiftKeepsOrder
  <2>5. ASSUME NEW n \in 1..Len(wire'), wire'[n].kind = "put"
        PROVE  wire'[n].id \in outstandingPuts'
    <3>1. n + 1 \in 1..Len(wire) /\ 1 \in 1..Len(wire) /\ wire'[n] = wire[n + 1]
      BY <1>2 DEF PutSettled, Shifted
    <3>2. /\ wire[n + 1].id \in outstandingPuts
          /\ wire[1].id < wire[n + 1].id
      BY <1>2, <2>5, <3>1 DEF PutSettled, WritesInv, EveryPutIsOnTheWire
    <3>3. wire[1].id \in Nat
      BY <1>2, <3>1 DEF PutSettled
    <3> QED
      BY <1>2, <3>1, <3>2, <3>3 DEF PutSettled
  <2> QED
    BY <1>2, <2>2, <2>3, <2>4, <2>5
    DEF PutSettled, WritesInv, EveryPutIsOnTheWire, OnWire
<1>3. CASE KeepsMemory /\ Replayed
  BY <1>3
  DEF KeepsMemory, Replayed, WritesInv, EveryPutIsOnTheWire, OnWire,
      PutsSettleInOrder
<1>4. CASE Dropped /\ puts' = puts
           /\ (outstandingPuts' = outstandingPuts \/ outstandingPuts' = {})
  BY <1>4 DEF Dropped, WritesInv, EveryPutIsOnTheWire, PutsSettleInOrder
<1>5. CASE /\ UNCHANGED <<conn, puts, outstandingPuts>>
           /\ Shifted /\ wire[1].kind # "put"
  <2>1. ASSUME NEW i \in outstandingPuts, conn = "Connected"
        PROVE  \E n \in 1..Len(wire') : wire'[n].kind = "put" /\ wire'[n].id = i
    <3>1. PICK n \in 1..Len(wire) : wire[n].kind = "put" /\ wire[n].id = i
      BY <2>1 DEF WritesInv, EveryPutIsOnTheWire, OnWire
    <3>2. n - 1 \in 1..Len(wire') /\ wire'[n - 1] = wire[(n - 1) + 1]
      BY <1>5, <3>1 DEF Shifted
    <3>3. (n - 1) + 1 = n
      BY <3>1
    <3> QED
      BY <3>1, <3>2, <3>3
  <2>2. \A j, k \in 1..Len(wire') :
           wire'[j].kind = "put" /\ wire'[k].kind = "put" /\ j < k
               => wire'[j].id < wire'[k].id
    BY <1>5, ShiftKeepsOrder
  <2>3. \A n \in 1..Len(wire') :
           wire'[n].kind = "put" => wire'[n].id \in outstandingPuts
    BY <1>5 DEF Shifted, WritesInv, EveryPutIsOnTheWire
  <2>4. PutsSettleInOrder'
    BY <1>5 DEF WritesInv, PutsSettleInOrder
  <2> QED
    BY <1>5, <2>1, <2>2, <2>3, <2>4 DEF WritesInv, EveryPutIsOnTheWire, OnWire
<1>6. CASE UNCHANGED <<conn, puts, outstandingPuts>> /\ Dealt
  <2>1. /\ Len(wire') = Len(wire)
        /\ \A n \in 1..Len(wire) :
              wire'[n].kind = wire[n].kind /\ wire'[n].id = wire[n].id
    BY <1>6 DEF Dealt
  <2>2. EveryPutIsOnTheWire'
    BY <1>6, <2>1, SMTT(30) DEF WritesInv, EveryPutIsOnTheWire, OnWire
  <2>3. PutsSettleInOrder'
    BY <1>6 DEF WritesInv, PutsSettleInOrder
  <2> QED
    BY <2>2, <2>3 DEF WritesInv
<1>7. CASE /\ UNCHANGED <<conn, puts, outstandingPuts>>
           /\ \E k \in {"get", "auth", "unauth"}, i \in Nat : Sent(k, i)
  <2>1. /\ Len(wire') = Len(wire) + 1
        /\ \A n \in 1..Len(wire) : wire'[n] = wire[n]
        /\ wire'[Len(wire) + 1].kind # "put"
    BY <1>7 DEF Sent
  <2>2. ASSUME NEW n \in 1..Len(wire'), wire'[n].kind = "put"
        PROVE  n \in 1..Len(wire) /\ wire'[n] = wire[n]
    BY <2>1, <2>2
  <2>3. ASSUME NEW i \in outstandingPuts, conn = "Connected"
        PROVE  \E n \in 1..Len(wire') : wire'[n].kind = "put" /\ wire'[n].id = i
    <3>1. PICK n \in 1..Len(wire) : wire[n].kind = "put" /\ wire[n].id = i
      BY <2>3 DEF WritesInv, EveryPutIsOnTheWire, OnWire
    <3>2. n \in 1..Len(wire') /\ wire'[n] = wire[n]
      BY <2>1, <3>1
    <3> QED
      BY <3>1, <3>2
  <2>4. EveryPutIsOnTheWire'
    BY <1>7, <2>2, <2>3 DEF WritesInv, EveryPutIsOnTheWire, OnWire
  <2> QED
    BY <1>7, <2>4 DEF WritesInv, PutsSettleInOrder
<1>8. CASE /\ UNCHANGED <<wire, puts, outstandingPuts>>
           /\ conn' = "Connected" => conn = "Connected"
  BY <1>8 DEF WritesInv, EveryPutIsOnTheWire, OnWire, PutsSettleInOrder
<1>9. CASE Started
  BY <1>9
  DEF Started, KeepsMemory, WritesInv, EveryPutIsOnTheWire, PutsSettleInOrder
<1>a. CASE AppStep
  BY <1>1, <1>7, <1>8, <1>a
  DEF AppStep, GetMade, GetMadeLocally, GetTimedOut
<1>b. CASE ServerStep
  BY <1>6, <1>b
  DEF ServerStep, PutApplied, PutRejected, GetDealt, TokenDealt, KeepsMemory
<1>c. CASE AnswerStep
  BY <1>2, <1>5, <1>c
  DEF AnswerStep, PutSettled, GetSettled, TokenAnswered, KeepsMemory
<1>d. CASE ConnectionStep
  BY <1>3, <1>4, <1>7, <1>9, <1>d
  DEF ConnectionStep, TokenSent, Restored, Disconnected, Restarted, KeepsMemory
<1>e. CASE Quiet
  BY <1>8, <1>e DEF Quiet, KeepsMemory, wireVars
<1> QED
  BY <1>a, <1>b, <1>c, <1>d, <1>e, StepForms

LEMMA WritesInvariant == Spec => [](TypeInv /\ WritesInv)
<1>1. Init => WritesInv
  BY DEF Init, WritesInv, EveryPutIsOnTheWire, PutsSettleInOrder
<1> QED
  BY <1>1, TypeInvInit, TypeInvNext, WritesNext, PTL DEF Spec

\* While the connection is ready each queued write is on it once, in order,
\* and nothing else is written.
THEOREM ReplayIsExact == Spec => []EveryPutIsOnTheWire
  BY WritesInvariant, PTL DEF WritesInv

\* No write is answered before an earlier one, whatever connections came and
\* went in between.
THEOREM WritesSettleInOrder == Spec => []PutsSettleInOrder
  BY WritesInvariant, PTL DEF WritesInv

-----------------------------------------------------------------------------
(* An acknowledged write stands                                            *)

\* The server holds each write it has accepted on this connection, or a newer
\* one of its date, before the acknowledgement arrives.
ServedPutsStand ==
    \A n \in 1..served :
        wire[n].kind = "put" /\ wire[n].id \notin rejected
            => db[puts[wire[n].id]] >= wire[n].id

StandsInv == ServedPutsStand /\ AcknowledgedPutStands

\* A step that applies no write, gives up no queued one and removes nothing
\* from the wire but its oldest request leaves what was settled as it was.
LEMMA NothingApplied ==
    ASSUME TypeInv, StandsInv,
           UNCHANGED <<puts, db>>,
           outstandingPuts \subseteq outstandingPuts' \cup lost',
           rejected \subseteq rejected', lost \subseteq lost'
    PROVE  AcknowledgedPutStands'
  BY DEF StandsInv, AcknowledgedPutStands

\* The same of the requests that were served, when the wire still starts with
\* them.
LEMMA ServedStay ==
    ASSUME TypeInv, StandsInv, served' = served, db' = db,
           rejected \subseteq rejected',
           \A n \in 1..Len(wire) : wire'[n] = wire[n],
           \A i \in 1..Len(puts) : puts'[i] = puts[i]
    PROVE  ServedPutsStand'
<1> SUFFICES ASSUME NEW n \in 1..served, wire'[n].kind = "put",
                    wire'[n].id \notin rejected'
             PROVE  db[puts'[wire'[n].id]] >= wire'[n].id
  BY DEF ServedPutsStand
<1>1. n \in 1..Len(wire) /\ wire'[n] = wire[n]
  BY NumbersOK
<1>2. wire[n].id \in 1..Len(puts)
  BY <1>1, NumbersOK
<1>3. puts'[wire[n].id] = puts[wire[n].id]
  BY <1>2
<1> QED
  BY <1>1, <1>3 DEF StandsInv, ServedPutsStand

\* The write the server applies now is newer than all it has served, and
\* than all that are settled.
LEMMA AppliedIsNewest ==
    ASSUME TypeInv, WritesInv, Dealt, NextRequest.kind = "put"
    PROVE  /\ NextRequest.id \in outstandingPuts
           /\ \A n \in 1..served :
                 wire[n].kind = "put" => wire[n].id < NextRequest.id
           /\ \A i \in 1..Len(puts) :
                 i \notin outstandingPuts => i < NextRequest.id
<1>1. /\ served + 1 \in 1..Len(wire)
      /\ wire[served + 1].kind = "put"
      /\ NextRequest = wire[served + 1]
  BY DEF Dealt
<1>2. NextRequest.id \in outstandingPuts /\ NextRequest.id \in 1..Len(puts)
  BY <1>1, NumbersOK DEF WritesInv, EveryPutIsOnTheWire
<1>3. ASSUME NEW n \in 1..served, wire[n].kind = "put"
      PROVE  wire[n].id < NextRequest.id
  <2>1. n \in 1..Len(wire) /\ n < served + 1
    BY NumbersOK
  <2> QED
    BY <1>1, <1>3, <2>1 DEF WritesInv, EveryPutIsOnTheWire
<1>4. ASSUME NEW i \in 1..Len(puts), i \notin outstandingPuts
      PROVE  i < NextRequest.id
  <2>1. ~(NextRequest.id < i)
    BY <1>2, <1>4 DEF WritesInv, PutsSettleInOrder
  <2>2. i # NextRequest.id
    BY <1>2, <1>4
  <2> QED
    BY <1>2, <2>1, <2>2, NumbersOK
<1> QED
  BY <1>2, <1>3, <1>4

\* Consuming the oldest answer leaves the others served.
LEMMA ServedShift ==
    ASSUME TypeInv, StandsInv, Shifted, UNCHANGED <<puts, db, rejected>>
    PROVE  ServedPutsStand'
<1> SUFFICES ASSUME NEW n \in 1..served', wire'[n].kind = "put",
                    wire'[n].id \notin rejected
             PROVE  db[puts[wire'[n].id]] >= wire'[n].id
  BY DEF ServedPutsStand
<1>1. n + 1 \in 1..served /\ wire'[n] = wire[n + 1]
  BY DEF Shifted
<1> QED
  BY <1>1 DEF StandsInv, ServedPutsStand

LEMMA StandsNext ==
    TypeInv /\ WritesInv /\ StandsInv /\ [Next]_vars => StandsInv'
<1> SUFFICES ASSUME TypeInv, WritesInv, StandsInv, [Next]_vars
             PROVE  StandsInv'
  OBVIOUS
<1> USE NumbersOK
<1>1. CASE PutMade
  <2>1. \A n \in 1..Len(wire) : wire'[n] = wire[n]
    BY <1>1 DEF PutMade, Sent
  <2>2. ServedPutsStand'
    BY <1>1, <2>1, ServedStay DEF PutMade
  <2>3. ASSUME NEW i \in 1..Len(puts'),
               i \notin outstandingPuts' \cup rejected' \cup lost'
        PROVE  db'[puts'[i]] >= i
    <3>1. i \in 1..Len(puts)
      BY <1>1, <2>3 DEF PutMade
    <3>2. puts'[i] = puts[i] /\ db' = db
      BY <1>1, <3>1 DEF PutMade
    <3>3. i \notin outstandingPuts \cup rejected \cup lost
      BY <1>1, <2>3 DEF PutMade
    <3> QED
      BY <3>1, <3>2, <3>3 DEF StandsInv, AcknowledgedPutStands
  <2> QED
    BY <2>2, <2>3 DEF StandsInv, AcknowledgedPutStands
<1>2. CASE PutApplied
  <2> DEFINE p == NextRequest.id
  <2>1. /\ p \in 1..Len(puts)
        /\ \A n \in 1..served : wire[n].kind = "put" => wire[n].id < p
        /\ \A i \in 1..Len(puts) : i \notin outstandingPuts => i < p
    BY <1>2, AppliedIsNewest DEF PutApplied
  <2>2. \A i \in 1..Len(puts) :
           puts[i] \in Dates /\ db[puts[i]] \in Nat
           /\ db'[puts[i]] = IF puts[i] = puts[p] THEN p ELSE db[puts[i]]
    <3>1. puts \in Seq(Dates) /\ db \in [Dates -> Nat]
      BY DEF TypeInv, TypeOK, Snapshot
    <3>2. \A i \in 1..Len(puts) : puts[i] \in Dates
      BY <3>1
    <3> QED
      BY <1>2, <2>1, <3>1, <3>2 DEF PutApplied
  <2> HIDE DEF p
  <2>4. ASSUME NEW n \in 1..served', wire'[n].kind = "put",
               wire'[n].id \notin rejected'
        PROVE  db'[puts'[wire'[n].id]] >= wire'[n].id
    <3>1. puts' = puts /\ rejected' = rejected
      BY <1>2 DEF PutApplied
    <3>2. CASE n \in 1..served
      <4>1. n \in 1..Len(wire) /\ wire'[n] = wire[n]
        <5>1. n \in 1..Len(wire) /\ n # served + 1
          BY <3>2
        <5>2. Dealt
          BY <1>2 DEF PutApplied
        <5> QED
          BY <5>1, <5>2 DEF Dealt
      <4>2. wire[n].id \in 1..Len(puts) /\ wire[n].id < p
        BY <2>1, <2>4, <3>2, <4>1
      <4>3. db[puts[wire[n].id]] >= wire[n].id
        BY <2>4, <3>1, <3>2, <4>1 DEF StandsInv, ServedPutsStand
      <4>4. db'[puts[wire[n].id]] \in {p, db[puts[wire[n].id]]}
        BY <2>2, <4>2
      <4>5. wire[n].id \in Nat /\ p \in Nat
        BY <2>1, <4>2
      <4>6. db'[puts[wire[n].id]] >= wire[n].id
        BY <4>2, <4>3, <4>4, <4>5
      <4> QED
        BY <3>1, <4>1, <4>6
    <3>3. CASE n = served + 1
      <4>1. wire'[n].id = p
        BY <1>2, <3>3 DEF PutApplied, Dealt, p
      <4> QED
        BY <2>1, <2>2, <3>1, <4>1
    <3> QED
      BY <1>2, <2>4, <3>2, <3>3 DEF PutApplied, Dealt
  <2>5. ASSUME NEW i \in 1..Len(puts'),
               i \notin outstandingPuts' \cup rejected' \cup lost'
        PROVE  db'[puts'[i]] >= i
    <3>1. /\ puts' = puts
          /\ i \in 1..Len(puts)
          /\ i \notin outstandingPuts \cup rejected \cup lost
      BY <1>2, <2>5 DEF PutApplied
    <3>2. i < p /\ db[puts[i]] >= i
      BY <2>1, <3>1 DEF StandsInv, AcknowledgedPutStands
    <3> QED
      BY <2>1, <2>2, <3>1, <3>2
  <2> QED
    BY <2>4, <2>5 DEF StandsInv, ServedPutsStand, AcknowledgedPutStands
<1>3. CASE /\ Dealt
           /\ UNCHANGED <<puts, db, outstandingPuts, lost>>
           /\ \/ NextRequest.kind # "put" /\ rejected' = rejected
              \/ rejected' = rejected \cup {NextRequest.id}
  <2>1. AcknowledgedPutStands'
    BY <1>3, NothingApplied
  <2>2. ASSUME NEW n \in 1..served', wire'[n].kind = "put",
               wire'[n].id \notin rejected'
        PROVE  db[puts[wire'[n].id]] >= wire'[n].id
    <3>1. n \in 1..Len(wire) /\ n <= served + 1
      BY <1>3, <2>2 DEF Dealt
    <3>2. /\ wire'[n].kind = wire[n].kind
          /\ wire'[n].id = wire[n].id
          /\ NextRequest = wire[served + 1]
      BY <1>3, <3>1 DEF Dealt
    <3>3. n # served + 1
      BY <1>3, <2>2, <3>2
    <3>4. n \in 1..served /\ wire[n].id \notin rejected
      BY <1>3, <2>2, <3>1, <3>2, <3>3
    <3> QED
      BY <2>2, <3>2, <3>4 DEF StandsInv, ServedPutsStand
  <2> QED
    BY <1>3, <2>1, <2>2 DEF StandsInv, ServedPutsStand
<1>4. CASE PutSettled
  <2>1. ServedPutsStand'
    BY <1>4, ServedShift DEF PutSettled
  <2>2. ASSUME NEW i \in 1..Len(puts),
               i \notin (outstandingPuts \ {wire[1].id}) \cup rejected \cup lost
        PROVE  db[puts[i]] >= i
    <3>1. CASE i = wire[1].id
      <4>1. 1 \in 1..served /\ wire[1].kind = "put"
        BY <1>4 DEF PutSettled, Shifted
      <4> QED
        BY <2>2, <3>1, <4>1 DEF StandsInv, ServedPutsStand
    <3>2. CASE i # wire[1].id
      BY <2>2, <3>2 DEF StandsInv, AcknowledgedPutStands
    <3> QED
      BY <3>1, <3>2
  <2> QED
    BY <1>4, <2>1, <2>2 DEF PutSettled, StandsInv, AcknowledgedPutStands
<1>5. CASE Shifted /\ UNCHANGED <<puts, db, outstandingPuts, rejected, lost>>
  BY <1>5, ServedShift, NothingApplied DEF StandsInv
<1>6. CASE /\ UNCHANGED <<puts, db, rejected>>
           /\ outstandingPuts \subseteq outstandingPuts' \cup lost'
           /\ lost \subseteq lost'
           /\ served' = 0 \/ Replayed
  <2>1. AcknowledgedPutStands'
    BY <1>6, NothingApplied
  <2>2. ServedPutsStand'
    <3>1. ASSUME Replayed, NEW n \in 1..served'
          PROVE  wire'[n].kind # "put"
      <4>1. n \in 1..Len(wire') /\ ~(n > served')
        BY <3>1 DEF Replayed
      <4> QED
        BY <3>1, <4>1 DEF Replayed
    <3> QED
      BY <1>6, <3>1 DEF ServedPutsStand
  <2> QED
    BY <2>1, <2>2 DEF StandsInv
<1>7. CASE /\ UNCHANGED <<served, puts, db, outstandingPuts, rejected, lost>>
           /\ \A n \in 1..Len(wire) : wire'[n] = wire[n]
  BY <1>7, ServedStay, NothingApplied DEF StandsInv
<1>a. CASE AppStep
  <2>1. CASE PutMade
    BY <1>1, <2>1
  <2>2. CASE ~PutMade
    BY <1>7, <1>a, <2>2 DEF AppStep, GetMade, GetMadeLocally, GetTimedOut, Sent
  <2> QED
    BY <2>1, <2>2
<1>b. CASE ServerStep
  BY <1>2, <1>3, <1>b
  DEF ServerStep, PutRejected, GetDealt, TokenDealt, KeepsMemory
<1>c. CASE AnswerStep
  BY <1>4, <1>5, <1>c DEF AnswerStep, GetSettled, TokenAnswered, KeepsMemory
<1>d. CASE ConnectionStep
  BY <1>6, <1>7, <1>d
  DEF ConnectionStep, TokenSent, Sent, Started, Restored, Disconnected,
      Restarted, Dropped, KeepsMemory
<1>e. CASE Quiet
  BY <1>7, <1>e DEF Quiet, KeepsMemory, wireVars
<1> QED
  BY <1>a, <1>b, <1>c, <1>d, <1>e, StepForms

LEMMA StandsInvariant == Spec => [](TypeInv /\ WritesInv /\ StandsInv)
<1>1. Init => StandsInv
  BY DEF Init, StandsInv, ServedPutsStand, AcknowledgedPutStands
<1> QED
  BY <1>1, WritesInvariant, StandsNext, PTL DEF Spec

\* A write that was answered and not refused is on the server for good: no
\* replay after a reconnection brings an older value of its date back.
THEOREM AcknowledgedWriteStands == Spec => []AcknowledgedPutStands
  BY StandsInvariant, PTL DEF StandsInv

-----------------------------------------------------------------------------
(* A completion runs once                                                  *)

\* A get that was answered was made, and has left the queue.
AnsweredGetsLeave ==
    \A n \in 1..Len(answers) :
        answers[n].get \in (1..Len(gets)) \ outstandingGets

OnceInv == AnsweredGetsLeave /\ GetAnsweredOnce

\* What has happened is not undone.
HistoryGrows ==
    /\ Len(puts) <= Len(puts') /\ Len(gets) <= Len(gets')
    /\ \A i \in 1..Len(puts) : puts'[i] = puts[i]
    /\ \A g \in 1..Len(gets) : gets'[g] = gets[g]
    /\ Len(puts') \in Nat /\ Len(gets') \in Nat
    /\ rejected \subseteq rejected' /\ lost \subseteq lost'

LEMMA HistoryStep ==
    ASSUME TypeInv, [Next]_vars
    PROVE  HistoryGrows
<1> USE NumbersOK
<1>1. CASE AppStep
  BY <1>1
  DEF AppStep, PutMade, GetMade, GetMadeLocally, GetNumbered, GetTimedOut,
      HistoryGrows
<1>2. CASE ServerStep
  BY <1>2
  DEF ServerStep, PutApplied, PutRejected, GetDealt, TokenDealt, KeepsMemory,
      HistoryGrows
<1>3. CASE AnswerStep
  BY <1>3
  DEF AnswerStep, PutSettled, GetSettled, TokenAnswered, KeepsMemory,
      HistoryGrows
<1>4. CASE ConnectionStep
  BY <1>4
  DEF ConnectionStep, TokenSent, Started, Restored, Disconnected, Restarted,
      KeepsMemory, HistoryGrows
<1>5. CASE Quiet
  BY <1>5 DEF Quiet, KeepsMemory, HistoryGrows
<1> QED
  BY <1>1, <1>2, <1>3, <1>4, <1>5, StepForms

\* The answer of a get that leaves the queue, or never entered it.
LEMMA AnsweredNow ==
    ASSUME TypeInv, OnceInv, NEW a, Answer(a),
           Len(gets) <= Len(gets'), Len(gets') \in Nat,
           a.get \in (1..Len(gets')) \ outstandingGets',
           a.get \in outstandingGets \/ a.get > Len(gets),
           outstandingGets' \subseteq outstandingGets
    PROVE  OnceInv'
<1> USE NumbersOK
<1>1. ASSUME NEW n \in 1..Len(answers')
      PROVE  \/ n = Len(answers) + 1 /\ answers'[n] = a
             \/ /\ n \in 1..Len(answers) /\ answers'[n] = answers[n]
                /\ answers[n].get \in (1..Len(gets)) \ outstandingGets
  BY DEF Answer, OnceInv, AnsweredGetsLeave
<1>2. AnsweredGetsLeave'
  BY <1>1 DEF AnsweredGetsLeave
<1>3. ASSUME NEW j \in 1..Len(answers'), NEW k \in 1..Len(answers'), j # k
      PROVE  answers'[j].get # answers'[k].get
  <2>1. \A n \in 1..Len(answers) : answers[n].get # a.get
    BY DEF OnceInv, AnsweredGetsLeave
  <2> QED
    BY <1>1, <1>3, <2>1 DEF OnceInv, GetAnsweredOnce
<1> QED
  BY <1>2, <1>3 DEF OnceInv, GetAnsweredOnce

LEMMA OnceNext == TypeInv /\ OnceInv /\ [Next]_vars => OnceInv'
<1> SUFFICES ASSUME TypeInv, OnceInv, [Next]_vars PROVE OnceInv'
  OBVIOUS
<1> USE NumbersOK
<1>1. CASE \E t \in Targets : GetMade(t)
  BY <1>1
  DEF GetMade, GetNumbered, OnceInv, AnsweredGetsLeave, GetAnsweredOnce
<1>2. CASE \E t \in Targets : GetMadeLocally(t)
  <2>1. PICK t \in Targets, newest \in outstandingPuts :
          /\ GetNumbered(t)
          /\ Answer([get |-> Len(gets) + 1, status |-> "local",
                     snap |-> [NoData EXCEPT ![t] = newest]])
          /\ outstandingGets' = outstandingGets
    BY <1>2 DEF GetMadeLocally
  <2>2. Len(gets') = Len(gets) + 1
    BY <2>1 DEF GetNumbered
  <2> QED
    BY <2>1, <2>2, AnsweredNow
<1>3. CASE GetTimedOut
  <2>1. PICK g \in outstandingGets :
          /\ outstandingGets' = outstandingGets \ {g}
          /\ Answer([get |-> g, status |-> "offline", snap |-> NoData])
          /\ gets' = gets
    BY <1>3 DEF GetTimedOut
  <2> QED
    BY <2>1, AnsweredNow
<1>4. CASE /\ gets' = gets
           /\ wire[1].id \in outstandingGets
           /\ outstandingGets' = outstandingGets \ {wire[1].id}
           /\ Answer([get |-> wire[1].id, status |-> wire[1].reply,
                      snap |-> wire[1].snap])
  BY <1>4, AnsweredNow
<1>5. CASE /\ UNCHANGED <<gets, answers>>
           /\ outstandingGets' \subseteq outstandingGets
  BY <1>5 DEF OnceInv, AnsweredGetsLeave, GetAnsweredOnce
<1>a. CASE AppStep
  BY <1>1, <1>2, <1>3, <1>5, <1>a DEF AppStep, PutMade
<1>b. CASE ServerStep
  BY <1>5, <1>b
  DEF ServerStep, PutApplied, PutRejected, GetDealt, TokenDealt, KeepsMemory
<1>c. CASE AnswerStep
  BY <1>4, <1>5, <1>c
  DEF AnswerStep, PutSettled, GetSettled, TokenAnswered, KeepsMemory
<1>d. CASE ConnectionStep
  BY <1>5, <1>d
  DEF ConnectionStep, TokenSent, Started, Restored, Disconnected, Restarted,
      KeepsMemory
<1>e. CASE Quiet
  BY <1>5, <1>e DEF Quiet, KeepsMemory
<1> QED
  BY <1>a, <1>b, <1>c, <1>d, <1>e, StepForms

LEMMA OnceInvariant == Spec => [](TypeInv /\ OnceInv)
<1>1. Init => OnceInv
  BY DEF Init, OnceInv, AnsweredGetsLeave, GetAnsweredOnce
<1> QED
  BY <1>1, TypeInvInit, TypeInvNext, OnceNext, PTL DEF Spec

\* The offline timer and the server's answer never both complete a read.
THEOREM CompletionRunsOnce == Spec => []GetAnsweredOnce
  BY OnceInvariant, PTL DEF OnceInv

-----------------------------------------------------------------------------
(* A read contains the writes before it                                    *)

SinceIsPast == \A g \in 1..Len(gets) : gets[g].since \in 0..Len(puts)

\* The writes a successful answer to each get must contain.
WritesBefore ==
    [g \in 1..Len(gets) |->
        {i \in 1..gets[g].since :
            puts[i] \in Covers(gets[g].target) /\ i \notin rejected \cup lost}]

\* On a connection a get is behind the writes made before it.
GetsFollowTheirWrites ==
    \A m, n \in 1..Len(wire) :
        wire[m].kind = "put" /\ wire[n].kind = "get"
            /\ wire[m].id <= gets[wire[n].id].since => m < n

FollowInv == SinceIsPast /\ GetsFollowTheirWrites

\* The server's answer to a get contains them.
ServedGetsReadTheirWrites ==
    \A n \in 1..served :
        wire[n].kind = "get" /\ wire[n].reply = "ok" =>
            \A i \in WritesBefore[wire[n].id] : wire[n].snap[puts[i]] >= i

\* And so does the answer its callback gets.
AnswersContainWrites ==
    \A n \in 1..Len(answers) :
        answers[n].status \in {"local", "ok"} =>
            \A i \in WritesBefore[answers[n].get] :
                answers[n].snap[puts[i]] >= i

\* No write joins those a get must contain once the get is made.
LEMMA WritesBeforeStay ==
    ASSUME TypeInv, SinceIsPast, HistoryGrows, NEW g \in 1..Len(gets)
    PROVE  /\ WritesBefore'[g] \subseteq WritesBefore[g]
           /\ WritesBefore[g] \subseteq 1..Len(puts)
           /\ \A i \in WritesBefore[g] : puts'[i] = puts[i]
<1>1. gets'[g] = gets[g] /\ gets[g].since \in 0..Len(puts) /\ Len(puts) \in Nat
  BY NumbersOK DEF HistoryGrows, SinceIsPast
<1>2. \A i \in 1..gets[g].since : i \in 1..Len(puts) /\ puts'[i] = puts[i]
  BY <1>1 DEF HistoryGrows
<1> QED
  BY <1>1, <1>2 DEF WritesBefore, HistoryGrows

LEMMA FollowNext == TypeInv /\ FollowInv /\ [Next]_vars => FollowInv'
<1> SUFFICES ASSUME TypeInv, FollowInv, [Next]_vars PROVE FollowInv'
  OBVIOUS
<1> USE NumbersOK
<1>0. HistoryGrows
  BY HistoryStep
<1>1. SinceIsPast'
  <2>1. CASE \E t \in Targets : GetNumbered(t) /\ puts' = puts
    BY <2>1 DEF GetNumbered, FollowInv, SinceIsPast
  <2>2. CASE gets' = gets
    BY <1>0, <2>2 DEF HistoryGrows, FollowInv, SinceIsPast
  <2>3. (\E t \in Targets : GetNumbered(t) /\ puts' = puts) \/ gets' = gets
    BY StepForms
    DEF AppStep, ServerStep, AnswerStep, ConnectionStep, Quiet, PutMade,
        GetMade, GetMadeLocally, GetTimedOut, PutApplied, PutRejected,
        GetDealt, TokenDealt, PutSettled, GetSettled, TokenAnswered,
        TokenSent, Started, Restored, Disconnected, Restarted, KeepsMemory
  <2> QED
    BY <2>1, <2>2, <2>3
<1>2. ASSUME NEW m \in 1..Len(wire), NEW n \in 1..Len(wire),
             wire[m].kind = "put", wire[n].kind = "get",
             wire[m].id <= gets'[wire[n].id].since
      PROVE  m < n
  <2>1. gets'[wire[n].id] = gets[wire[n].id]
    BY <1>0, <1>2 DEF HistoryGrows
  <2> QED
    BY <1>2, <2>1 DEF FollowInv, GetsFollowTheirWrites
<1>3. CASE \A n \in 1..Len(wire') :
              /\ n \in 1..Len(wire)
              /\ wire'[n].kind = wire[n].kind
              /\ wire'[n].id = wire[n].id
  BY <1>1, <1>2, <1>3 DEF FollowInv, GetsFollowTheirWrites
<1>4. CASE Shifted
  <2>1. ASSUME NEW m \in 1..Len(wire'), NEW n \in 1..Len(wire'),
               wire'[m].kind = "put", wire'[n].kind = "get",
               wire'[m].id <= gets'[wire'[n].id].since
        PROVE  m < n
    <3>1. /\ m + 1 \in 1..Len(wire) /\ wire'[m] = wire[m + 1]
          /\ n + 1 \in 1..Len(wire) /\ wire'[n] = wire[n + 1]
      BY <1>4, SMTT(30) DEF Shifted
    <3>2. m + 1 < n + 1
      BY <1>2, <2>1, <3>1
    <3> QED
      BY <3>2
  <2> QED
    BY <1>1, <2>1 DEF FollowInv, GetsFollowTheirWrites
<1>5. CASE Replayed
  <2>1. ASSUME NEW m \in 1..Len(wire'), NEW n \in 1..Len(wire'),
               wire'[m].kind = "put", wire'[n].kind = "get"
        PROVE  m < n
    <3>1. ~(n < m) /\ n # m
      BY <1>5, <2>1 DEF Replayed
    <3> QED
      BY <3>1
  <2> QED
    BY <1>1, <2>1 DEF FollowInv, GetsFollowTheirWrites
<1>6. CASE \E i \in Nat : Sent("get", i) \/ Sent("auth", i) \/ Sent("unauth", i)
  <2>1. ASSUME NEW m \in 1..Len(wire'), NEW n \in 1..Len(wire'),
               wire'[m].kind = "put", wire'[n].kind = "get",
               wire'[m].id <= gets'[wire'[n].id].since
        PROVE  m < n
    <3>1. m \in 1..Len(wire) /\ wire'[m] = wire[m]
      BY <1>6, <2>1, SMTT(30) DEF Sent
    <3>2. CASE n \in 1..Len(wire)
      <4>1. wire'[n] = wire[n]
        BY <1>6, <3>2 DEF Sent
      <4> QED
        BY <1>2, <2>1, <3>1, <3>2, <4>1
    <3>3. CASE n = Len(wire) + 1
      BY <3>1, <3>3
    <3> QED
      BY <1>6, <3>2, <3>3 DEF Sent
  <2> QED
    BY <1>1, <2>1 DEF FollowInv, GetsFollowTheirWrites
<1>7. CASE PutMade /\ Sent("put", Len(puts) + 1)
  <2>1. ASSUME NEW m \in 1..Len(wire'), NEW n \in 1..Len(wire'),
               wire'[m].kind = "put", wire'[n].kind = "get",
               wire'[m].id <= gets'[wire'[n].id].since
        PROVE  m < n
    <3>1. n \in 1..Len(wire) /\ wire'[n] = wire[n] /\ gets' = gets
      BY <1>7, <2>1, SMTT(30) DEF Sent, PutMade
    <3>2. CASE m \in 1..Len(wire)
      <4>1. wire'[m] = wire[m]
        BY <1>7, <3>2 DEF Sent
      <4> QED
        BY <1>2, <2>1, <3>1, <3>2, <4>1
    <3>3. CASE m = Len(wire) + 1
      <4>1. wire'[m].id = Len(puts) + 1
        BY <1>7, <3>3 DEF Sent
      <4>2. gets[wire[n].id].since \in 0..Len(puts)
        BY <2>1, <3>1 DEF FollowInv, SinceIsPast
      <4> QED
        BY <2>1, <3>1, <4>1, <4>2
    <3> QED
      BY <1>7, <3>2, <3>3 DEF Sent
  <2> QED
    BY <1>1, <2>1 DEF FollowInv, GetsFollowTheirWrites
<1>8. CASE Len(wire') \in 0..1
  BY <1>1, <1>8 DEF FollowInv, GetsFollowTheirWrites
<1>a. CASE AppStep
  BY <1>3, <1>6, <1>7, <1>a
  DEF AppStep, PutMade, GetMade, GetMadeLocally, GetTimedOut
<1>b. CASE ServerStep
  BY <1>3, <1>b
  DEF ServerStep, PutApplied, PutRejected, GetDealt, TokenDealt, Dealt
<1>c. CASE AnswerStep
  BY <1>4, <1>c DEF AnswerStep, PutSettled, GetSettled, TokenAnswered
<1>d. CASE ConnectionStep
  BY <1>5, <1>6, <1>8, <1>d
  DEF ConnectionStep, TokenSent, Started, Restored, Disconnected, Restarted,
      Dropped
<1>e. CASE Quiet
  BY <1>3, <1>e DEF Quiet, wireVars
<1> QED
  BY <1>a, <1>b, <1>c, <1>d, <1>e, StepForms

ClientInv == TypeInv /\ WritesInv /\ StandsInv /\ OnceInv /\ FollowInv

LEMMA ClientInvariant == Spec => []ClientInv
<1>1. Init => FollowInv
  BY DEF Init, FollowInv, SinceIsPast, GetsFollowTheirWrites
<1>2. Spec => []FollowInv
  BY <1>1, TypeInvInit, TypeInvNext, FollowNext, PTL DEF Spec
<1>3. TypeInv /\ WritesInv /\ StandsInv /\ OnceInv /\ FollowInv => ClientInv
  BY DEF ClientInv
<1> QED
  BY <1>2, <1>3, StandsInvariant, OnceInvariant, PTL

\* When the server answers a get, the database holds the writes before it:
\* each was settled, and stands, or is ahead of the get on the same
\* connection, and was served.
LEMMA DatabaseHoldsWritesBefore ==
    ASSUME ClientInv, Dealt, NextRequest.kind = "get",
           NEW i \in WritesBefore[NextRequest.id]
    PROVE  db[puts[i]] >= i
<1> USE NumbersOK DEF ClientInv
<1>1. /\ served + 1 \in 1..Len(wire)
      /\ wire[served + 1].kind = "get"
      /\ NextRequest = wire[served + 1]
  BY DEF Dealt
<1>2. NextRequest.id \in 1..Len(gets) /\ conn = "Connected"
  BY <1>1
<1>3. /\ i \in 1..gets[NextRequest.id].since
      /\ i \in 1..Len(puts)
      /\ i \notin rejected \cup lost
  BY <1>2 DEF WritesBefore, FollowInv, SinceIsPast
<1>4. CASE i \notin outstandingPuts
  BY <1>3, <1>4 DEF StandsInv, AcknowledgedPutStands
<1>5. CASE i \in outstandingPuts
  <2>1. PICK m \in 1..Len(wire) : wire[m].kind = "put" /\ wire[m].id = i
    BY <1>2, <1>5 DEF WritesInv, EveryPutIsOnTheWire, OnWire
  <2>2. wire[m].id <= gets[wire[served + 1].id].since
    BY <1>1, <1>3, <2>1
  <2>3. m < served + 1
    BY <1>1, <2>1, <2>2 DEF FollowInv, GetsFollowTheirWrites
  <2>4. m \in 1..served
    BY <2>1, <2>3
  <2> QED
    BY <1>3, <2>1, <2>4 DEF StandsInv, ServedPutsStand
<1> QED
  BY <1>4, <1>5

LEMMA ServedGetsNext ==
    ClientInv /\ ServedGetsReadTheirWrites /\ [Next]_vars
        => ServedGetsReadTheirWrites'
<1> SUFFICES ASSUME ClientInv, ServedGetsReadTheirWrites, [Next]_vars,
                    NEW n \in 1..served', wire'[n].kind = "get",
                    wire'[n].reply = "ok",
                    NEW i \in WritesBefore'[wire'[n].id]
             PROVE  wire'[n].snap[puts'[i]] >= i
  BY DEF ServedGetsReadTheirWrites
<1> USE NumbersOK DEF ClientInv
<1>0. HistoryGrows /\ SinceIsPast
  BY HistoryStep DEF FollowInv
<1>1. ASSUME NEW m \in 1..served, wire'[n] = wire[m]
      PROVE  wire'[n].snap[puts'[i]] >= i
  <2>1. wire[m].id \in 1..Len(gets)
    BY <1>1
  <2>2. i \in WritesBefore[wire[m].id] /\ puts'[i] = puts[i]
    BY <1>0, <1>1, <2>1, WritesBeforeStay
  <2> QED
    BY <1>1, <2>2 DEF ServedGetsReadTheirWrites
<1>2. CASE served' = served /\ \A m \in 1..Len(wire) : wire'[m] = wire[m]
  <2>1. n \in 1..Len(wire) /\ n \in 1..served
    BY <1>2
  <2> QED
    BY <1>1, <1>2, <2>1
<1>3. CASE Shifted
  <2>1. n + 1 \in 1..served /\ wire'[n] = wire[n + 1]
    BY <1>3 DEF Shifted
  <2> QED
    BY <1>1, <2>1
<1>4. CASE Dealt /\ n # served + 1
  <2>1. n \in 1..served /\ n \in 1..Len(wire)
    BY <1>4 DEF Dealt
  <2>2. wire'[n] = wire[n]
    BY <1>4, <2>1 DEF Dealt
  <2> QED
    BY <1>1, <2>1, <2>2
<1>5. CASE Dealt /\ n = served + 1
  <2>1. /\ NextRequest.kind = "get"
        /\ wire'[n].id = NextRequest.id
        /\ NextRequest.id \in 1..Len(gets)
    BY <1>5 DEF Dealt
  <2>2. ServerStep
    <3>1. served' # served
      BY <1>5 DEF Dealt
    <3>2. ~Shifted /\ ~Dropped /\ ~Started
      BY <1>5 DEF Shifted, Dropped, Started, Dealt
    <3>3. ~Replayed
      BY <1>5 DEF Replayed
    <3> QED
      BY <3>1, <3>2, <3>3, StepForms
      DEF AppStep, AnswerStep, ConnectionStep, Quiet, PutMade, GetMade,
          GetMadeLocally, GetTimedOut, PutSettled, GetSettled, TokenAnswered,
          TokenSent, Restored, Disconnected, Restarted, wireVars
  <2>3. GetDealt
    BY <2>1, <2>2 DEF ServerStep, PutApplied, PutRejected, TokenDealt
  <2>4. wire'[n].snap = db /\ puts' = puts
    BY <1>5, <2>3 DEF GetDealt, KeepsMemory
  <2>5. i \in WritesBefore[NextRequest.id]
    BY <1>0, <2>1, WritesBeforeStay
  <2> QED
    BY <1>5, <2>1, <2>4, <2>5, DatabaseHoldsWritesBefore
<1>6. CASE Replayed
  <2>1. n \in 1..Len(wire') /\ ~(n > served')
    BY <1>6 DEF Replayed
  <2> QED
    BY <1>6, <2>1 DEF Replayed
<1>7. CASE served' = 0
  BY <1>7
<1>a. CASE AppStep
  BY <1>2, <1>a
  DEF AppStep, PutMade, Sent, GetMade, GetMadeLocally, GetTimedOut
<1>b. CASE ServerStep
  BY <1>4, <1>5, <1>b
  DEF ServerStep, PutApplied, PutRejected, GetDealt, TokenDealt
<1>c. CASE AnswerStep
  BY <1>3, <1>c DEF AnswerStep, PutSettled, GetSettled, TokenAnswered
<1>d. CASE ConnectionStep
  BY <1>2, <1>6, <1>7, <1>d
  DEF ConnectionStep, TokenSent, Sent, Started, Restored, Disconnected,
      Restarted, Dropped
<1>e. CASE Quiet
  BY <1>2, <1>e DEF Quiet, wireVars
<1> QED
  BY <1>a, <1>b, <1>c, <1>d, <1>e, StepForms

\* An answer from the client's own queue: the newest queued write of the date
\* is newer than every settled one.
LEMMA LocalAnswerContainsWrites ==
    ASSUME ClientInv, NEW t \in Targets, GetNumbered(t),
           UNCHANGED <<puts, rejected, lost>>,
           NEW newest \in outstandingPuts, puts[newest] = t,
           \A i \in outstandingPuts : puts[i] = t => i <= newest,
           NEW i \in WritesBefore'[Len(gets) + 1]
    PROVE  [NoData EXCEPT ![t] = newest][puts[i]] >= i
<1> USE NumbersOK DEF ClientInv
<1>1. t \in Dates
  <2>1. puts \in Seq(Dates) /\ newest \in 1..Len(puts)
    BY DEF TypeInv, TypeOK
  <2> QED
    BY <2>1
<1>2. i \in 1..Len(puts) /\ puts[i] \in Covers(t)
  BY DEF WritesBefore, GetNumbered
<1>3. puts[i] = t
  BY <1>1, <1>2, WholeDiaryAssumption DEF Covers
<1>4. i <= newest
  <2>1. CASE i \in outstandingPuts
    BY <1>3, <2>1
  <2>2. CASE i \notin outstandingPuts
    BY <1>2, <2>2 DEF WritesInv, PutsSettleInOrder
  <2> QED
    BY <2>1, <2>2
<1>5. [NoData EXCEPT ![t] = newest][t] = newest
  BY <1>1 DEF NoData
<1> QED
  BY <1>2, <1>3, <1>4, <1>5

LEMMA AnswersNext ==
    ClientInv /\ ServedGetsReadTheirWrites /\ AnswersContainWrites
        /\ [Next]_vars => AnswersContainWrites'
<1> SUFFICES ASSUME ClientInv, ServedGetsReadTheirWrites,
                    AnswersContainWrites, [Next]_vars,
                    NEW n \in 1..Len(answers'),
                    answers'[n].status \in {"local", "ok"},
                    NEW i \in WritesBefore'[answers'[n].get]
             PROVE  answers'[n].snap[puts'[i]] >= i
  BY DEF AnswersContainWrites
<1> USE NumbersOK DEF ClientInv
<1>0. HistoryGrows /\ SinceIsPast
  BY HistoryStep DEF FollowInv
<1>1. CASE n \in 1..Len(answers) /\ answers'[n] = answers[n]
  <2>1. answers[n].get \in 1..Len(gets)
    BY <1>1 DEF OnceInv, AnsweredGetsLeave
  <2>2. i \in WritesBefore[answers[n].get] /\ puts'[i] = puts[i]
    BY <1>0, <1>1, <2>1, WritesBeforeStay
  <2> QED
    BY <1>1, <2>2 DEF AnswersContainWrites
<1>2. CASE answers' = answers
  BY <1>1, <1>2
<1>3. ASSUME NEW a, Answer(a)
      PROVE  \/ n \in 1..Len(answers) /\ answers'[n] = answers[n]
             \/ answers'[n] = a
  BY <1>3 DEF Answer
<1>4. CASE \E t \in Targets : GetMadeLocally(t)
  <2>1. PICK t \in Targets, newest \in outstandingPuts :
          /\ GetNumbered(t)
          /\ puts[newest] = t
          /\ \A j \in outstandingPuts : puts[j] = t => j <= newest
          /\ Answer([get |-> Len(gets) + 1, status |-> "local",
                     snap |-> [NoData EXCEPT ![t] = newest]])
          /\ UNCHANGED <<puts, rejected, lost>>
    BY <1>4 DEF GetMadeLocally
  <2>2. CASE answers'[n] = [get |-> Len(gets) + 1, status |-> "local",
                            snap |-> [NoData EXCEPT ![t] = newest]]
    <3>1. i \in WritesBefore'[Len(gets) + 1]
      BY <2>1, <2>2 DEF GetNumbered
    <3>2. [NoData EXCEPT ![t] = newest][puts[i]] >= i
      BY <2>1, <3>1, LocalAnswerContainsWrites
    <3> QED
      BY <2>1, <2>2, <3>2
  <2> QED
    BY <1>1, <1>3, <2>1, <2>2
<1>5. CASE GetTimedOut
  <2>1. PICK g : Answer([get |-> g, status |-> "offline", snap |-> NoData])
    BY <1>5 DEF GetTimedOut
  <2> QED
    BY <1>1, <1>3, <2>1
<1>6. CASE GetSettled
  <2>1. /\ 1 \in 1..served /\ 1 \in 1..Len(wire)
        /\ wire[1].kind = "get" /\ wire[1].id \in 1..Len(gets)
    BY <1>6 DEF GetSettled, Shifted
  <2>2. CASE answers'[n] = [get |-> wire[1].id, status |-> wire[1].reply,
                            snap |-> wire[1].snap]
    <3>1. wire[1].reply = "ok"
      <4>1. wire[1] \in Requests
        BY <2>1, ElementOfSeq DEF TypeInv, TypeOK
      <4> QED
        BY <2>2, <4>1 DEF Requests
    <3>2. i \in WritesBefore[wire[1].id] /\ puts'[i] = puts[i]
      BY <1>0, <2>1, <2>2, WritesBeforeStay
    <3> QED
      BY <2>1, <2>2, <3>1, <3>2 DEF ServedGetsReadTheirWrites
  <2> QED
    BY <1>1, <1>2, <1>3, <1>6, <2>2 DEF GetSettled
<1>a. CASE AppStep
  BY <1>2, <1>4, <1>5, <1>a DEF AppStep, PutMade, GetMade
<1>b. CASE ServerStep
  BY <1>2, <1>b
  DEF ServerStep, PutApplied, PutRejected, GetDealt, TokenDealt, KeepsMemory
<1>c. CASE AnswerStep
  BY <1>2, <1>6, <1>c
  DEF AnswerStep, PutSettled, TokenAnswered, KeepsMemory
<1>d. CASE ConnectionStep
  BY <1>2, <1>d
  DEF ConnectionStep, TokenSent, Started, Restored, Disconnected, Restarted,
      KeepsMemory
<1>e. CASE Quiet
  BY <1>2, <1>e DEF Quiet, KeepsMemory
<1> QED
  BY <1>a, <1>b, <1>c, <1>d, <1>e, StepForms

\* A read that succeeds, from the server or from the queue, contains every
\* write made before it that was not refused or forgotten, or a newer one.
THEOREM ReadsContainWrites == Spec => []ReadYourWrites
<1>1. Init => ServedGetsReadTheirWrites /\ AnswersContainWrites
  BY DEF Init, ServedGetsReadTheirWrites, AnswersContainWrites
<1>2. Spec => [](ServedGetsReadTheirWrites /\ AnswersContainWrites)
  BY <1>1, ClientInvariant, ServedGetsNext, AnswersNext, PTL DEF Spec
<1>3. OnceInv /\ AnswersContainWrites => ReadYourWrites
  BY DEF OnceInv, AnsweredGetsLeave, AnswersContainWrites, ReadYourWrites,
         WritesBefore
<1> QED
  BY <1>2, <1>3, OnceInvariant, PTL

=============================================================================
