------------------------ MODULE RealtimeClientProofs ------------------------
(***************************************************************************)
(* Proofs about RealtimeClient, for every value of its constants.          *)
(*                                                                         *)
(* The type invariant is inductive only together with what the wire holds  *)
(* in each phase of a connection; TypeInv, below, is that conjunction.     *)
(***************************************************************************)
EXTENDS RealtimeClient, FiniteSetTheorems, SequenceTheorems, TLAPS

-----------------------------------------------------------------------------
(* The wire                                                                *)

\* A queue's keys are a finite set, so restoreState lists finitely many.
LEMMA QueueIsFinite ==
    ASSUME NEW n \in Nat, NEW S \in SUBSET (1..n)
    PROVE  Cardinality(S) \in Nat
<1>1. IsFiniteSet(1..n)
  BY FS_Interval
<1>2. IsFiniteSet(S)
  BY <1>1, FS_Subset
<1> QED
  BY <1>2, FS_CardinalityType

\* A new request is well formed and unanswered.
LEMMA RequestType ==
    ASSUME NEW k \in Kinds, NEW i \in Nat
    PROVE  /\ Request(k, i) \in Requests
           /\ Request(k, i).kind = k
           /\ Request(k, i).id = i
           /\ Request(k, i).reply = "none"
  BY DEF Request, Requests, NoData, Snapshot

\* A list of numbers becomes the sequence of their requests.
LEMMA RequestsForList ==
    ASSUME NEW k \in Kinds, NEW n \in Nat,
           NEW ids \in [1..n -> Nat], NEW s, s = RequestsFor(k, ids)
    PROVE  /\ s \in Seq(Requests)
           /\ Len(s) = n
           /\ \A i \in 1..n : s[i].kind = k /\ s[i].id = ids[i]
                              /\ s[i].reply = "none"
<1>1. s = [i \in 1..n |-> Request(k, ids[i])]
  BY DEF RequestsFor
<1>2. \A i \in 1..n : Request(k, ids[i]) \in Requests
  BY RequestType
<1>3. s \in [1..n -> Requests]
  BY <1>1, <1>2
<1>4. ASSUME NEW i \in 1..n
      PROVE  s[i].kind = k /\ s[i].id = ids[i] /\ s[i].reply = "none"
  <2>1. s[i] = Request(k, ids[i])
    BY <1>1
  <2>2. ids[i] \in Nat
    OBVIOUS
  <2> QED
    BY <2>1, <2>2, RequestType
<1> HIDE DEF Requests
<1>5. s \in Seq(Requests) /\ Len(s) = n
  BY <1>3
<1> QED
  BY <1>4, <1>5

\* Where the elements of three concatenated sequences are.
LEMMA ThreeParts ==
    ASSUME NEW R \in Seq(Requests), NEW P \in Seq(Requests),
           NEW G \in Seq(Requests), NEW w, w = R \o P \o G
    PROVE  /\ w \in Seq(Requests)
           /\ Len(w) = Len(R) + Len(P) + Len(G)
           /\ \A n \in 1..Len(R) : w[n] = R[n]
           /\ \A n \in 1..Len(P) : w[Len(R) + n] = P[n]
           /\ \A n \in 1..Len(G) : w[Len(R) + Len(P) + n] = G[n]
<1> DEFINE Q == R \o P
<1>1. Len(R) \in Nat /\ Len(P) \in Nat /\ Len(G) \in Nat
  BY LenProperties
<1>2. /\ Q \in Seq(Requests)
      /\ Len(Q) = Len(R) + Len(P)
      /\ \A n \in 1..(Len(R) + Len(P)) :
            Q[n] = IF n <= Len(R) THEN R[n] ELSE P[n - Len(R)]
  BY ConcatProperties
<1>3. w = Q \o G
  OBVIOUS
<1> HIDE DEF Q
<1>a. /\ Q \o G \in Seq(Requests)
      /\ Len(Q \o G) = Len(Q) + Len(G)
      /\ \A n \in 1..(Len(Q) + Len(G)) :
            (Q \o G)[n] = IF n <= Len(Q) THEN Q[n] ELSE G[n - Len(Q)]
  <2>1. Q \in Seq(Requests) /\ G \in Seq(Requests)
    BY <1>2
  <2> QED
    BY <2>1, ConcatProperties
<1>4. /\ w \in Seq(Requests)
      /\ Len(w) = Len(Q) + Len(G)
      /\ \A n \in 1..(Len(Q) + Len(G)) :
            w[n] = IF n <= Len(Q) THEN Q[n] ELSE G[n - Len(Q)]
  BY <1>3, <1>a
<1>5. ASSUME NEW n \in 1..Len(R) PROVE w[n] = R[n]
  BY <1>1, <1>2, <1>4
<1>6. ASSUME NEW n \in 1..Len(P) PROVE w[Len(R) + n] = P[n]
  <2>1. Len(R) + n \in 1..(Len(R) + Len(P)) /\ ~(Len(R) + n <= Len(R))
    BY <1>1
  <2>2. w[Len(R) + n] = Q[Len(R) + n]
    BY <1>1, <1>2, <1>4, <2>1
  <2>3. Q[Len(R) + n] = P[(Len(R) + n) - Len(R)]
    BY <1>2, <2>1
  <2>4. (Len(R) + n) - Len(R) = n
    BY <1>1
  <2> QED
    BY <2>2, <2>3, <2>4
<1>7. ASSUME NEW n \in 1..Len(G) PROVE w[Len(R) + Len(P) + n] = G[n]
  <2> DEFINE m == Len(R) + Len(P) + n
  <2>1. m \in 1..(Len(Q) + Len(G)) /\ ~(m <= Len(Q)) /\ m - Len(Q) = n
    BY <1>1, <1>2
  <2> HIDE DEF m
  <2>2. w[m] = G[n]
    BY <1>4, <2>1
  <2> QED
    BY <2>2 DEF m
<1> QED
  BY <1>2, <1>4, <1>5, <1>6, <1>7

\* What restoreState puts on a connection after `rest`: every queued put, in
\* order and unanswered, then gets that are queued.
RestoredFrom(rest, w) ==
    /\ w \in Seq(Requests)
    /\ Len(rest) <= Len(w)
    /\ \A n \in 1..Len(rest) : w[n] = rest[n]
    /\ \A n \in 1..Len(w) : n > Len(rest) =>
          /\ w[n].reply = "none"
          /\ \/ w[n].kind = "put" /\ w[n].id \in outstandingPuts
             \/ w[n].kind = "get" /\ w[n].id \in outstandingGets
    /\ \A m, n \in 1..Len(w) : Len(rest) < m /\ m < n /\ w[n].kind = "put" =>
          w[m].kind = "put" /\ w[m].id < w[n].id
    /\ \A i \in outstandingPuts :
          \E n \in 1..Len(w) : w[n].kind = "put" /\ w[n].id = i

LEMMA RestoredWire ==
    ASSUME TypeOK, NEW rest \in Seq(Requests), RestoreState(rest)
    PROVE  RestoredFrom(rest, wire') /\ sentGets' = sentGets \cup outstandingGets
<1>1. PICK p \in Increasing(outstandingPuts),
           g \in Increasing(outstandingGets \ sentGets) :
         /\ wire' = rest \o RequestsFor("put", p) \o RequestsFor("get", g)
         /\ sentGets' = sentGets \cup outstandingGets
  BY DEF RestoreState
<1>2. PICK np : np = Cardinality(outstandingPuts) /\ np \in Nat
  <2>1. Len(puts) \in Nat
    BY DEF TypeOK
  <2> QED
    BY <2>1, QueueIsFinite DEF TypeOK
<1>3. PICK ng : ng = Cardinality(outstandingGets \ sentGets) /\ ng \in Nat
  <2>1. Len(gets) \in Nat /\ outstandingGets \ sentGets \in SUBSET (1..Len(gets))
    BY DEF TypeOK
  <2> QED
    BY <2>1, QueueIsFinite
<1>4. /\ p \in [1..np -> outstandingPuts]
      /\ \A j, k \in 1..np : j < k => p[j] < p[k]
      /\ \A i \in outstandingPuts : \E k \in 1..np : p[k] = i
      /\ g \in [1..ng -> outstandingGets \ sentGets]
  BY <1>2, <1>3 DEF Increasing
<1>5. outstandingPuts \in SUBSET Nat /\ outstandingGets \ sentGets \in SUBSET Nat
  BY DEF TypeOK
<1>6. PICK P : P = RequestsFor("put", p)
  OBVIOUS
<1>7. PICK G : G = RequestsFor("get", g)
  OBVIOUS
<1>8. PICK w : w = wire'
  OBVIOUS
<1>9. PICK r \in Nat : r = Len(rest)
  BY LenProperties
<1>a. /\ P \in Seq(Requests)
      /\ Len(P) = np
      /\ \A n \in 1..np :
            P[n].kind = "put" /\ P[n].id = p[n] /\ P[n].reply = "none"
  <2>1. p \in [1..np -> Nat] /\ "put" \in Kinds
    BY <1>4, <1>5 DEF Kinds
  <2> QED
    BY <1>2, <1>6, <2>1, RequestsForList
<1>b. /\ G \in Seq(Requests)
      /\ Len(G) = ng
      /\ \A n \in 1..ng :
            G[n].kind = "get" /\ G[n].id = g[n] /\ G[n].reply = "none"
  <2>1. g \in [1..ng -> Nat] /\ "get" \in Kinds /\ ng \in Nat
    BY <1>3, <1>4, <1>5 DEF Kinds
  <2> HIDE DEF RequestsFor
  <2> QED
    BY <1>7, <2>1, RequestsForList
<1>c. w = rest \o P \o G
  BY <1>1, <1>6, <1>7, <1>8
<1>10. /\ w \in Seq(Requests)
       /\ Len(w) = r + np + ng
       /\ \A n \in 1..r : w[n] = rest[n]
       /\ \A n \in 1..np : w[r + n] = P[n]
       /\ \A n \in 1..ng : w[r + np + n] = G[n]
  <2>1. /\ w \in Seq(Requests)
        /\ Len(w) = Len(rest) + Len(P) + Len(G)
        /\ \A n \in 1..Len(rest) : w[n] = rest[n]
        /\ \A n \in 1..Len(P) : w[Len(rest) + n] = P[n]
        /\ \A n \in 1..Len(G) : w[Len(rest) + Len(P) + n] = G[n]
    <3>1. P \in Seq(Requests) /\ G \in Seq(Requests)
      BY <1>a, <1>b
    <3> QED
      BY <1>c, <3>1, ThreeParts
  <2> QED
    BY <1>9, <1>a, <1>b, <2>1
<1>11. ASSUME NEW n \in 1..Len(w), n > r
       PROVE  \/ /\ n <= r + np
                 /\ n - r \in 1..np
                 /\ w[n].kind = "put" /\ w[n].id = p[n - r]
                 /\ w[n].reply = "none"
              \/ /\ n > r + np
                 /\ n - r - np \in 1..ng
                 /\ w[n].kind = "get" /\ w[n].id = g[n - r - np]
                 /\ w[n].reply = "none"
  <2>1. CASE n <= r + np
    <3>1. n - r \in 1..np /\ r + (n - r) = n
      BY <1>2, <1>10, <1>11, <2>1
    <3>2. w[n] = P[n - r]
      BY <1>10, <3>1
    <3> QED
      BY <1>a, <2>1, <3>1, <3>2
  <2>2. CASE n > r + np
    <3>1. n - r - np \in 1..ng /\ r + np + (n - r - np) = n
      BY <1>2, <1>3, <1>10, <1>11, <2>2
    <3>2. w[n] = G[n - r - np]
      BY <1>10, <3>1
    <3> QED
      BY <1>b, <2>2, <3>1, <3>2
  <2> QED
    BY <1>2, <2>1, <2>2
<1>12. ASSUME NEW n \in 1..Len(w), n > r
       PROVE  /\ w[n].reply = "none"
              /\ \/ w[n].kind = "put" /\ w[n].id \in outstandingPuts
                 \/ w[n].kind = "get" /\ w[n].id \in outstandingGets
  BY <1>4, <1>11, <1>12
<1>13. ASSUME NEW m \in 1..Len(w), NEW n \in 1..Len(w), r < m, m < n,
              w[n].kind = "put"
       PROVE  w[m].kind = "put" /\ w[m].id < w[n].id
  <2>1. n > r
    BY <1>13
  <2>2. n <= r + np /\ n - r \in 1..np /\ w[n].id = p[n - r]
    BY <1>11, <1>13, <2>1
  <2>3. m <= r + np
    BY <1>2, <1>13, <2>2
  <2>4. m - r \in 1..np /\ w[m].kind = "put" /\ w[m].id = p[m - r]
    BY <1>2, <1>11, <1>13, <2>3
  <2>5. m - r < n - r
    BY <1>13
  <2> QED
    BY <1>4, <2>2, <2>4, <2>5
<1>14. ASSUME NEW i \in outstandingPuts
       PROVE  \E n \in 1..Len(w) : w[n].kind = "put" /\ w[n].id = i
  <2>1. PICK k \in 1..np : p[k] = i
    BY <1>4
  <2>2. r + k \in 1..Len(w)
    BY <1>2, <1>3, <1>10
  <2>3. w[r + k].kind = "put" /\ w[r + k].id = i
    BY <1>10, <1>a, <2>1
  <2> QED
    BY <2>2, <2>3
<1>15. RestoredFrom(rest, w)
  <2>1. r <= Len(w)
    BY <1>2, <1>3, <1>10
  <2> QED
    BY <1>9, <1>10, <1>12, <1>13, <1>14, <2>1 DEF RestoredFrom
<1> QED
  BY <1>1, <1>8, <1>15

-----------------------------------------------------------------------------
(* Types                                                                   *)

\* A request on the wire names a put or a get that was made.
WireIds ==
    \A n \in 1..Len(wire) :
        /\ wire[n].kind = "put" => wire[n].id \in 1..Len(puts)
        /\ wire[n].kind = "get" => wire[n].id \in 1..Len(gets)

\* A connection that authenticates carries no put and no get.
AuthPhase ==
    conn = "Authenticating" =>
        /\ wire # <<>>
        /\ wire[1].kind = "restoreAuth"
        /\ \A n \in 2..Len(wire) : wire[n].kind \in {"auth", "unauth"}

\* Only a connection carries requests, and a ready one is not restored again.
OtherPhases ==
    /\ conn \in {"Disconnected", "GettingToken", "Connecting"} => wire = <<>>
    /\ conn = "Connected" =>
          \A n \in 1..Len(wire) : wire[n].kind # "restoreAuth"

\* The server has answered the oldest `served` requests and no other.
RepliesInOrder ==
    \A n \in 1..Len(wire) : wire[n].reply = "none" <=> n > served

TypeInv ==
    /\ TypeOK
    /\ WireIds
    /\ AuthPhase
    /\ OtherPhases
    /\ RepliesInOrder
    /\ ReconnectIsScheduled

LEMMA TypeInvInit == Init => TypeInv
<1> SUFFICES ASSUME Init PROVE TypeInv
  OBVIOUS
<1>1. /\ conn \in ConnectionState
      /\ interrupted \in BOOLEAN
      /\ retryScheduled \in BOOLEAN
      /\ token \in BOOLEAN
  BY DEF Init, ConnectionState
<1>2. db \in Snapshot
  BY DEF Init, NoData, Snapshot
<1>3. TypeOK
  BY <1>1, <1>2 DEF Init, TypeOK
<1>4. Len(wire) = 0
  BY DEF Init
<1> QED
  BY <1>3, <1>4
  DEF Init, TypeInv, WireIds, AuthPhase, OtherPhases, RepliesInOrder, ReconnectIsScheduled

\* A sequence of requests with one more at its end.
LEMMA AppendedWire ==
    ASSUME NEW w \in Seq(Requests), NEW r \in Requests
    PROVE  /\ Append(w, r) \in Seq(Requests)
           /\ Len(Append(w, r)) = Len(w) + 1
           /\ Len(w) \in Nat
           /\ \A n \in 1..Len(w) : Append(w, r)[n] = w[n]
           /\ Append(w, r)[Len(w) + 1] = r
<1> HIDE DEF Requests
<1> QED
  OBVIOUS

\* What is known when an answer has arrived.
LEMMA AnswerArrived ==
    ASSUME TypeInv, Answered
    PROVE  /\ wire \in Seq(Requests)
           /\ Len(wire) \in Nat \ {0}
           /\ Response = wire[1]
           /\ Response \in Requests
           /\ Tail(wire) \in Seq(Requests)
           /\ Len(Tail(wire)) = Len(wire) - 1
           /\ \A n \in 1..Len(Tail(wire)) : Tail(wire)[n] = wire[n + 1]
           /\ conn \in {"Authenticating", "Connected"}
           /\ served \in 1..Len(wire)
<1>1. /\ wire \in Seq(Requests)
      /\ served \in 1..Len(wire)
      /\ Len(wire) \in Nat \ {0}
      /\ wire # <<>>
  BY DEF TypeInv, TypeOK, Answered
<1>2. conn \in {"Authenticating", "Connected"}
  BY <1>1 DEF TypeInv, TypeOK, OtherPhases, ConnectionState
<1>3. /\ Response \in Requests
      /\ Tail(wire) \in Seq(Requests)
      /\ Len(Tail(wire)) = Len(wire) - 1
      /\ \A n \in 1..Len(Tail(wire)) : Tail(wire)[n] = wire[n + 1]
  BY <1>1, HeadTailProperties DEF Response
<1>4. Response = wire[1]
  BY <1>1 DEF Response
<1> QED
  BY <1>1, <1>2, <1>3, <1>4

\* What a reply of the server changes.
LEMMA Replied ==
    ASSUME TypeOK, served < Len(wire),
           NEW status \in {"ok", "error"}, NEW data \in Snapshot,
           Reply(status, data)
    PROVE  /\ wire' \in Seq(Requests)
           /\ Len(wire') = Len(wire)
           /\ Len(wire) \in Nat
           /\ served + 1 \in 1..Len(wire)
           /\ served' = served + 1
           /\ NextRequest \in Requests
           /\ \A n \in 1..Len(wire) :
                 /\ wire'[n].kind = wire[n].kind
                 /\ wire'[n].id = wire[n].id
                 /\ n # served + 1 => wire'[n] = wire[n]
           /\ wire'[served + 1].reply = status
           /\ wire'[served + 1].snap = data
<1>1. /\ wire \in Seq(Requests)
      /\ served + 1 \in 1..Len(wire)
      /\ Len(wire) \in Nat
  BY DEF TypeOK
<1>2. NextRequest \in Requests
  BY <1>1, ElementOfSeq DEF NextRequest
<1>3. PICK r : r = [NextRequest EXCEPT !.reply = status, !.snap = data]
  OBVIOUS
<1>4. /\ r \in Requests
      /\ r.kind = NextRequest.kind
      /\ r.id = NextRequest.id
      /\ r.reply = status
      /\ r.snap = data
  BY <1>2, <1>3 DEF Requests
<1>5. wire' = [wire EXCEPT ![served + 1] = r] /\ served' = served + 1
  BY <1>3 DEF Reply, NextRequest
<1>6. /\ wire' \in Seq(Requests)
      /\ Len(wire') = Len(wire)
      /\ \A n \in 1..Len(wire) :
            wire'[n] = IF n = served + 1 THEN r ELSE wire[n]
  BY <1>1, <1>4, <1>5, ExceptSeq
<1> QED
  BY <1>1, <1>2, <1>4, <1>5, <1>6 DEF NextRequest

LEMMA TypeInvNext == TypeInv /\ [Next]_vars => TypeInv'
<1> SUFFICES ASSUME TypeInv, [Next]_vars PROVE TypeInv'
  OBVIOUS
<1> USE DEF TypeInv
<1>1. ASSUME NEW d \in Dates, PutInternal(d) PROVE TypeInv'
  <2> USE <1>1 DEF PutInternal, clientVars, queueVars, wireVars, logVars, fateVars, boundVars
  <2>a. /\ wire' \in Seq(Requests)
        /\ Len(wire) \in Nat
        /\ Len(wire) <= Len(wire')
        /\ \A n \in 1..Len(wire) : wire'[n] = wire[n]
        /\ Len(wire') > Len(wire) =>
              /\ conn = "Connected"
              /\ Len(wire') = Len(wire) + 1
              /\ wire'[Len(wire) + 1].kind = "put"
              /\ wire'[Len(wire) + 1].reply = "none"
              /\ wire'[Len(wire) + 1].id = Len(puts) + 1
    <3>1. Request("put", Len(puts) + 1) \in Requests
      BY RequestType DEF TypeOK, Kinds
    <3>2. /\ Request("put", Len(puts) + 1).kind = "put"
          /\ Request("put", Len(puts) + 1).id = Len(puts) + 1
          /\ Request("put", Len(puts) + 1).reply = "none"
      BY RequestType DEF TypeOK, Kinds
    <3> QED
      BY <3>1, <3>2, AppendedWire DEF TypeOK, Connected
  <2>b. puts' \in Seq(Dates) /\ Len(puts') = Len(puts) + 1 /\ Len(puts) \in Nat
    BY DEF TypeOK
  <2>c. conn' = conn /\ gets' = gets
    OBVIOUS
  <2>1. TypeOK'
    <3>1. (1..Len(puts)) \subseteq (1..Len(puts')) /\ Len(puts) + 1 \in 1..Len(puts')
      BY <2>b
    <3>2. /\ outstandingPuts' \subseteq 1..Len(puts')
          /\ rejected' \subseteq 1..Len(puts')
          /\ lost' \subseteq 1..Len(puts')
      BY <3>1 DEF TypeOK
    <3>3. served' \in 0..Len(wire')
      BY <2>a DEF TypeOK
    <3> QED
      BY <2>a, <2>b, <3>2, <3>3 DEF TypeOK
  <2>2. WireIds'
    BY <2>a, <2>b, <2>c DEF TypeOK, WireIds
  <2>3. AuthPhase'
    BY <2>a, <2>b, <2>c DEF TypeOK, AuthPhase, OtherPhases
  <2>4. OtherPhases'
    BY <2>a, <2>b, <2>c DEF TypeOK, AuthPhase, OtherPhases, ReconnectIsScheduled
  <2>5. ReconnectIsScheduled'
    BY DEF ReconnectIsScheduled
  <2>6. RepliesInOrder'
    BY <2>a, <2>b, <2>c DEF TypeOK, RepliesInOrder
  <2> QED
    BY <2>1, <2>2, <2>3, <2>4, <2>5, <2>6
<1>2. ASSUME NEW t \in Targets, GetDataLocally(t) PROVE TypeInv'
  <2> USE <1>2 DEF GetDataLocally, clientVars, queueVars, wireVars, logVars, fateVars, boundVars
  <2>a. /\ gets' \in Seq([target : Targets, since : Nat])
        /\ Len(gets') = Len(gets) + 1
        /\ Len(gets) \in Nat
    BY DEF TypeOK
  <2>b. answers' \in Seq(Answers)
    <3>1. PICK newest \in Shadowing(t) :
            answers' = Append(answers,
                [get |-> Len(gets) + 1, status |-> "local",
                 snap |-> [NoData EXCEPT ![t] = newest]])
      OBVIOUS
    <3>2. newest \in Nat
      BY DEF Shadowing, TypeOK
    <3>3. [NoData EXCEPT ![t] = newest] \in Snapshot
      BY <3>2 DEF NoData, Snapshot
    <3>4. [get |-> Len(gets) + 1, status |-> "local",
           snap |-> [NoData EXCEPT ![t] = newest]]
              \in Answers
      BY <2>a, <3>3 DEF Answers
    <3>5. answers \in Seq(Answers)
      BY DEF TypeOK
    <3> QED
      BY <3>1, <3>4, <3>5
  <2>c. wire' = wire /\ puts' = puts /\ conn' = conn
    OBVIOUS
  <2>1. TypeOK'
    BY <2>a, <2>b, <2>c DEF TypeOK, ConnectionState
  <2>2. WireIds'
    <3>1. (1..Len(gets)) \subseteq (1..Len(gets'))
      BY <2>a
    <3> QED
      BY <2>c, <3>1 DEF WireIds
  <2>3. AuthPhase'
    BY <2>a, <2>b, <2>c DEF TypeOK, AuthPhase, OtherPhases
  <2>4. OtherPhases'
    BY <2>a, <2>b, <2>c DEF TypeOK, AuthPhase, OtherPhases, ReconnectIsScheduled
  <2>5. ReconnectIsScheduled'
    BY DEF ReconnectIsScheduled
  <2>6. RepliesInOrder'
    BY <2>a, <2>b, <2>c DEF TypeOK, RepliesInOrder
  <2> QED
    BY <2>1, <2>2, <2>3, <2>4, <2>5, <2>6
<1>3. ASSUME NEW t \in Targets, GetDataAtPath(t) PROVE TypeInv'
  <2> USE <1>3 DEF GetDataAtPath, clientVars, queueVars, wireVars, logVars, fateVars, boundVars
  <2>a. /\ wire' \in Seq(Requests)
        /\ Len(wire) \in Nat
        /\ Len(wire) <= Len(wire')
        /\ \A n \in 1..Len(wire) : wire'[n] = wire[n]
        /\ Len(wire') > Len(wire) =>
              /\ conn = "Connected"
              /\ Len(wire') = Len(wire) + 1
              /\ wire'[Len(wire) + 1].kind = "get"
              /\ wire'[Len(wire) + 1].reply = "none"
              /\ wire'[Len(wire) + 1].id = Len(gets) + 1
    <3>1. Request("get", Len(gets) + 1) \in Requests
      BY RequestType DEF TypeOK, Kinds
    <3>2. /\ Request("get", Len(gets) + 1).kind = "get"
          /\ Request("get", Len(gets) + 1).id = Len(gets) + 1
          /\ Request("get", Len(gets) + 1).reply = "none"
      BY RequestType DEF TypeOK, Kinds
    <3> QED
      BY <3>1, <3>2, AppendedWire DEF TypeOK, Connected
  <2>b. /\ gets' \in Seq([target : Targets, since : Nat])
        /\ Len(gets') = Len(gets) + 1
        /\ Len(gets) \in Nat
    BY DEF TypeOK
  <2>c. conn' = conn /\ puts' = puts
    OBVIOUS
  <2>1. TypeOK'
    <3>1. (1..Len(gets)) \subseteq (1..Len(gets')) /\ Len(gets) + 1 \in 1..Len(gets')
      BY <2>b
    <3>2. /\ outstandingGets' \subseteq 1..Len(gets')
          /\ sentGets' \subseteq 1..Len(gets')
          /\ timers' \subseteq 1..Len(gets')
      BY <3>1 DEF TypeOK
    <3>3. served' \in 0..Len(wire')
      BY <2>a DEF TypeOK
    <3> QED
      BY <2>a, <2>b, <3>2, <3>3 DEF TypeOK
  <2>2. WireIds'
    <3>1. (1..Len(gets)) \subseteq (1..Len(gets')) /\ Len(gets) + 1 \in 1..Len(gets')
      BY <2>b
    <3>2. ASSUME NEW n \in 1..Len(wire')
          PROVE  /\ wire'[n].kind = "put" => wire'[n].id \in 1..Len(puts)
                 /\ wire'[n].kind = "get" => wire'[n].id \in 1..Len(gets')
      <4>1. CASE n \in 1..Len(wire)
        BY <2>a, <3>1, <4>1 DEF WireIds
      <4>2. CASE n \notin 1..Len(wire)
        <5>1. n = Len(wire) + 1 /\ Len(wire') > Len(wire)
          BY <2>a, <4>2
        <5> QED
          BY <2>a, <3>1, <5>1
      <4> QED
        BY <4>1, <4>2
    <3> QED
      BY <2>c, <3>2 DEF WireIds
  <2>3. AuthPhase'
    BY <2>a, <2>b, <2>c DEF TypeOK, AuthPhase, OtherPhases
  <2>4. OtherPhases'
    BY <2>a, <2>b, <2>c DEF TypeOK, AuthPhase, OtherPhases, ReconnectIsScheduled
  <2>5. ReconnectIsScheduled'
    BY DEF ReconnectIsScheduled
  <2>6. RepliesInOrder'
    BY <2>a, <2>b, <2>c DEF TypeOK, RepliesInOrder
  <2> QED
    BY <2>1, <2>2, <2>3, <2>4, <2>5, <2>6
<1>4. ASSUME NEW t \in BOOLEAN, RefreshAuthToken(t) PROVE TypeInv'
  <2> USE <1>4 DEF RefreshAuthToken, clientVars, queueVars, wireVars, logVars, fateVars, boundVars
  <2>a. /\ wire' \in Seq(Requests)
        /\ Len(wire) \in Nat
        /\ Len(wire) <= Len(wire')
        /\ \A n \in 1..Len(wire) : wire'[n] = wire[n]
        /\ Len(wire') > Len(wire) =>
              /\ conn \in {"Authenticating", "Connected"}
              /\ Len(wire') = Len(wire) + 1
              /\ wire'[Len(wire) + 1].kind \in {"auth", "unauth"}
              /\ wire'[Len(wire) + 1].reply = "none"
    <3>1. PICK k \in {"auth", "unauth"} : k = IF t THEN "auth" ELSE "unauth"
      OBVIOUS
    <3>2. Request(k, 0) \in Requests /\ Request(k, 0).kind = k
          /\ Request(k, 0).reply = "none"
      BY RequestType DEF Kinds
    <3>3. wire' = IF Open THEN Append(wire, Request(k, 0)) ELSE wire
      BY <3>1
    <3> QED
      BY <3>2, <3>3, AppendedWire DEF TypeOK, Open
  <2>b. conn' = conn /\ puts' = puts /\ gets' = gets
    OBVIOUS
  <2>1. TypeOK'
    BY <2>a, <2>b DEF TypeOK, ConnectionState
  <2>2. WireIds'
    BY <2>a, <2>b DEF TypeOK, WireIds
  <2>3. AuthPhase'
    BY <2>a, <2>b DEF TypeOK, AuthPhase, OtherPhases
  <2>4. OtherPhases'
    BY <2>a, <2>b DEF TypeOK, AuthPhase, OtherPhases, ReconnectIsScheduled
  <2>5. ReconnectIsScheduled'
    BY DEF ReconnectIsScheduled
  <2>6. RepliesInOrder'
    BY <2>a, <2>b DEF TypeOK, RepliesInOrder
  <2> QED
    BY <2>1, <2>2, <2>3, <2>4, <2>5, <2>6
<1>5. ASSUME NEW g \in timers, GetTimesOut(g) PROVE TypeInv'
  <2> USE <1>5 DEF GetTimesOut, clientVars, queueVars, wireVars, logVars, fateVars, boundVars
  <2>a. /\ answers' \in Seq(Answers)
        /\ timers' \subseteq 1..Len(gets)
        /\ outstandingGets' \subseteq 1..Len(gets)
        /\ sentGets' \subseteq 1..Len(gets)
    <3>1. NoData \in Snapshot /\ g \in Nat /\ g \in 1..Len(gets)
      BY DEF NoData, Snapshot, TypeOK
    <3>2. [get |-> g, status |-> "offline", snap |-> NoData]
              \in Answers
      BY <3>1 DEF Answers
    <3>3. answers \in Seq(Answers)
      BY DEF TypeOK
    <3>4. answers' \in Seq(Answers)
      BY <3>2, <3>3
    <3> QED
      BY <3>1, <3>4 DEF TypeOK
  <2>1. TypeOK'
    BY <2>a DEF TypeOK, ConnectionState
  <2>2. WireIds'
    BY <2>a DEF TypeOK, WireIds
  <2>3. AuthPhase'
    BY <2>a DEF TypeOK, AuthPhase, OtherPhases
  <2>4. OtherPhases'
    BY <2>a DEF TypeOK, AuthPhase, OtherPhases, ReconnectIsScheduled
  <2>5. ReconnectIsScheduled'
    BY DEF ReconnectIsScheduled
  <2>6. RepliesInOrder'
    BY <2>a DEF TypeOK, RepliesInOrder
  <2> QED
    BY <2>1, <2>2, <2>3, <2>4, <2>5, <2>6
<1>6. CASE RetryFires
  <2> USE <1>6 DEF RetryFires, clientVars, queueVars, wireVars, logVars, fateVars, boundVars
  <2>1. TypeOK'
    BY DEF TypeOK, ConnectionState
  <2>2. WireIds'
    BY DEF TypeOK, WireIds
  <2>3. AuthPhase'
    BY DEF TypeOK, AuthPhase, OtherPhases
  <2>4. OtherPhases'
    BY DEF TypeOK, AuthPhase, OtherPhases, ReconnectIsScheduled
  <2>5. ReconnectIsScheduled'
    BY DEF ReconnectIsScheduled
  <2>6. RepliesInOrder'
    BY DEF TypeOK, RepliesInOrder
  <2> QED
    BY <2>1, <2>2, <2>3, <2>4, <2>5, <2>6
<1>7. CASE TokenFetched
  <2> USE <1>7 DEF TokenFetched, clientVars, queueVars, wireVars, logVars, fateVars, boundVars
  <2>1. TypeOK'
    BY DEF TypeOK, ConnectionState
  <2>2. WireIds'
    BY DEF TypeOK, WireIds
  <2>3. AuthPhase'
    BY DEF TypeOK, AuthPhase, OtherPhases
  <2>4. OtherPhases'
    BY DEF TypeOK, AuthPhase, OtherPhases, ReconnectIsScheduled
  <2>5. ReconnectIsScheduled'
    BY DEF ReconnectIsScheduled
  <2>6. RepliesInOrder'
    BY DEF TypeOK, RepliesInOrder
  <2> QED
    BY <2>1, <2>2, <2>3, <2>4, <2>5, <2>6
<1>8. CASE OnReady
  <2> USE <1>8 DEF OnReady, clientVars, queueVars, wireVars, logVars, fateVars, boundVars
  <2>a. wire = <<>> /\ Len(wire) = 0 /\ served = 0 /\ served' = 0
    BY DEF TypeOK, OtherPhases
  <2>b. CASE token
    <3>1. /\ Request("restoreAuth", 0) \in Requests
          /\ Request("restoreAuth", 0).kind = "restoreAuth"
          /\ Request("restoreAuth", 0).reply = "none"
      BY RequestType DEF Kinds
    <3>2. /\ wire' \in Seq(Requests)
          /\ wire' # <<>>
          /\ Len(wire') = 1
          /\ wire'[1].kind = "restoreAuth"
          /\ wire'[1].reply = "none"
      <4>1. PICK r \in Requests :
              /\ r.kind = "restoreAuth"
              /\ r.reply = "none"
              /\ wire' = <<r>>
        BY <2>b, <3>1
      <4> HIDE DEF Requests
      <4> QED
        BY <4>1
    <3>3. conn' = "Authenticating" /\ sentGets' = sentGets
      BY <2>b
    <3>4. TypeOK'
      BY <2>a, <3>2, <3>3 DEF TypeOK, ConnectionState
    <3>5. (WireIds /\ AuthPhase /\ OtherPhases /\ RepliesInOrder)'
      BY <2>a, <3>2, <3>3 DEF WireIds, AuthPhase, OtherPhases, RepliesInOrder
    <3>6. ReconnectIsScheduled'
      BY <3>3 DEF ReconnectIsScheduled
    <3> QED
      BY <3>4, <3>5, <3>6
  <2>c. CASE ~token
    <3>1. conn' = "Connected" /\ RestoreState(<<>>)
      BY <2>c
    <3>2. /\ RestoredFrom(<<>>, wire')
          /\ sentGets' = sentGets \cup outstandingGets
      <4>1. <<>> \in Seq(Requests)
        BY EmptySeq
      <4> QED
        BY <3>1, <4>1, RestoredWire
    <3>3. /\ wire' \in Seq(Requests)
          /\ Len(wire') \in Nat
          /\ \A n \in 1..Len(wire') : wire'[n].reply = "none"
          /\ \A n \in 1..Len(wire') :
                \/ wire'[n].kind = "put" /\ wire'[n].id \in outstandingPuts
                \/ wire'[n].kind = "get" /\ wire'[n].id \in outstandingGets
      BY <3>2 DEF RestoredFrom
    <3>4. TypeOK'
      BY <2>a, <3>1, <3>2, <3>3 DEF TypeOK, ConnectionState
    <3>5. (WireIds /\ AuthPhase /\ OtherPhases /\ RepliesInOrder)'
      <4>1. WireIds'
        BY <2>a, <3>1, <3>3 DEF WireIds, TypeOK
      <4>2. AuthPhase' /\ OtherPhases'
        BY <2>a, <3>1, <3>3 DEF AuthPhase, OtherPhases
      <4>3. RepliesInOrder'
        BY <2>a, <3>1, <3>3 DEF RepliesInOrder, TypeOK
      <4> QED
        BY <4>1, <4>2, <4>3
    <3>6. ReconnectIsScheduled'
      BY <3>1 DEF ReconnectIsScheduled
    <3> QED
      BY <3>4, <3>5, <3>6
  <2> QED
    BY <2>b, <2>c
<1>9. CASE ServerAppliesPut
  <2> USE <1>9 DEF ServerAppliesPut, clientVars, queueVars, wireVars, logVars, fateVars, boundVars
  <2>a. NoData \in Snapshot
    BY DEF NoData, Snapshot
  <2>b. /\ wire' \in Seq(Requests)
        /\ Len(wire') = Len(wire)
        /\ Len(wire) \in Nat
        /\ served + 1 \in 1..Len(wire)
        /\ served' = served + 1
        /\ NextRequest \in Requests
        /\ \A n \in 1..Len(wire) :
              /\ wire'[n].kind = wire[n].kind
              /\ wire'[n].id = wire[n].id
              /\ n # served + 1 => wire'[n] = wire[n]
        /\ wire'[served + 1].reply # "none"
    BY <2>a, Replied
  <2>c. conn' = conn /\ puts' = puts /\ gets' = gets /\ (wire # <<>> => wire' # <<>>)
    BY <2>b DEF TypeOK
  <2>d. db' \in Snapshot
    BY <2>b DEF TypeOK, Snapshot, Requests
  <2>1. TypeOK'
    BY <2>b, <2>c, <2>d DEF TypeOK, ConnectionState
  <2>2. WireIds'
    BY <2>b, <2>c, <2>d DEF TypeOK, WireIds
  <2>3. AuthPhase'
    BY <2>b, <2>c, <2>d DEF TypeOK, AuthPhase, OtherPhases
  <2>4. OtherPhases'
    BY <2>b, <2>c, <2>d DEF TypeOK, AuthPhase, OtherPhases, ReconnectIsScheduled
  <2>5. ReconnectIsScheduled'
    BY DEF ReconnectIsScheduled
  <2>6. RepliesInOrder'
    BY <2>b, <2>c, <2>d DEF TypeOK, RepliesInOrder
  <2> QED
    BY <2>1, <2>2, <2>3, <2>4, <2>5, <2>6
<1>10. CASE ServerRejectsPut
  <2> USE <1>10 DEF ServerRejectsPut, clientVars, queueVars, wireVars, logVars, fateVars, boundVars
  <2>a. NoData \in Snapshot
    BY DEF NoData, Snapshot
  <2>b. /\ wire' \in Seq(Requests)
        /\ Len(wire') = Len(wire)
        /\ Len(wire) \in Nat
        /\ served + 1 \in 1..Len(wire)
        /\ served' = served + 1
        /\ NextRequest \in Requests
        /\ \A n \in 1..Len(wire) :
              /\ wire'[n].kind = wire[n].kind
              /\ wire'[n].id = wire[n].id
              /\ n # served + 1 => wire'[n] = wire[n]
        /\ wire'[served + 1].reply # "none"
    <3>1. Reply("error", NoData) /\ served < Len(wire)
      OBVIOUS
    <3> QED
      BY <2>a, <3>1, Replied
  <2>c. conn' = conn /\ puts' = puts /\ gets' = gets /\ (wire # <<>> => wire' # <<>>)
    BY <2>b DEF TypeOK
  <2>d. rejected' \subseteq 1..Len(puts)
    <3>1. NextRequest.id \in 1..Len(puts)
      BY <2>b DEF WireIds, NextRequest
    <3> QED
      BY <3>1 DEF TypeOK
  <2>1. TypeOK'
    BY <2>b, <2>c, <2>d DEF TypeOK, ConnectionState
  <2>2. WireIds'
    BY <2>b, <2>c, <2>d DEF TypeOK, WireIds
  <2>3. AuthPhase'
    <3>1. conn = "Authenticating" => wire # <<>> /\ 1 \in 1..Len(wire)
      BY <2>b DEF AuthPhase
    <3>2. \A n \in 2..Len(wire) : n \in 1..Len(wire)
      BY <2>b
    <3> QED
      BY <2>b, <2>c, <3>1, <3>2 DEF AuthPhase
  <2>4. OtherPhases'
    BY <2>b, <2>c, <2>d DEF TypeOK, AuthPhase, OtherPhases, ReconnectIsScheduled
  <2>5. ReconnectIsScheduled'
    BY DEF ReconnectIsScheduled
  <2>6. RepliesInOrder'
    BY <2>b, <2>c, <2>d DEF TypeOK, RepliesInOrder
  <2> QED
    BY <2>1, <2>2, <2>3, <2>4, <2>5, <2>6
<1>11. CASE ServerAnswersGet
  <2> USE <1>11 DEF ServerAnswersGet, clientVars, queueVars, wireVars, logVars, fateVars, boundVars
  <2>a. NoData \in Snapshot
    BY DEF NoData, Snapshot
  <2>b. /\ wire' \in Seq(Requests)
        /\ Len(wire') = Len(wire)
        /\ Len(wire) \in Nat
        /\ served + 1 \in 1..Len(wire)
        /\ served' = served + 1
        /\ NextRequest \in Requests
        /\ \A n \in 1..Len(wire) :
              /\ wire'[n].kind = wire[n].kind
              /\ wire'[n].id = wire[n].id
              /\ n # served + 1 => wire'[n] = wire[n]
        /\ wire'[served + 1].reply # "none"
    <3>1. PICK status \in {"ok", "error"}, data \in Snapshot :
            Reply(status, data)
      BY <2>a DEF TypeOK
    <3> QED
      BY <3>1, Replied
  <2>c. conn' = conn /\ puts' = puts /\ gets' = gets /\ (wire # <<>> => wire' # <<>>)
    BY <2>b DEF TypeOK
  <2>1. TypeOK'
    BY <2>b, <2>c DEF TypeOK, ConnectionState
  <2>2. WireIds'
    BY <2>b, <2>c DEF TypeOK, WireIds
  <2>3. AuthPhase'
    BY <2>b, <2>c DEF TypeOK, AuthPhase, OtherPhases
  <2>4. OtherPhases'
    BY <2>b, <2>c DEF TypeOK, AuthPhase, OtherPhases, ReconnectIsScheduled
  <2>5. ReconnectIsScheduled'
    BY DEF ReconnectIsScheduled
  <2>6. RepliesInOrder'
    BY <2>b, <2>c DEF TypeOK, RepliesInOrder
  <2> QED
    BY <2>1, <2>2, <2>3, <2>4, <2>5, <2>6
<1>12. CASE ServerAnswersAuth
  <2> USE <1>12 DEF ServerAnswersAuth, clientVars, queueVars, wireVars, logVars, fateVars, boundVars
  <2>a. NoData \in Snapshot
    BY DEF NoData, Snapshot
  <2>b. /\ wire' \in Seq(Requests)
        /\ Len(wire') = Len(wire)
        /\ Len(wire) \in Nat
        /\ served + 1 \in 1..Len(wire)
        /\ served' = served + 1
        /\ NextRequest \in Requests
        /\ \A n \in 1..Len(wire) :
              /\ wire'[n].kind = wire[n].kind
              /\ wire'[n].id = wire[n].id
              /\ n # served + 1 => wire'[n] = wire[n]
        /\ wire'[served + 1].reply # "none"
    <3>1. PICK status \in {"ok", "error"} : Reply(status, NoData)
      OBVIOUS
    <3> QED
      BY <2>a, <3>1, Replied
  <2>c. conn' = conn /\ puts' = puts /\ gets' = gets /\ (wire # <<>> => wire' # <<>>)
    BY <2>b DEF TypeOK
  <2>1. TypeOK'
    <3>1. served' \in 0..Len(wire') /\ faults' \in Nat
      BY <2>b DEF TypeOK
    <3> QED
      BY <2>b, <3>1 DEF TypeOK
  <2>2. WireIds'
    BY <2>b, <2>c DEF TypeOK, WireIds
  <2>3. AuthPhase'
    BY <2>b, <2>c DEF TypeOK, AuthPhase, OtherPhases
  <2>4. OtherPhases'
    BY <2>b, <2>c DEF TypeOK, AuthPhase, OtherPhases, ReconnectIsScheduled
  <2>5. ReconnectIsScheduled'
    BY DEF ReconnectIsScheduled
  <2>6. RepliesInOrder'
    BY <2>b, <2>c DEF TypeOK, RepliesInOrder
  <2> QED
    BY <2>1, <2>2, <2>3, <2>4, <2>5, <2>6
<1>13. CASE AuthAccepted
  <2> USE <1>13 DEF AuthAccepted, clientVars, queueVars, wireVars, logVars, fateVars, boundVars, Consume
  <2>a. /\ wire \in Seq(Requests)
        /\ Len(wire) \in Nat \ {0}
        /\ Response = wire[1]
        /\ Response \in Requests
        /\ Tail(wire) \in Seq(Requests)
        /\ Len(Tail(wire)) = Len(wire) - 1
        /\ \A n \in 1..Len(Tail(wire)) : Tail(wire)[n] = wire[n + 1]
        /\ conn \in {"Authenticating", "Connected"}
        /\ served \in 1..Len(wire)
    BY AnswerArrived
  <2>b. CASE Response.kind = "restoreAuth"
    <3>1. conn' = "Connected" /\ RestoreState(Tail(wire)) /\ served' = served - 1
      BY <2>b
    <3>2. \A n \in 1..Len(Tail(wire)) : Tail(wire)[n].kind \in {"auth", "unauth"}
      BY <2>a, <2>b DEF AuthPhase, OtherPhases
    <3>3. /\ RestoredFrom(Tail(wire), wire')
          /\ sentGets' = sentGets \cup outstandingGets
      BY <2>a, <3>1, RestoredWire
    <3>4. /\ wire' \in Seq(Requests)
          /\ Len(wire') \in Nat
          /\ Len(Tail(wire)) <= Len(wire')
          /\ \A n \in 1..Len(Tail(wire)) : wire'[n] = Tail(wire)[n]
          /\ \A n \in 1..Len(wire') :
                n > Len(Tail(wire)) => wire'[n].reply = "none"
          /\ \A n \in 1..Len(wire') :
                \/ wire'[n].kind \in {"auth", "unauth"}
                \/ wire'[n].kind = "put" /\ wire'[n].id \in outstandingPuts
                \/ wire'[n].kind = "get" /\ wire'[n].id \in outstandingGets
      BY <2>a, <3>2, <3>3 DEF RestoredFrom
    <3>5. TypeOK'
      BY <2>a, <3>1, <3>3, <3>4 DEF TypeOK, ConnectionState
    <3>6. (WireIds /\ AuthPhase /\ OtherPhases /\ RepliesInOrder)'
      <4>1. WireIds'
        BY <2>a, <3>1, <3>4 DEF WireIds, TypeOK
      <4>2. AuthPhase' /\ OtherPhases'
        BY <2>a, <3>1, <3>4 DEF AuthPhase, OtherPhases
      <4>3. RepliesInOrder'
        <5>1. ASSUME NEW n \in 1..Len(wire'), n <= Len(Tail(wire))
              PROVE  wire'[n].reply = "none" <=> n > served - 1
          <6>1. n \in 1..Len(Tail(wire)) /\ n + 1 \in 1..Len(wire)
            BY <2>a, <5>1
          <6>2. wire'[n] = wire[n + 1]
            BY <2>a, <3>4, <6>1
          <6>3. wire[n + 1].reply = "none" <=> n + 1 > served
            BY <6>1 DEF RepliesInOrder
          <6> QED
            BY <2>a, <6>1, <6>2, <6>3
        <5>2. ASSUME NEW n \in 1..Len(wire'), n > Len(Tail(wire))
              PROVE  wire'[n].reply = "none" <=> n > served - 1
          BY <2>a, <3>4, <5>2
        <5> QED
          BY <2>a, <3>1, <3>4, <5>1, <5>2 DEF RepliesInOrder
      <4> QED
        BY <4>1, <4>2, <4>3
    <3>7. ReconnectIsScheduled'
      BY <2>a, <3>1 DEF ReconnectIsScheduled
    <3> QED
      BY <3>5, <3>6, <3>7
  <2>c. CASE Response.kind = "auth"
    <3>1. /\ conn' = "Connected"
          /\ wire' = Tail(wire)
          /\ sentGets' = sentGets
          /\ served' = served - 1
      BY <2>c
    <3>2. conn = "Connected"
      BY <2>a, <2>c DEF AuthPhase
    <3>3. TypeOK'
      BY <2>a, <3>1 DEF TypeOK, ConnectionState
    <3>4. (WireIds /\ AuthPhase /\ OtherPhases /\ RepliesInOrder)'
      BY <2>a, <3>1, <3>2 DEF WireIds, AuthPhase, OtherPhases, RepliesInOrder
    <3>5. ReconnectIsScheduled'
      BY <2>a, <3>1 DEF ReconnectIsScheduled
    <3> QED
      BY <3>3, <3>4, <3>5
  <2> QED
    BY <2>b, <2>c
<1>14. CASE AuthRefused
  <2> USE <1>14 DEF AuthRefused, clientVars, queueVars, wireVars, logVars, fateVars, boundVars, OnDisconnect, Consume
  <2>a. wire' = <<>> /\ Len(wire') = 0 /\ served' = 0 /\ conn' = "Disconnected"
    BY DEF OnDisconnect
  <2>1. TypeOK'
    <3>1. /\ token' \in BOOLEAN
          /\ interrupted' \in BOOLEAN
          /\ retryScheduled' \in BOOLEAN
      BY DEF TypeOK
    <3>2. /\ conn' \in ConnectionState
          /\ wire' \in Seq(Requests)
          /\ served' \in 0..Len(wire')
      BY <2>a DEF TypeOK, ConnectionState
    <3> QED
      BY <3>1, <3>2 DEF TypeOK
  <2>2. WireIds'
    BY <2>a DEF TypeOK, WireIds
  <2>3. AuthPhase'
    BY <2>a DEF TypeOK, AuthPhase, OtherPhases
  <2>4. OtherPhases'
    BY <2>a DEF TypeOK, AuthPhase, OtherPhases, ReconnectIsScheduled
  <2>5. ReconnectIsScheduled'
    BY <2>a DEF ReconnectIsScheduled
  <2>6. RepliesInOrder'
    BY <2>a DEF TypeOK, RepliesInOrder
  <2> QED
    BY <2>1, <2>2, <2>3, <2>4, <2>5, <2>6
<1>15. CASE UnauthAnswered
  <2> USE <1>15 DEF UnauthAnswered, clientVars, queueVars, wireVars, logVars, fateVars, boundVars, Consume
  <2>a. /\ wire \in Seq(Requests)
        /\ Len(wire) \in Nat \ {0}
        /\ Response = wire[1]
        /\ Response \in Requests
        /\ Tail(wire) \in Seq(Requests)
        /\ Len(Tail(wire)) = Len(wire) - 1
        /\ \A n \in 1..Len(Tail(wire)) : Tail(wire)[n] = wire[n + 1]
        /\ conn \in {"Authenticating", "Connected"}
        /\ served \in 1..Len(wire)
    BY AnswerArrived
  <2>1. TypeOK'
    BY <2>a DEF TypeOK, ConnectionState
  <2>2. WireIds'
    BY <2>a DEF TypeOK, WireIds
  <2>3. AuthPhase'
    BY <2>a DEF TypeOK, AuthPhase, OtherPhases
  <2>4. OtherPhases'
    BY <2>a DEF TypeOK, AuthPhase, OtherPhases, ReconnectIsScheduled
  <2>5. ReconnectIsScheduled'
    BY DEF ReconnectIsScheduled
  <2>6. RepliesInOrder'
    BY <2>a DEF TypeOK, RepliesInOrder
  <2> QED
    BY <2>1, <2>2, <2>3, <2>4, <2>5, <2>6
<1>16. CASE PutAnswered
  <2> USE <1>16 DEF PutAnswered, clientVars, queueVars, wireVars, logVars, fateVars, boundVars, Consume
  <2>a. /\ wire \in Seq(Requests)
        /\ Len(wire) \in Nat \ {0}
        /\ Response = wire[1]
        /\ Response \in Requests
        /\ Tail(wire) \in Seq(Requests)
        /\ Len(Tail(wire)) = Len(wire) - 1
        /\ \A n \in 1..Len(Tail(wire)) : Tail(wire)[n] = wire[n + 1]
        /\ conn \in {"Authenticating", "Connected"}
        /\ served \in 1..Len(wire)
    BY AnswerArrived
  <2>1. TypeOK'
    <3>1. /\ wire' \in Seq(Requests)
          /\ served' \in 0..Len(wire')
      BY <2>a
    <3>2. outstandingPuts' \subseteq 1..Len(puts)
      BY DEF TypeOK
    <3> QED
      BY <3>1, <3>2 DEF TypeOK
  <2>2. WireIds'
    BY <2>a DEF TypeOK, WireIds
  <2>3. AuthPhase'
    BY <2>a DEF TypeOK, AuthPhase, OtherPhases
  <2>4. OtherPhases'
    BY <2>a DEF TypeOK, AuthPhase, OtherPhases, ReconnectIsScheduled
  <2>5. ReconnectIsScheduled'
    BY DEF ReconnectIsScheduled
  <2>6. RepliesInOrder'
    BY <2>a DEF TypeOK, RepliesInOrder
  <2> QED
    BY <2>1, <2>2, <2>3, <2>4, <2>5, <2>6
<1>17. CASE GetAnswered
  <2> USE <1>17 DEF GetAnswered, clientVars, queueVars, wireVars, logVars, fateVars, boundVars, Consume
  <2>a. /\ wire \in Seq(Requests)
        /\ Len(wire) \in Nat \ {0}
        /\ Response = wire[1]
        /\ Response \in Requests
        /\ Tail(wire) \in Seq(Requests)
        /\ Len(Tail(wire)) = Len(wire) - 1
        /\ \A n \in 1..Len(Tail(wire)) : Tail(wire)[n] = wire[n + 1]
        /\ conn \in {"Authenticating", "Connected"}
        /\ served \in 1..Len(wire)
    BY AnswerArrived
  <2>b. /\ outstandingGets' \subseteq 1..Len(gets)
        /\ answers' \in Seq(Answers)
    <3>1. CASE Response.id \in outstandingGets
      <4>1. Response.id \in Nat /\ Response.snap \in Snapshot
        BY <2>a DEF Requests
      <4>2. Response.reply \in {"ok", "error"}
        BY <2>a DEF Requests, RepliesInOrder, TypeOK
      <4>3. [get |-> Response.id, status |-> Response.reply, snap |-> Response.snap]
              \in Answers
        BY <4>1, <4>2 DEF Answers
      <4>4. answers \in Seq(Answers)
        BY DEF TypeOK
      <4>5. outstandingGets' \subseteq 1..Len(gets)
        BY <3>1 DEF TypeOK
      <4> QED
        BY <3>1, <4>3, <4>4, <4>5
    <3>2. CASE Response.id \notin outstandingGets
      BY <3>2 DEF TypeOK
    <3> QED
      BY <3>1, <3>2
  <2>1. TypeOK'
    BY <2>a, <2>b DEF TypeOK, ConnectionState
  <2>2. WireIds'
    BY <2>a, <2>b DEF TypeOK, WireIds
  <2>3. AuthPhase'
    BY <2>a, <2>b DEF TypeOK, AuthPhase, OtherPhases
  <2>4. OtherPhases'
    BY <2>a, <2>b DEF TypeOK, AuthPhase, OtherPhases, ReconnectIsScheduled
  <2>5. ReconnectIsScheduled'
    BY DEF ReconnectIsScheduled
  <2>6. RepliesInOrder'
    BY <2>a, <2>b DEF TypeOK, RepliesInOrder
  <2> QED
    BY <2>1, <2>2, <2>3, <2>4, <2>5, <2>6
<1>18. CASE TokenFails
  <2> USE <1>18 DEF TokenFails, clientVars, queueVars, wireVars, logVars, fateVars, boundVars
  <2>1. TypeOK'
    BY DEF TypeOK, ConnectionState
  <2>2. WireIds'
    BY DEF TypeOK, WireIds
  <2>3. AuthPhase'
    BY DEF TypeOK, AuthPhase, OtherPhases
  <2>4. OtherPhases'
    BY DEF TypeOK, AuthPhase, OtherPhases, ReconnectIsScheduled
  <2>5. ReconnectIsScheduled'
    BY DEF ReconnectIsScheduled
  <2>6. RepliesInOrder'
    BY DEF TypeOK, RepliesInOrder
  <2> QED
    BY <2>1, <2>2, <2>3, <2>4, <2>5, <2>6
<1>19. CASE ConnectionLost
  <2> USE <1>19 DEF ConnectionLost, clientVars, queueVars, wireVars, logVars, fateVars, boundVars, OnDisconnect
  <2>a. wire' = <<>> /\ Len(wire') = 0 /\ served' = 0 /\ conn' = "Disconnected"
    BY DEF OnDisconnect
  <2>1. TypeOK'
    <3>1. /\ token' \in BOOLEAN
          /\ interrupted' \in BOOLEAN
          /\ retryScheduled' \in BOOLEAN
      BY DEF TypeOK
    <3>2. /\ conn' \in ConnectionState
          /\ wire' \in Seq(Requests)
          /\ served' \in 0..Len(wire')
      BY <2>a DEF TypeOK, ConnectionState
    <3> QED
      BY <3>1, <3>2 DEF TypeOK
  <2>2. WireIds'
    BY <2>a DEF TypeOK, WireIds
  <2>3. AuthPhase'
    BY <2>a DEF TypeOK, AuthPhase, OtherPhases
  <2>4. OtherPhases'
    BY <2>a DEF TypeOK, AuthPhase, OtherPhases, ReconnectIsScheduled
  <2>5. ReconnectIsScheduled'
    BY <2>a DEF ReconnectIsScheduled
  <2>6. RepliesInOrder'
    BY <2>a DEF TypeOK, RepliesInOrder
  <2> QED
    BY <2>1, <2>2, <2>3, <2>4, <2>5, <2>6
<1>20. CASE AuthRevoked
  <2> USE <1>20 DEF AuthRevoked, clientVars, queueVars, wireVars, logVars, fateVars, boundVars, OnDisconnect
  <2>a. wire' = <<>> /\ Len(wire') = 0 /\ served' = 0 /\ conn' = "Disconnected"
    BY DEF OnDisconnect
  <2>1. TypeOK'
    <3>1. /\ token' \in BOOLEAN
          /\ interrupted' \in BOOLEAN
          /\ retryScheduled' \in BOOLEAN
      BY DEF TypeOK
    <3>2. /\ conn' \in ConnectionState
          /\ wire' \in Seq(Requests)
          /\ served' \in 0..Len(wire')
      BY <2>a DEF TypeOK, ConnectionState
    <3> QED
      BY <3>1, <3>2 DEF TypeOK
  <2>2. WireIds'
    BY <2>a DEF TypeOK, WireIds
  <2>3. AuthPhase'
    BY <2>a DEF TypeOK, AuthPhase, OtherPhases
  <2>4. OtherPhases'
    BY <2>a DEF TypeOK, AuthPhase, OtherPhases, ReconnectIsScheduled
  <2>5. ReconnectIsScheduled'
    BY <2>a DEF ReconnectIsScheduled
  <2>6. RepliesInOrder'
    BY <2>a DEF TypeOK, RepliesInOrder
  <2> QED
    BY <2>1, <2>2, <2>3, <2>4, <2>5, <2>6
<1>21. CASE OnKill
  <2> USE <1>21 DEF OnKill, clientVars, queueVars, wireVars, logVars, fateVars, boundVars, OnDisconnect
  <2>a. wire' = <<>> /\ Len(wire') = 0 /\ served' = 0 /\ conn' = "Disconnected"
    BY DEF OnDisconnect
  <2>1. TypeOK'
    <3>1. /\ token' \in BOOLEAN
          /\ interrupted' \in BOOLEAN
          /\ retryScheduled' \in BOOLEAN
      BY DEF TypeOK
    <3>2. /\ conn' \in ConnectionState
          /\ wire' \in Seq(Requests)
          /\ served' \in 0..Len(wire')
      BY <2>a DEF TypeOK, ConnectionState
    <3> QED
      BY <3>1, <3>2 DEF TypeOK
  <2>2. WireIds'
    BY <2>a DEF TypeOK, WireIds
  <2>3. AuthPhase'
    BY <2>a DEF TypeOK, AuthPhase, OtherPhases
  <2>4. OtherPhases'
    BY <2>a DEF TypeOK, AuthPhase, OtherPhases, ReconnectIsScheduled
  <2>5. ReconnectIsScheduled'
    BY <2>a DEF ReconnectIsScheduled
  <2>6. RepliesInOrder'
    BY <2>a DEF TypeOK, RepliesInOrder
  <2> QED
    BY <2>1, <2>2, <2>3, <2>4, <2>5, <2>6
<1>22. CASE ProcessRestarts
  <2> USE <1>22 DEF ProcessRestarts, clientVars, queueVars, wireVars, logVars, fateVars, boundVars, OnDisconnect
  <2>a. wire' = <<>> /\ Len(wire') = 0 /\ served' = 0 /\ conn' = "Disconnected"
    BY DEF OnDisconnect
  <2>1. TypeOK'
    <3>1. /\ token' \in BOOLEAN
          /\ interrupted' \in BOOLEAN
          /\ retryScheduled' \in BOOLEAN
      BY DEF TypeOK
    <3>2. /\ conn' \in ConnectionState
          /\ wire' \in Seq(Requests)
          /\ served' \in 0..Len(wire')
      BY <2>a DEF TypeOK, ConnectionState
    <3> QED
      BY <3>1, <3>2 DEF TypeOK
  <2>2. WireIds'
    BY <2>a DEF TypeOK, WireIds
  <2>3. AuthPhase'
    BY <2>a DEF TypeOK, AuthPhase, OtherPhases
  <2>4. OtherPhases'
    BY <2>a DEF TypeOK, AuthPhase, OtherPhases, ReconnectIsScheduled
  <2>5. ReconnectIsScheduled'
    BY <2>a DEF ReconnectIsScheduled
  <2>6. RepliesInOrder'
    BY <2>a DEF TypeOK, RepliesInOrder
  <2> QED
    BY <2>1, <2>2, <2>3, <2>4, <2>5, <2>6
<1>23. CASE UNCHANGED vars
  <2> USE <1>23 DEF vars
  <2>1. TypeOK'
    BY DEF TypeOK
  <2>2. (WireIds /\ AuthPhase /\ OtherPhases /\ RepliesInOrder /\ ReconnectIsScheduled)'
    BY DEF WireIds, AuthPhase, OtherPhases, RepliesInOrder, ReconnectIsScheduled
  <2> QED
    BY <2>1, <2>2
<1> QED
  BY <1>1, <1>2, <1>3, <1>4, <1>5, <1>6, <1>7, <1>8, <1>9, <1>10, <1>11, <1>12, <1>13, <1>14, <1>15, <1>16, <1>17, <1>18, <1>19, <1>20, <1>21, <1>22, <1>23
  DEF Next, App, Timer, Server, OnDataMessage, Failure

\* Every reachable state is well typed.
THEOREM TypeCorrect == Spec => []TypeOK
<1>1. Spec => []TypeInv
  BY TypeInvInit, TypeInvNext, PTL DEF Spec
<1>2. TypeInv => TypeOK
  BY DEF TypeInv
<1> QED
  BY <1>1, <1>2, PTL

\* A client that is neither connecting nor stopped has an attempt scheduled.
THEOREM NeverStuck == Spec => []ReconnectIsScheduled
<1>1. Spec => []TypeInv
  BY TypeInvInit, TypeInvNext, PTL DEF Spec
<1>2. TypeInv => ReconnectIsScheduled
  BY DEF TypeInv
<1> QED
  BY <1>1, <1>2, PTL

\* Writes and reads are sent on a ready connection only, and the answer that
\* runs restoreState is the first to arrive on one that authenticates.
THEOREM DataAfterAuth == Spec => []AuthenticatesBeforeData
<1>1. Spec => []TypeInv
  BY TypeInvInit, TypeInvNext, PTL DEF Spec
<1>2. TypeInv => AuthenticatesBeforeData
  <2> SUFFICES ASSUME TypeInv PROVE AuthenticatesBeforeData
    OBVIOUS
  <2>1. wire \in Seq(Requests) /\ conn \in ConnectionState
    BY DEF TypeInv, TypeOK
  <2>2. ASSUME NEW n \in 1..Len(wire), wire[n].kind \in {"put", "get"}
        PROVE  conn = "Connected"
    <3>1. wire # <<>>
      BY <2>1
    <3>2. conn \in {"Authenticating", "Connected"}
      BY <2>1, <3>1 DEF TypeInv, OtherPhases, ConnectionState
    <3>3. CASE conn = "Authenticating"
      <4>1. n = 1 \/ n \in 2..Len(wire)
        BY <2>1
      <4> QED
        BY <2>2, <3>3, <4>1 DEF TypeInv, AuthPhase
    <3> QED
      BY <3>2, <3>3
  <2>3. conn = "Authenticating" => wire # <<>> /\ Response.kind = "restoreAuth"
    BY <2>1 DEF TypeInv, AuthPhase, Response
  <2> QED
    BY <2>2, <2>3 DEF AuthenticatesBeforeData
<1> QED
  BY <1>1, <1>2, PTL

=============================================================================
