---------------------------- MODULE SessionProofs ----------------------------
(***************************************************************************)
(* The app as a whole, for any users, screens, saves, failures and restarts: *)
(* whose screens are in front, whose token a connection carries, which       *)
(* writes are refused, what the reads behind a screen have seen, and whether *)
(* the records of Users follow the accounts.                                 *)
(***************************************************************************)
EXTENDS Session, FiniteSetTheorems, SequenceTheorems, WellFoundedInduction,
        TLAPS

-----------------------------------------------------------------------------
(* Types                                                                   *)

Uids == Users \cup {NoUser}
Phases == {"idle", "disconnected", "gettingToken", "connecting", "authenticating", "connected"}
Done == {"signIn", "createUser", "delete"}

Screens ==
  [kind : Kinds, id : Nat, uid : Uids, session : Nat, about : Nat \cup {None}, asOf : Nat,
   found : {None} \cup Nat \cup SUBSET Days]
Blocks ==
  [kind : {"token"}, id : {0}]
    \cup [kind : {"notify"}, id : {0}, user : Uids, session : Nat]
    \cup [kind : Done, id : Nat, user : Users]
CallSet == [kind : Done, id : Nat, user : Users, session : Nat]
Posts == [id : Nat, save : Nat]
Puts ==
  [path : {"diary"}, uid : Users, day : Days, value : Nat, session : Nat, own : BOOLEAN]
    \cup [path : {"Users"}, uid : Users, day : {None}, value : Users \cup {None}, session : Nat,
          own : BOOLEAN]
ReadSet == [id : Nat, uid : Users, for : {"image", "calendar"}]
Requests == [kind : {"put"}, put : Puts] \cup [kind : {"auth"}, user : Uids] \cup [kind : {"get"}, id : Nat]
Tokens == [user : Uids, session : Nat]

AppTyped ==
  /\ up \in {"running", "trapped", "dead"}
  /\ stack \in Seq(Screens)
  /\ currentUser \in Uids /\ session \in Nat
  /\ calls \subseteq CallSet /\ main \in Seq(Blocks) /\ posts \subseteq Posts
  /\ today \in Days
  /\ address \in BOOLEAN /\ strayed \in BOOLEAN /\ hurried \in BOOLEAN /\ overtaken \in BOOLEAN
  /\ used \in [Events -> Nat]

ClientTyped ==
  /\ conn \in Phases
  /\ fetch \in Fetches \cup {None} /\ (fetch # None) = (conn = "gettingToken")
  /\ authToken \in Tokens /\ cred \in Uids
  /\ puts \in Seq(Puts) /\ reads \in Seq(ReadSet) /\ wire \in Seq(Requests)

ServerTyped ==
  /\ accounts \subseteq Users /\ records \subseteq Users /\ gone \subseteq Users
  /\ diaries \in [Users -> [Days -> Nat \cup {None}]]

\* What is on the stack: the login screen at the bottom, diaries of days that
\* have come, and only what the read of its kind of screen finds.
ScreensFit ==
  /\ up # "dead" => stack # <<>> /\ stack[1].kind = "login"
  /\ \A i \in 1..Len(stack) :
       /\ stack[i].kind = "diary" => stack[i].about \in 1..today
       /\ stack[i].kind = "image" => stack[i].about \in Nat
       /\ stack[i].found # None => IF stack[i].kind = "calendar" THEN stack[i].found \subseteq Days
                                                                 ELSE stack[i].found \in Nat

\* Screens that unwrap their uid when they load have one, or the app has stopped.
LoadedHaveUsers ==
  up = "running" => \A i \in 1..Len(stack) :
     stack[i].kind \notin {"login", "register", "plus"} => stack[i].uid \in Users

\* A process that has ended leaves nothing behind.
NothingLeft ==
  up = "dead" =>
    /\ stack = <<>> /\ calls = {} /\ main = <<>> /\ posts = {}
    /\ conn = "idle" /\ authToken = [user |-> NoUser, session |-> 0]
    /\ puts = <<>> /\ reads = <<>> /\ ~overtaken

\* Without a connection nothing is on its way; until it is authenticated, only
\* credentials are.
WireFits ==
  /\ conn \notin {"authenticating", "connected"} => wire = <<>> /\ cred = NoUser
  /\ conn = "authenticating" => wire # <<>> /\ \A m \in 1..Len(wire) : wire[m].kind = "auth"

\* Screens have different ids, and requests keep the id of their screen.
IdsFit ==
  /\ \A i, j \in 1..Len(stack) : stack[i].id = stack[j].id => i = j
  /\ \A p \in posts, i \in 1..Len(stack) : stack[i].id = p.id => stack[i].kind = "plus"
  /\ \A k \in 1..Len(reads), i \in 1..Len(stack) :
       stack[i].id = reads[k].id => stack[i].kind = reads[k].for /\ stack[i].uid = reads[k].uid
  /\ \A j, k \in 1..Len(reads) : reads[j].id = reads[k].id => j = k

IdsBelow(b) ==
  /\ \A i \in 1..Len(stack) : stack[i].id <= b
  /\ \A i \in 1..Len(reads) : reads[i].id <= b
  /\ \A i \in 1..Len(main) : main[i].id <= b
  /\ \A c \in calls : c.id <= b
  /\ \A p \in posts : p.id <= b

IdsBounded == \E b \in Nat : IdsBelow(b)

TypeInv ==
  /\ AppTyped /\ ClientTyped /\ ServerTyped
  /\ ScreensFit /\ LoadedHaveUsers /\ NothingLeft /\ WireFits /\ IdsFit /\ IdsBounded

\* The invariant implies the one that is checked.
LEMMA TypeInvIsTypeOK == TypeInv => TypeOK
<1> SUFFICES ASSUME TypeInv PROVE TypeOK
  OBVIOUS
<1> USE DEF TypeInv
<1>1. \A i \in DOMAIN stack : IsScreen(stack[i])
  <2> SUFFICES ASSUME NEW i \in 1..Len(stack) PROVE IsScreen(stack[i])
    BY DEF AppTyped
  <2>1. stack[i] \in Screens
    BY DEF AppTyped
  <2> QED
    BY <2>1 DEF ScreensFit, IsScreen, Screens, Kinds, Uids
<1>2. \A p \in Range(puts) : p.uid \in Users /\ p.path \in {"Users", "diary"}
  <2> SUFFICES ASSUME NEW k \in 1..Len(puts)
               PROVE  puts[k].uid \in Users /\ puts[k].path \in {"Users", "diary"}
    BY DEF Range, ClientTyped
  <2>1. puts[k] \in Puts
    BY DEF ClientTyped
  <2> QED
    BY <2>1 DEF Puts
<1>3. \A r \in Range(reads) : r.uid \in Users
  <2> SUFFICES ASSUME NEW k \in 1..Len(reads) PROVE reads[k].uid \in Users
    BY DEF Range, ClientTyped
  <2>1. reads[k] \in ReadSet
    BY DEF ClientTyped
  <2> QED
    BY <2>1 DEF ReadSet
<1>4. {authToken.user, cred} \subseteq Users \cup {NoUser}
  BY DEF ClientTyped, Tokens, Uids
<1> QED
  BY <1>1, <1>2, <1>3, <1>4
  DEF TypeOK, AppTyped, ClientTyped, ServerTyped, ScreensFit, WireFits, Phases, Uids

-----------------------------------------------------------------------------
(* Lemmas about the operators                                              *)

\* A set of naturals with a bound has a greatest element: the gaps below the
\* bound have a least.
LEMMA GreatestExists ==
  ASSUME NEW b \in Nat, NEW S \in SUBSET (0..b), S # {}
  PROVE  Max(S) \in S /\ \A k \in S : k <= Max(S)
<1> DEFINE T == {b - k : k \in S}
<1>1. T \subseteq Nat /\ T # {}
  <2>1. \A k \in S : b - k \in Nat
    OBVIOUS
  <2>2. PICK k : k \in S
    OBVIOUS
  <2> QED
    BY <2>1, <2>2
<1>2. PICK m \in T : \A k \in T : ~(<<k, m>> \in OpToRel(<, Nat))
  BY <1>1, WFMin, NatLessThanWellFounded
<1>3. \A k \in T : ~(k < m)
  BY <1>1, <1>2 DEF OpToRel
<1>4. PICK j \in S : m = b - j
  OBVIOUS
<1>5. ASSUME NEW k \in S PROVE j >= k
  <2>1. b - k \in T
    OBVIOUS
  <2>2. ~(b - k < b - j)
    BY <1>3, <1>4, <2>1
  <2> QED
    BY <2>2
<1>6. \E x \in S : \A k \in S : x >= k
  BY <1>5
<1> QED
  BY <1>6 DEF Max

\* The id of a new view controller is above those of all that are still there.
LEMMA FreshIdIsNew ==
  ASSUME TypeInv
  PROVE  /\ FreshId \in Nat \ {0}
         /\ \A i \in 1..Len(stack) : stack[i].id \in Nat /\ stack[i].id < FreshId
         /\ \A i \in 1..Len(reads) : reads[i].id \in Nat /\ reads[i].id < FreshId
         /\ \A i \in 1..Len(main) : main[i].id \in Nat /\ main[i].id < FreshId
         /\ \A c \in calls : c.id \in Nat /\ c.id < FreshId
         /\ \A p \in posts : p.id \in Nat /\ p.id < FreshId
<1> DEFINE taken == Ids(Range(stack) \cup calls \cup posts \cup Range(reads) \cup Range(main))
<1> USE DEF TypeInv
<1>1. PICK b \in Nat : IdsBelow(b)
  BY DEF IdsBounded
<1>2. /\ \A i \in 1..Len(stack) : stack[i].id \in Nat /\ stack[i].id \in taken
      /\ \A i \in 1..Len(reads) : reads[i].id \in Nat /\ reads[i].id \in taken
      /\ \A i \in 1..Len(main) : main[i].id \in Nat /\ main[i].id \in taken
      /\ \A c \in calls : c.id \in Nat /\ c.id \in taken
      /\ \A p \in posts : p.id \in Nat /\ p.id \in taken
  <2>1. ASSUME NEW i \in 1..Len(stack) PROVE stack[i].id \in Nat /\ stack[i].id \in taken
    <3>1. stack[i] \in Screens /\ stack[i] \in Range(stack)
      BY DEF AppTyped, Range
    <3> QED
      BY <3>1 DEF Screens, Ids
  <2>2. ASSUME NEW i \in 1..Len(reads) PROVE reads[i].id \in Nat /\ reads[i].id \in taken
    <3>1. reads[i] \in ReadSet /\ reads[i] \in Range(reads)
      BY DEF ClientTyped, Range
    <3> QED
      BY <3>1 DEF ReadSet, Ids
  <2>3. ASSUME NEW i \in 1..Len(main) PROVE main[i].id \in Nat /\ main[i].id \in taken
    <3>1. main[i] \in Blocks /\ main[i] \in Range(main)
      BY DEF AppTyped, Range
    <3> QED
      BY <3>1 DEF Blocks, Ids
  <2>4. ASSUME NEW c \in calls PROVE c.id \in Nat /\ c.id \in taken
    BY DEF AppTyped, CallSet, Ids
  <2>5. ASSUME NEW p \in posts PROVE p.id \in Nat /\ p.id \in taken
    BY DEF AppTyped, Posts, Ids
  <2> QED
    BY <2>1, <2>2, <2>3, <2>4, <2>5
<1>3. taken \in SUBSET (0..b)
  <2> SUFFICES ASSUME NEW x \in Range(stack) \cup calls \cup posts \cup Range(reads) \cup Range(main)
               PROVE  x.id \in 0..b
    BY DEF Ids
  <2>1. CASE x \in Range(stack)
    <3>1. PICK i \in 1..Len(stack) : x = stack[i]
      BY <2>1 DEF Range, AppTyped
    <3> QED
      BY <1>1, <1>2, <3>1 DEF IdsBelow
  <2>2. CASE x \in Range(reads)
    <3>1. PICK i \in 1..Len(reads) : x = reads[i]
      BY <2>2 DEF Range, ClientTyped
    <3> QED
      BY <1>1, <1>2, <3>1 DEF IdsBelow
  <2>3. CASE x \in Range(main)
    <3>1. PICK i \in 1..Len(main) : x = main[i]
      BY <2>3 DEF Range, AppTyped
    <3> QED
      BY <1>1, <1>2, <3>1 DEF IdsBelow
  <2>4. CASE x \in calls \cup posts
    BY <1>1, <1>2, <2>4 DEF IdsBelow
  <2> QED
    BY <2>1, <2>2, <2>3, <2>4
<1>4. FreshId = Max(taken \cup {0}) + 1
  BY DEF FreshId
<1> HIDE DEF taken
<1> DEFINE top == Max(taken \cup {0})
<1>5. top \in taken \cup {0} /\ \A k \in taken \cup {0} : k <= top
  <2>1. taken \cup {0} \in SUBSET (0..b) /\ taken \cup {0} # {}
    BY <1>3
  <2> QED
    BY <2>1, GreatestExists
<1> HIDE DEF top
<1>6. top \in Nat
  <2>1. top \in 0..b
    BY <1>3, <1>5
  <2> QED
    BY <2>1
<1>7. FreshId = top + 1
  BY <1>4 DEF top
<1>8. FreshId \in Nat \ {0}
  BY <1>6, <1>7
<1>9. \A k \in taken : k \in Nat => k < FreshId
  BY <1>5, <1>6, <1>7
<1> HIDE DEF TypeInv
<1> QED
  BY <1>2, <1>8, <1>9

\* An event is counted among those of its kind.
LEMMA Spends ==
  ASSUME used \in [Events -> Nat], NEW what \in Events, Spend(what)
  PROVE  /\ used' \in [Events -> Nat]
         /\ used'.save = IF what = "save" THEN used.save + 1 ELSE used.save
<1>1. used' = [used EXCEPT ![what] = @ + 1]
  BY DEF Spend
<1>2. "save" \in Events
  BY DEF Events
<1> QED
  BY <1>1, <1>2

\* What the app counts.
LEMMA Counters == ASSUME TypeInv PROVE session \in Nat /\ used.save \in Nat
BY DEF TypeInv, AppTyped, Events

\* A screen that loads.
LEMMA NewScreenFits ==
  ASSUME NEW kind \in Kinds, NEW id \in Nat, NEW user \in Uids, session \in Nat, used.save \in Nat
  PROVE  LET s == NewScreen(kind, id, user)
         IN  /\ s \in Screens
             /\ s.kind = kind /\ s.id = id /\ s.found = None /\ s.about = None
             /\ s.uid = IF kind \in {"login", "register"} THEN NoUser ELSE user
             /\ s.session = IF kind = "mypage" THEN session ELSE 0
             /\ s.asOf = IF kind = "calendar" THEN used.save ELSE 0
BY DEF NewScreen, Screens, Uids

\* Reads that go leave the others in their order.
ReadsShrink ==
  \E i \in Nat : \A k \in 1..Len(reads') :
     /\ k < i => k \in 1..Len(reads) /\ reads'[k] = reads[k]
     /\ k >= i => k + 1 \in 1..Len(reads) /\ reads'[k] = reads[k + 1]

\* What waits for the screens keeps to their ids.
CallersStay ==
  \A b \in Nat : IdsBelow(b) => /\ \A i \in 1..Len(main') : main'[i].id <= b
                                /\ \A c \in calls' : c.id <= b

\* Screens stay or are left.
ScreensStay ==
  /\ Len(stack') \in Nat /\ Len(stack') <= Len(stack)
  /\ \A i \in 1..Len(stack') :
       stack'[i].id = stack[i].id /\ stack'[i].kind = stack[i].kind /\ stack'[i].uid = stack[i].uid

\* A new screen comes, with its read.
Comes(s) ==
  /\ s \in Screens /\ s.id = FreshId /\ s.found = None
  /\ s.kind = "diary" => s.about \in 1..today
  /\ s.kind = "image" => s.about \in Nat
  /\ stack' = Append(stack, s)

ReadComes(s) ==
  /\ s.kind \in {"image", "calendar"} /\ s.uid \in Users
  /\ reads' = Append(reads, [id |-> s.id, uid |-> s.uid, for |-> s.kind])

LEMMA Elements ==
  ASSUME TypeInv
  PROVE  /\ Len(stack) \in Nat /\ Len(reads) \in Nat /\ Len(main) \in Nat
         /\ Len(puts) \in Nat /\ Len(wire) \in Nat
         /\ \A i \in 1..Len(stack) : stack[i] \in Screens
         /\ \A i \in 1..Len(reads) : reads[i] \in ReadSet
         /\ \A i \in 1..Len(main) : main[i] \in Blocks
         /\ \A i \in 1..Len(puts) : puts[i] \in Puts
         /\ \A i \in 1..Len(wire) : wire[i] \in Requests
  BY DEF TypeInv, AppTyped, ClientTyped

\* Nobody new.
LEMMA IdsStay ==
  ASSUME TypeInv, ScreensStay, posts' \subseteq posts, ReadsShrink, CallersStay
  PROVE  IdsFit' /\ IdsBounded'
<1> USE Elements
<1>1. PICK n \in Nat : \A k \in 1..Len(reads') :
         /\ k < n => k \in 1..Len(reads) /\ reads'[k] = reads[k]
         /\ k >= n => k + 1 \in 1..Len(reads) /\ reads'[k] = reads[k + 1]
  BY DEF ReadsShrink
<1>2. \A k \in 1..Len(reads') : \E j \in 1..Len(reads) : reads'[k] = reads[j]
  <2> SUFFICES ASSUME NEW k \in 1..Len(reads')
               PROVE  \E j \in 1..Len(reads) : reads'[k] = reads[j]
    OBVIOUS
  <2>1. CASE k < n
    BY <1>1, <2>1
  <2>2. CASE k >= n
    BY <1>1, <2>2
  <2> QED
    BY <2>1, <2>2
<1>3. \A i \in 1..Len(stack') : i \in 1..Len(stack)
  BY DEF ScreensStay
<1>4. \A i, j \in 1..Len(stack') : stack'[i].id = stack'[j].id => i = j
  BY <1>3 DEF ScreensStay, TypeInv, IdsFit
<1>5. \A p \in posts', i \in 1..Len(stack') : stack'[i].id = p.id => stack'[i].kind = "plus"
  BY <1>3 DEF ScreensStay, TypeInv, IdsFit
<1>6. ASSUME NEW k \in 1..Len(reads'), NEW i \in 1..Len(stack'), stack'[i].id = reads'[k].id
      PROVE  stack'[i].kind = reads'[k].for /\ stack'[i].uid = reads'[k].uid
  <2>1. PICK j \in 1..Len(reads) : reads'[k] = reads[j]
    BY <1>2
  <2>2. /\ i \in 1..Len(stack) /\ stack[i].id = reads[j].id
        /\ stack'[i].kind = stack[i].kind /\ stack'[i].uid = stack[i].uid
    BY <1>3, <1>6, <2>1 DEF ScreensStay
  <2>3. stack[i].kind = reads[j].for /\ stack[i].uid = reads[j].uid
    BY <2>2 DEF TypeInv, IdsFit
  <2> QED
    BY <2>1, <2>2, <2>3
<1>7. ASSUME NEW j \in 1..Len(reads'), NEW k \in 1..Len(reads'), reads'[j].id = reads'[k].id
      PROVE  j = k
  <2> DEFINE P(m) == IF m < n THEN m ELSE m + 1
  <2>1. ASSUME NEW l \in 1..Len(reads')
        PROVE  P(l) \in 1..Len(reads) /\ reads'[l] = reads[P(l)]
    <3>1. CASE l < n
      BY <1>1, <3>1
    <3>2. CASE ~(l < n)
      <4>1. l >= n /\ P(l) = l + 1
        BY <3>2
      <4> QED
        BY <1>1, <4>1
    <3> QED
      BY <3>1, <3>2
  <2>2. P(j) = P(k)
    <3> HIDE DEF P
    <3> QED
      BY <1>7, <2>1 DEF TypeInv, IdsFit
  <2> QED
    BY <2>2
<1>8. PICK b \in Nat : IdsBelow(b)
  BY DEF TypeInv, IdsBounded
<1>9. IdsBelow(b)'
  <2>1. \A i \in 1..Len(reads') : reads'[i].id <= b
    BY <1>2, <1>8 DEF IdsBelow
  <2>2. \A i \in 1..Len(stack') : stack'[i].id <= b
    BY <1>3, <1>8 DEF IdsBelow, ScreensStay
  <2> QED
    BY <1>8, <2>1, <2>2 DEF IdsBelow, CallersStay
<1> QED
  BY <1>4, <1>5, <1>6, <1>7, <1>9 DEF IdsFit, IdsBounded

\* One new screen.
LEMMA IdsOfNew ==
  ASSUME TypeInv, NEW s, Comes(s), posts' \subseteq posts,
         reads' = reads \/ ReadComes(s), CallersStay
  PROVE  IdsFit' /\ IdsBounded'
<1>0. PICK n, m, f : n = Len(stack) /\ m = Len(reads) /\ f = FreshId
  OBVIOUS
<1>1. /\ n \in Nat /\ m \in Nat /\ f \in Nat \ {0}
      /\ \A i \in 1..n : stack[i].id \in Nat /\ stack[i].id < f
      /\ \A i \in 1..m : reads[i].id \in Nat /\ reads[i].id < f
      /\ \A p \in posts : p.id \in Nat /\ p.id < f
  BY <1>0, Elements, FreshIdIsNew
<1>2. /\ Len(stack') = n + 1
      /\ \A i \in 1..n : stack'[i] = stack[i]
      /\ stack'[n + 1] = s /\ s.id = f
  BY <1>0 DEF Comes, TypeInv, AppTyped
<1>3. /\ \A i, j \in 1..n : stack[i].id = stack[j].id => i = j
      /\ \A p \in posts, i \in 1..n : stack[i].id = p.id => stack[i].kind = "plus"
      /\ \A k \in 1..m, i \in 1..n :
           stack[i].id = reads[k].id => stack[i].kind = reads[k].for /\ stack[i].uid = reads[k].uid
      /\ \A j, k \in 1..m : reads[j].id = reads[k].id => j = k
  BY <1>0 DEF TypeInv, IdsFit
<1>4. \/ Len(reads') = m /\ \A k \in 1..m : reads'[k] = reads[k]
      \/ /\ Len(reads') = m + 1
         /\ \A k \in 1..m : reads'[k] = reads[k]
         /\ reads'[m + 1].id = f /\ reads'[m + 1].uid = s.uid /\ reads'[m + 1].for = s.kind
  <2>1. CASE reads' = reads
    BY <1>0, <2>1
  <2>2. CASE ReadComes(s)
    BY <1>0, <1>2, <2>2 DEF ReadComes, TypeInv, ClientTyped
  <2> QED
    BY <2>1, <2>2
<1>5. IdsBelow(f)'
  <2>1. IdsBelow(f)
    BY <1>0, <1>1, FreshIdIsNew DEF IdsBelow
  <2>2. /\ \A i \in 1..Len(main') : main'[i].id <= f
        /\ \A c \in calls' : c.id <= f
    BY <1>1, <2>1 DEF CallersStay
  <2>3. \A i \in 1..Len(stack') : stack'[i].id <= f
    BY <1>1, <1>2, SMTT(40)
  <2>4. \A i \in 1..Len(reads') : reads'[i].id <= f
    BY <1>1, <1>4
  <2>5. \A p \in posts' : p.id <= f
    BY <1>1
  <2>6. \A x : IdsBelow(x)' <=> /\ \A i \in 1..Len(stack') : stack'[i].id <= x
                                /\ \A i \in 1..Len(reads') : reads'[i].id <= x
                                /\ \A i \in 1..Len(main') : main'[i].id <= x
                                /\ \A c \in calls' : c.id <= x
                                /\ \A p \in posts' : p.id <= x
    BY DEF IdsBelow
  <2> QED
    BY ONLY <2>2, <2>3, <2>4, <2>5, <2>6
<1>6. \A i \in 1..Len(stack') : i \in 1..n \/ i = n + 1
  BY <1>1, <1>2
<1>7. \A k \in 1..Len(reads') : k \in 1..m \/ (k = m + 1 /\ Len(reads') = m + 1)
  BY <1>1, <1>4
<1>8. \A i, j \in 1..Len(stack') : stack'[i].id = stack'[j].id => i = j
  BY <1>1, <1>2, <1>3, <1>6
<1>9. \A p \in posts', i \in 1..Len(stack') : stack'[i].id = p.id => stack'[i].kind = "plus"
  BY <1>1, <1>2, <1>3, <1>6
<1>10. ASSUME NEW k \in 1..Len(reads'), NEW i \in 1..Len(stack'), stack'[i].id = reads'[k].id
       PROVE  stack'[i].kind = reads'[k].for /\ stack'[i].uid = reads'[k].uid
  <2>1. CASE k \in 1..m /\ i \in 1..n
    BY <1>2, <1>3, <1>4, <1>10, <2>1
  <2>2. CASE k = m + 1 /\ Len(reads') = m + 1 /\ i = n + 1
    BY <1>1, <1>2, <1>4, <2>2
  <2>3. CASE k \in 1..m /\ i = n + 1
    BY <1>1, <1>2, <1>4, <1>10, <2>3
  <2>4. CASE k = m + 1 /\ Len(reads') = m + 1 /\ i \in 1..n
    BY <1>1, <1>2, <1>4, <1>10, <2>4
  <2> QED
    BY <1>6, <1>7, <2>1, <2>2, <2>3, <2>4
<1>11. \A j, k \in 1..Len(reads') : reads'[j].id = reads'[k].id => j = k
  BY <1>1, <1>3, <1>4, <1>7
<1>12. IdsFit'
  BY <1>8, <1>9, <1>10, <1>11 DEF IdsFit
<1> QED
  BY <1>1, <1>5, <1>12 DEF IdsBounded

\* Two sequences, one after the other.
LEMMA Joined ==
  ASSUME NEW S, NEW a \in Seq(S), NEW b \in Seq(S), NEW c, c = a \o b
  PROVE  /\ c \in Seq(S)
         /\ Len(a) \in Nat /\ Len(b) \in Nat /\ Len(c) = Len(a) + Len(b)
         /\ \A i \in 1..Len(a) : c[i] = a[i]
         /\ \A i \in 1..Len(b) : c[Len(a) + i] = b[i]
<1>1. /\ c \in Seq(S) /\ Len(a) \in Nat /\ Len(b) \in Nat /\ Len(c) = Len(a) + Len(b)
  BY ConcatProperties
<1>2. \A i \in 1..Len(a) + Len(b) : c[i] = IF i <= Len(a) THEN a[i] ELSE b[i - Len(a)]
  BY ConcatProperties
<1>3. ASSUME NEW i \in 1..Len(a) PROVE c[i] = a[i]
  BY <1>1, <1>2
<1>4. ASSUME NEW i \in 1..Len(b) PROVE c[Len(a) + i] = b[i]
  <2>1. Len(a) + i \in 1..Len(a) + Len(b) /\ ~(Len(a) + i <= Len(a)) /\ (Len(a) + i) - Len(a) = i
    BY <1>1
  <2> QED
    BY <1>2, <2>1
<1> QED
  BY <1>1, <1>3, <1>4

\* A sequence without one of its elements.
LEMMA Removed ==
  ASSUME NEW S, NEW s \in Seq(S), NEW i \in 1..Len(s)
  PROVE  /\ RemoveAt(s, i) \in Seq(S) /\ Len(RemoveAt(s, i)) = Len(s) - 1
         /\ \A k \in 1..Len(RemoveAt(s, i)) : RemoveAt(s, i)[k] = IF k < i THEN s[k] ELSE s[k + 1]
<1>1. PICK a, b : a = SubSeq(s, 1, i - 1) /\ b = SubSeq(s, i + 1, Len(s))
  OBVIOUS
<1>2. /\ a \in Seq(S) /\ Len(a) = i - 1 /\ \A k \in 1..(i - 1) : a[k] = s[k]
  BY <1>1
<1>3. /\ b \in Seq(S) /\ Len(b) = Len(s) - i /\ \A k \in 1..(Len(s) - i) : b[k] = s[i + k]
  BY <1>1
<1>4. RemoveAt(s, i) = a \o b
  BY <1>1 DEF RemoveAt
<1>5. PICK c : c = a \o b
  OBVIOUS
<1>6. /\ c \in Seq(S) /\ Len(c) = Len(s) - 1
      /\ \A k \in 1..(i - 1) : c[k] = a[k]
      /\ \A k \in 1..(Len(s) - i) : c[(i - 1) + k] = b[k]
  <2>1. /\ c \in Seq(S) /\ Len(c) = Len(a) + Len(b)
        /\ \A k \in 1..Len(a) : c[k] = a[k]
        /\ \A k \in 1..Len(b) : c[Len(a) + k] = b[k]
    <3>1. a \in Seq(S) /\ b \in Seq(S)
      BY <1>2, <1>3
    <3> QED
      BY ONLY <3>1, <1>5, Joined
  <2>2. Len(s) \in Nat
    OBVIOUS
  <2> QED
    BY <1>2, <1>3, <2>1, <2>2
<1>7. ASSUME NEW k \in 1..Len(c) PROVE c[k] = IF k < i THEN s[k] ELSE s[k + 1]
  <2>1. CASE k < i
    BY <1>2, <1>6, <2>1
  <2>2. CASE k >= i
    <3>1. PICK m \in 1..(Len(s) - i) : k = (i - 1) + m
      <4>1. k - (i - 1) \in 1..(Len(s) - i) /\ k = (i - 1) + (k - (i - 1))
        BY <1>6, <2>2
      <4> QED
        BY <4>1
    <3>2. c[k] = s[i + m]
      BY <1>3, <1>6, <3>1
    <3>3. i + m = k + 1
      BY <3>1
    <3> QED
      BY <2>2, <3>2, <3>3
  <2> QED
    BY <2>1, <2>2
<1> QED
  BY <1>4, <1>5, <1>6, <1>7

\* The login screen and, for a user the app knows, the home screen above it.
LEMMA LoginScreensFit ==
  ASSUME session \in Nat, used.save \in Nat, NEW user \in Uids, NEW id \in Nat
  PROVE  LET L == LoginScreens(user, id)
         IN  /\ L \in Seq(Screens) /\ Len(L) \in {1, 2}
             /\ Len(L) = IF user = NoUser THEN 1 ELSE 2
             /\ L[1] = NewScreen("login", id, user)
             /\ user # NoUser => L[2] = NewScreen("home", id + 1, user)
<1> DEFINE a == NewScreen("login", id, user)
           b == NewScreen("home", id + 1, user)
<1>1. a \in Screens /\ b \in Screens
  <2>1. "login" \in Kinds /\ "home" \in Kinds /\ id + 1 \in Nat
    BY DEF Kinds
  <2>2. a \in Screens
    BY <2>1, NewScreenFits
  <2>3. b \in Screens
    BY <2>1, NewScreenFits
  <2> QED
    BY <2>2, <2>3
<1> HIDE DEF a, b
<1>2. LoginScreens(user, id) = <<a>> \o IF user = NoUser THEN <<>> ELSE <<b>>
  BY DEF LoginScreens, a, b
<1>3. CASE user = NoUser
  <2>1. LoginScreens(user, id) = <<a>>
    BY <1>2, <1>3
  <2> QED
    BY <1>1, <1>3, <2>1 DEF a
<1>4. CASE user # NoUser
  <2>1. LoginScreens(user, id) = <<a>> \o <<b>>
    BY <1>2, <1>4
  <2>2. <<a>> \in Seq(Screens) /\ <<b>> \in Seq(Screens)
    BY <1>1
  <2>3. PICK L : L = <<a>> \o <<b>>
    OBVIOUS
  <2>4. /\ L \in Seq(Screens) /\ Len(L) = Len(<<a>>) + Len(<<b>>)
        /\ \A i \in 1..Len(<<a>>) : L[i] = <<a>>[i]
        /\ \A i \in 1..Len(<<b>>) : L[Len(<<a>>) + i] = <<b>>[i]
    BY ONLY <2>2, <2>3, Joined
  <2>5. L \in Seq(Screens) /\ Len(L) = 2 /\ L[1] = a /\ L[2] = b
    <3>1. PICK x, y : x = <<a>> /\ y = <<b>>
      OBVIOUS
    <3>2. Len(x) = 1 /\ Len(y) = 1 /\ x[1] = a /\ y[1] = b
      BY <3>1
    <3>3. /\ L \in Seq(Screens) /\ Len(L) = Len(x) + Len(y)
          /\ \A i \in 1..Len(x) : L[i] = x[i]
          /\ \A i \in 1..Len(y) : L[Len(x) + i] = y[i]
      BY <2>4, <3>1, Zenon
    <3> QED
      BY <3>2, <3>3
  <2> QED
    BY <1>4, <2>1, <2>3, <2>5 DEF a, b
<1> QED
  BY <1>3, <1>4

\* They come up above the others.
LEMMA IdsOfLogin ==
  ASSUME TypeInv, stack' = stack \o LoginScreens(currentUser, FreshId), posts' \subseteq posts,
         reads' = reads, CallersStay
  PROVE  /\ stack' \in Seq(Screens)
         /\ Len(stack') = Len(stack) + Len(LoginScreens(currentUser, FreshId))
         /\ \A i \in 1..Len(stack) : stack'[i] = stack[i]
         /\ \A i \in 1..Len(stack') : i > Len(stack) =>
               /\ stack'[i].kind \in {"login", "home"} /\ stack'[i].found = None
               /\ i = Len(stack) + 1 => stack'[i].kind = "login"
               /\ stack'[i].kind = "home" => stack'[i].uid = currentUser /\ currentUser # NoUser
         /\ IdsFit' /\ IdsBounded'
<1>0. PICK n, f : n = Len(stack) /\ f = FreshId
  OBVIOUS
<1>1. /\ n \in Nat /\ f \in Nat \ {0}
      /\ \A i \in 1..n : stack[i].id \in Nat /\ stack[i].id < f
      /\ \A i \in 1..Len(reads) : reads[i].id \in Nat /\ reads[i].id < f
      /\ \A p \in posts : p.id \in Nat /\ p.id < f
  BY <1>0, Elements, FreshIdIsNew
<1>2. currentUser \in Uids /\ stack \in Seq(Screens)
  BY DEF TypeInv, AppTyped
<1>3. PICK L \in Seq(Screens) :
         /\ L = LoginScreens(currentUser, f) /\ Len(L) \in {1, 2}
         /\ Len(L) = IF currentUser = NoUser THEN 1 ELSE 2
         /\ L[1] = NewScreen("login", f, currentUser)
         /\ currentUser # NoUser => L[2] = NewScreen("home", f + 1, currentUser)
  BY <1>1, <1>2, Counters, LoginScreensFit
<1>4. /\ L[1].kind = "login" /\ L[1].found = None /\ L[1].id = f
      /\ Len(L) = 2 => /\ L[2].kind = "home" /\ L[2].found = None /\ L[2].id = f + 1
                       /\ L[2].uid = currentUser /\ currentUser # NoUser
  BY <1>1, <1>2, <1>3, Counters, NewScreenFits DEF Kinds
<1>5. /\ stack' \in Seq(Screens) /\ Len(stack') = n + Len(L)
      /\ \A i \in 1..n : stack'[i] = stack[i]
      /\ stack'[n + 1] = L[1]
      /\ Len(L) = 2 => stack'[n + 2] = L[2]
  <2>1. PICK H : H = stack \o L
    OBVIOUS
  <2>2. stack' = H
    BY <1>0, <1>3, <2>1
  <2>3. /\ H \in Seq(Screens) /\ Len(H) = Len(stack) + Len(L)
        /\ \A i \in 1..Len(stack) : H[i] = stack[i]
        /\ \A i \in 1..Len(L) : H[Len(stack) + i] = L[i]
    <3>1. stack \in Seq(Screens) /\ L \in Seq(Screens)
      BY <1>2, <1>3
    <3> QED
      BY ONLY <3>1, <2>1, Joined
  <2> QED
    BY <1>0, <1>3, <2>2, <2>3
<1>6. \A i \in 1..Len(stack') : i \in 1..n \/ i = n + 1 \/ (i = n + 2 /\ Len(L) = 2)
  BY <1>1, <1>3, <1>5
<1>7. ASSUME NEW i \in 1..Len(stack'), i > n
      PROVE  /\ stack'[i].kind \in {"login", "home"} /\ stack'[i].found = None
             /\ i = n + 1 => stack'[i].kind = "login"
             /\ stack'[i].kind = "home" => stack'[i].uid = currentUser /\ currentUser # NoUser
             /\ stack'[i].id \in {f, f + 1} /\ stack'[i].id = f <=> i = n + 1
  <2>1. CASE i = n + 1
    BY <1>1, <1>4, <1>5, <2>1
  <2>2. CASE i = n + 2 /\ Len(L) = 2
    BY <1>1, <1>4, <1>5, <2>2, SMTT(40)
  <2>3. ~(i \in 1..n)
    BY <1>1, <1>7
  <2> QED
    BY <1>6, <2>1, <2>2, <2>3
<1>8. IdsFit'
  <2>1. /\ \A i, j \in 1..n : stack[i].id = stack[j].id => i = j
        /\ \A p \in posts, i \in 1..n : stack[i].id = p.id => stack[i].kind = "plus"
        /\ \A k \in 1..Len(reads), i \in 1..n :
             stack[i].id = reads[k].id => stack[i].kind = reads[k].for /\ stack[i].uid = reads[k].uid
        /\ \A j, k \in 1..Len(reads) : reads[j].id = reads[k].id => j = k
    BY <1>0 DEF TypeInv, IdsFit
  <2>2. ASSUME NEW i \in 1..Len(stack'), NEW x \in Nat, x < f, stack'[i].id = x
        PROVE  i \in 1..n
    <3>1. CASE i = n + 1
      BY <1>1, <1>4, <1>5, <2>2, <3>1
    <3>2. CASE i = n + 2 /\ Len(L) = 2
      BY <1>1, <1>4, <1>5, <2>2, <3>2, SMTT(40)
    <3> QED
      BY <1>6, <3>1, <3>2
  <2>3. ASSUME NEW i \in 1..Len(stack'), NEW j \in 1..Len(stack'), stack'[i].id = stack'[j].id
        PROVE  i = j
    <3>1. CASE i \in 1..n \/ j \in 1..n
      <4>1. i \in 1..n /\ j \in 1..n
        BY <1>1, <1>5, <2>2, <2>3, <3>1
      <4> QED
        BY <1>5, <2>1, <2>3, <4>1
    <3>2. CASE i = n + 1 /\ j = n + 2 /\ Len(L) = 2
      BY <1>1, <1>4, <1>5, <2>3, <3>2, SMTT(40)
    <3>3. CASE j = n + 1 /\ i = n + 2 /\ Len(L) = 2
      BY <1>1, <1>4, <1>5, <2>3, <3>3, SMTT(40)
    <3> QED
      BY <1>6, <3>1, <3>2, <3>3
  <2>4. ASSUME NEW p \in posts', NEW i \in 1..Len(stack'), stack'[i].id = p.id
        PROVE  stack'[i].kind = "plus"
    <3>1. p \in posts /\ p.id \in Nat /\ p.id < f
      BY <1>1
    <3>2. i \in 1..n
      BY <2>2, <2>4, <3>1
    <3> QED
      BY <1>5, <2>1, <2>4, <3>1, <3>2
  <2>5. ASSUME NEW k \in 1..Len(reads), NEW i \in 1..Len(stack'), stack'[i].id = reads[k].id
        PROVE  stack'[i].kind = reads[k].for /\ stack'[i].uid = reads[k].uid
    <3>1. i \in 1..n
      BY <1>1, <2>2, <2>5
    <3>2. stack'[i] = stack[i]
      BY <1>5, <3>1
    <3>3. stack[i].kind = reads[k].for /\ stack[i].uid = reads[k].uid
      BY <2>1, <2>5, <3>1, <3>2
    <3> QED
      BY <3>2, <3>3
  <2>6. /\ \A i, j \in 1..Len(stack') : stack'[i].id = stack'[j].id => i = j
        /\ \A p \in posts', i \in 1..Len(stack') : stack'[i].id = p.id => stack'[i].kind = "plus"
    BY <2>3, <2>4
  <2>7. \A k \in 1..Len(reads'), i \in 1..Len(stack') :
           stack'[i].id = reads'[k].id => stack'[i].kind = reads'[k].for /\ stack'[i].uid = reads'[k].uid
    BY <2>5
  <2>8. \A j, k \in 1..Len(reads') : reads'[j].id = reads'[k].id => j = k
    BY <2>1
  <2> QED
    BY <2>6, <2>7, <2>8 DEF IdsFit
<1>9. IdsBelow(f + 1)'
  <2>1. IdsBelow(f + 1)
    BY <1>0, <1>1, FreshIdIsNew DEF IdsBelow
  <2>2. /\ \A i \in 1..Len(main') : main'[i].id <= f + 1
        /\ \A c \in calls' : c.id <= f + 1
    BY <1>1, <2>1 DEF CallersStay
  <2>3. ASSUME NEW i \in 1..Len(stack') PROVE stack'[i].id <= f + 1
    <3>1. CASE i \in 1..n
      <4>1. stack'[i] = stack[i] /\ stack[i].id \in Nat /\ stack[i].id < f
        BY <1>1, <1>5, <3>1
      <4> QED
        BY <1>1, <4>1
    <3>2. CASE i = n + 1
      BY <1>1, <1>4, <1>5, <3>2
    <3>3. CASE i = n + 2 /\ Len(L) = 2
      BY <1>1, <1>4, <1>5, <3>3
    <3> QED
      BY <1>6, <3>1, <3>2, <3>3
  <2>4. \A i \in 1..Len(reads') : reads'[i].id <= f + 1
    BY <1>1
  <2>5. \A p \in posts' : p.id <= f + 1
    BY <1>1
  <2>6. \A x : IdsBelow(x)' <=> /\ \A i \in 1..Len(stack') : stack'[i].id <= x
                                /\ \A i \in 1..Len(reads') : reads'[i].id <= x
                                /\ \A i \in 1..Len(main') : main'[i].id <= x
                                /\ \A c \in calls' : c.id <= x
                                /\ \A p \in posts' : p.id <= x
    BY DEF IdsBelow
  <2> QED
    BY ONLY <2>2, <2>3, <2>4, <2>5, <2>6
<1> QED
  BY <1>0, <1>1, <1>3, <1>5, <1>7, <1>8, <1>9 DEF IdsBounded

\* A write joins the queue, and is sent if there is a connection.
Written(p) ==
  /\ p \in Puts
  /\ puts' = Append(puts, p)
  /\ wire' = IF conn = "connected" THEN Append(wire, PutRequest(p)) ELSE wire

LEMMA Writes ==
  ASSUME TypeInv, NEW path, NEW uid \in Users, NEW day, NEW value, Put(path, uid, day, value),
         \/ path = "diary" /\ day \in Days /\ value \in Nat
         \/ path = "Users" /\ day = None /\ value \in Users \cup {None}
  PROVE  \E p : /\ Written(p)
                /\ p.path = path /\ p.uid = uid /\ p.day = day /\ p.value = value
                /\ p.session = session /\ p.own = (uid = currentUser /\ Announced)
<1> DEFINE p == [path |-> path, uid |-> uid, day |-> day, value |-> value,
                 session |-> session, own |-> uid = currentUser /\ Announced]
<1>1. session \in Nat
  BY DEF TypeInv, AppTyped
<1>2. p \in Puts
  BY <1>1 DEF Puts
<1>3. puts' = Append(puts, p) /\ wire' = IF conn = "connected" THEN Append(wire, PutRequest(p)) ELSE wire
  BY DEF Put, Send
<1>4. Written(p)
  BY <1>2, <1>3 DEF Written
<1>5. /\ p.path = path /\ p.uid = uid /\ p.day = day /\ p.value = value
      /\ p.session = session /\ p.own = (uid = currentUser /\ Announced)
  OBVIOUS
<1> HIDE DEF p
<1> QED
  BY <1>4, <1>5

LEMMA RequestTypes ==
  /\ \A p \in Puts : /\ PutRequest(p) \in Requests
                     /\ PutRequest(p).kind = "put" /\ PutRequest(p).put = p
  /\ \A u \in Uids : /\ AuthRequest(u) \in Requests
                     /\ AuthRequest(u).kind = "auth" /\ AuthRequest(u).user = u
  /\ \A r \in ReadSet : /\ GetRequest(r) \in Requests
                        /\ GetRequest(r).kind = "get" /\ GetRequest(r).id = r.id
BY DEF Requests, PutRequest, AuthRequest, GetRequest, ReadSet

\* What restoreState puts on the wire.
Resent(first) ==
  LET n == Len(first)
  IN  /\ wire' \in Seq(Requests)
      /\ Len(wire') = n + Len(puts) + Len(reads)
      /\ \A m \in 1..n : wire'[m] = first[m]
      /\ \A k \in 1..Len(puts) : wire'[n + k] = PutRequest(puts[k])
      /\ \A k \in 1..Len(reads) : wire'[n + Len(puts) + k] = GetRequest(reads[k])

LEMMA Restores ==
  ASSUME TypeInv, NEW first \in Seq(Requests), RestoreState(first)
  PROVE  Resent(first)
<1> DEFINE P == PutRequests
           G == GetRequests
<1>1. /\ Len(puts) \in Nat /\ Len(reads) \in Nat
      /\ \A k \in 1..Len(puts) : PutRequest(puts[k]) \in Requests
      /\ \A k \in 1..Len(reads) : GetRequest(reads[k]) \in Requests
  BY Elements, RequestTypes
<1>2. P = [k \in 1..Len(puts) |-> PutRequest(puts[k])] /\ G = [k \in 1..Len(reads) |-> GetRequest(reads[k])]
  BY DEF TypeInv, ClientTyped, PutRequests, GetRequests
<1>3. /\ P \in Seq(Requests) /\ Len(P) = Len(puts) /\ \A k \in 1..Len(puts) : P[k] = PutRequest(puts[k])
      /\ G \in Seq(Requests) /\ Len(G) = Len(reads) /\ \A k \in 1..Len(reads) : G[k] = GetRequest(reads[k])
  BY <1>1, <1>2
<1>4. wire' = first \o P \o G
  BY DEF RestoreState
<1> HIDE DEF P, G
<1>5. PICK H : H = first \o P
  OBVIOUS
<1>6. /\ H \in Seq(Requests) /\ Len(H) = Len(first) + Len(P) /\ Len(first) \in Nat
      /\ \A m \in 1..Len(first) : H[m] = first[m]
      /\ \A k \in 1..Len(P) : H[Len(first) + k] = P[k]
  <2>1. first \in Seq(Requests) /\ P \in Seq(Requests)
    BY <1>3
  <2> QED
    BY ONLY <2>1, <1>5, Joined
<1>7. /\ wire' \in Seq(Requests) /\ Len(wire') = Len(H) + Len(G)
      /\ \A m \in 1..Len(H) : wire'[m] = H[m]
      /\ \A k \in 1..Len(G) : wire'[Len(H) + k] = G[k]
  <2>1. wire' = H \o G
    BY <1>4, <1>5
  <2>2. H \in Seq(Requests) /\ G \in Seq(Requests)
    BY <1>3, <1>6
  <2> QED
    BY ONLY <2>1, <2>2, Joined
<1>8. \A m \in 1..Len(first) : wire'[m] = first[m]
  BY <1>1, <1>3, <1>6, <1>7
<1>9. ASSUME NEW k \in 1..Len(puts) PROVE wire'[Len(first) + k] = PutRequest(puts[k])
  <2>1. Len(first) + k \in 1..Len(H)
    BY <1>1, <1>3, <1>6
  <2> QED
    BY <1>3, <1>6, <1>7, <2>1
<1> QED
  BY <1>1, <1>3, <1>6, <1>7, <1>8, <1>9 DEF Resent

-----------------------------------------------------------------------------
(* The steps of the database client and of the server                      *)

\* The screens, the calls and the posts are left alone.
AppStays == UNCHANGED <<up, stack, currentUser, session, calls, posts, address, today, strayed, hurried>>

LEMMA NoReadGoes == ASSUME TypeInv, reads' = reads PROVE ReadsShrink
<1>1. PICK n : n = Len(reads) + 1
  OBVIOUS
<1>2. n \in Nat /\ \A k \in 1..Len(reads') : k \in 1..Len(reads) /\ k < n
  BY <1>1, Elements
<1>3. \A k \in 1..Len(reads') : /\ k < n => k \in 1..Len(reads) /\ reads'[k] = reads[k]
                                /\ k >= n => k + 1 \in 1..Len(reads) /\ reads'[k] = reads[k + 1]
  BY <1>2
<1> QED
  BY <1>2, <1>3 DEF ReadsShrink

LEMMA ReadGoes ==
  ASSUME TypeInv, NEW i \in 1..Len(reads), reads' = RemoveAt(reads, i)
  PROVE  ReadsShrink /\ reads' \in Seq(ReadSet)
<1>1. reads \in Seq(ReadSet)
  BY DEF TypeInv, ClientTyped
<1>2. /\ reads' \in Seq(ReadSet) /\ Len(reads') = Len(reads) - 1
      /\ \A k \in 1..Len(reads') : reads'[k] = IF k < i THEN reads[k] ELSE reads[k + 1]
  BY <1>1, Removed
<1>3. Len(reads) \in Nat /\ i \in Nat
  BY Elements
<1>4. \A k \in 1..Len(reads') : /\ k < i => k \in 1..Len(reads) /\ reads'[k] = reads[k]
                                /\ k >= i => k + 1 \in 1..Len(reads) /\ reads'[k] = reads[k + 1]
  BY <1>2, <1>3
<1> QED
  BY <1>2, <1>3, <1>4 DEF ReadsShrink

LEMMA AppStaysFits ==
  ASSUME TypeInv, AppStays, ReadsShrink, CallersStay,
         used' \in [Events -> Nat], overtaken' \in BOOLEAN, main' \in Seq(Blocks)
  PROVE  AppTyped' /\ ScreensFit' /\ LoadedHaveUsers' /\ IdsFit' /\ IdsBounded'
<1>1. ScreensStay
  BY Elements DEF ScreensStay, AppStays
<1>2. IdsFit' /\ IdsBounded'
  BY <1>1, IdsStay DEF AppStays
<1>3. AppTyped'
  BY DEF TypeInv, AppTyped, AppStays
<1>4. ScreensFit' /\ LoadedHaveUsers'
  BY DEF TypeInv, ScreensFit, LoadedHaveUsers, AppStays
<1> QED
  BY <1>2, <1>3, <1>4

\* The main queue's next block, and a new one.
LEMMA NextBlock ==
  ASSUME TypeInv, main # <<>>
  PROVE  /\ Head(main) \in Blocks /\ Head(main) = main[1] /\ Tail(main) \in Seq(Blocks)
         /\ Len(main) \in Nat \ {0} /\ Len(Tail(main)) = Len(main) - 1
         /\ \A i \in 1..Len(Tail(main)) : i + 1 \in 1..Len(main) /\ Tail(main)[i] = main[i + 1]
<1>1. main \in Seq(Blocks)
  BY DEF TypeInv, AppTyped
<1> QED
  BY <1>1

LEMMA BlockGoes ==
  ASSUME TypeInv, main # <<>>, main' = Tail(main), calls' \subseteq calls
  PROVE  CallersStay
<1>1. \A i \in 1..Len(main') : i + 1 \in 1..Len(main) /\ main'[i] = main[i + 1]
  BY NextBlock
<1> QED
  BY <1>1 DEF CallersStay, IdsBelow

LEMMA NewBlock ==
  ASSUME TypeInv, NEW b \in Blocks, main' = Append(main, b), calls' \subseteq calls,
         b.id = 0 \/ \E c \in calls : b.id = c.id
  PROVE  CallersStay /\ main' \in Seq(Blocks)
<1>1. /\ main' \in Seq(Blocks) /\ Len(main) \in Nat /\ Len(main') = Len(main) + 1
      /\ \A i \in 1..Len(main) : main'[i] = main[i]
      /\ main'[Len(main) + 1] = b
  BY DEF TypeInv, AppTyped
<1>2. ASSUME NEW k \in Nat, IdsBelow(k) PROVE \A i \in 1..Len(main') : main'[i].id <= k
  <2>1. b.id <= k
    BY <1>2 DEF IdsBelow
  <2> QED
    BY <1>1, <1>2, <2>1 DEF IdsBelow
<1> QED
  BY <1>1, <1>2 DEF CallersStay, IdsBelow

\* What the step of a client leaves of the rest.
LEMMA RetryTypes == ASSUME TypeInv, Retry PROVE TypeInv'
<1>1. AppTyped' /\ ScreensFit' /\ LoadedHaveUsers' /\ IdsFit' /\ IdsBounded'
  <2>1. AppStays /\ reads' = reads /\ used' \in [Events -> Nat] /\ overtaken' \in BOOLEAN
        /\ main' \in Seq(Blocks) /\ CallersStay
    BY DEF Retry, AppStays, authVars, TypeInv, AppTyped, CallersStay, IdsBelow
  <2> QED
    BY <2>1, NoReadGoes, AppStaysFits
<1>2. fetch' \in Fetches /\ fetch' # None
  BY FetchAssumption DEF Retry, Fetches
<1>3. ClientTyped' /\ ServerTyped' /\ NothingLeft' /\ WireFits'
  BY <1>2 DEF Retry, TypeInv, ClientTyped, ServerTyped, NothingLeft, WireFits, serverVars, Phases, Uids
<1> QED
  BY <1>1, <1>3 DEF TypeInv

LEMMA TokenIsLookedUpTypes == ASSUME TypeInv, TokenIsLookedUp PROVE TypeInv'
<1>0. "token" \in {"token"} /\ [kind |-> "token", id |-> 0] \in Blocks
  BY DEF Blocks
<1>1. main' \in Seq(Blocks) /\ CallersStay
  <2>1. CASE main' = main
    BY <2>1 DEF TokenIsLookedUp, TypeInv, AppTyped, CallersStay, IdsBelow
  <2>2. CASE main' = Append(main, [kind |-> "token", id |-> 0])
    BY <1>0, <2>2, NewBlock DEF TokenIsLookedUp
  <2> QED
    BY <2>1, <2>2 DEF TokenIsLookedUp
<1>2. AppTyped' /\ ScreensFit' /\ LoadedHaveUsers' /\ IdsFit' /\ IdsBounded'
  <2>1. AppStays /\ reads' = reads /\ used' \in [Events -> Nat] /\ overtaken' \in BOOLEAN
    BY DEF TokenIsLookedUp, AppStays, authVars, TypeInv, AppTyped
  <2> QED
    BY <1>1, <2>1, NoReadGoes, AppStaysFits
<1>3. fetch' \in Fetches /\ fetch' # None
  <2>1. currentUser \in Users \cup {NoUser} /\ session \in Nat
    BY DEF TypeInv, AppTyped, Uids
  <2> QED
    BY <2>1, FetchAssumption DEF TokenIsLookedUp, Fetches
<1>4. ClientTyped' /\ ServerTyped' /\ NothingLeft' /\ WireFits'
  BY <1>3 DEF TokenIsLookedUp, TypeInv, ClientTyped, ServerTyped, NothingLeft, WireFits, serverVars
<1> QED
  BY <1>2, <1>4 DEF TypeInv

LEMMA TokenIsRefreshedTypes == ASSUME TypeInv, TokenIsRefreshed PROVE TypeInv'
<1>0. [kind |-> "token", id |-> 0] \in Blocks
  BY DEF Blocks
<1>1. main' \in Seq(Blocks) /\ CallersStay
  BY <1>0, NewBlock DEF TokenIsRefreshed
<1>2. AppTyped' /\ ScreensFit' /\ LoadedHaveUsers' /\ IdsFit' /\ IdsBounded'
  <2>1. AppStays /\ reads' = reads /\ used' \in [Events -> Nat] /\ overtaken' \in BOOLEAN
    BY DEF TokenIsRefreshed, AppStays, authVars, TypeInv, AppTyped
  <2> QED
    BY <1>1, <2>1, NoReadGoes, AppStaysFits
<1>3. fetch' \in Fetches /\ fetch' # None
  BY FetchAssumption DEF TokenIsRefreshed, Fetches, TypeInv, ClientTyped
<1>4. ClientTyped' /\ ServerTyped' /\ NothingLeft' /\ WireFits'
  BY <1>3 DEF TokenIsRefreshed, TypeInv, ClientTyped, ServerTyped, NothingLeft, WireFits, serverVars
<1> QED
  BY <1>2, <1>4 DEF TypeInv

LEMMA OnReadyTypes == ASSUME TypeInv, OnReady PROVE TypeInv'
<1>2. AppTyped' /\ ScreensFit' /\ LoadedHaveUsers' /\ IdsFit' /\ IdsBounded'
  <2>1. AppStays /\ reads' = reads /\ used' \in [Events -> Nat] /\ overtaken' \in BOOLEAN
        /\ main' \in Seq(Blocks) /\ CallersStay
    BY DEF OnReady, AppStays, authVars, TypeInv, AppTyped, CallersStay, IdsBelow
  <2> QED
    BY <2>1, NoReadGoes, AppStaysFits
<1>3. /\ conn' \in {"connected", "authenticating"} /\ wire' \in Seq(Requests)
      /\ conn' = "authenticating" => wire' # <<>> /\ \A m \in 1..Len(wire') : wire'[m].kind = "auth"
  <2>1. CASE authToken.user = NoUser
    <3>1. conn' = "connected" /\ RestoreState(<<>>)
      BY <2>1 DEF OnReady
    <3>2. <<>> \in Seq(Requests)
      OBVIOUS
    <3>3. Resent(<<>>)
      BY <3>1, <3>2, Restores
    <3> QED
      BY <3>1, <3>3 DEF Resent
  <2>2. CASE authToken.user # NoUser
    <3>1. conn' = "authenticating" /\ wire' = <<AuthRequest(authToken.user)>>
      BY <2>2 DEF OnReady
    <3>2. authToken.user \in Uids
      BY DEF TypeInv, ClientTyped, Tokens
    <3>3. AuthRequest(authToken.user) \in Requests /\ AuthRequest(authToken.user).kind = "auth"
      BY <3>2, RequestTypes
    <3> QED
      BY <3>1, <3>3
  <2> QED
    BY <2>1, <2>2
<1>4. ClientTyped' /\ ServerTyped' /\ NothingLeft' /\ WireFits'
  BY <1>3 DEF OnReady, TypeInv, ClientTyped, ServerTyped, NothingLeft, WireFits, serverVars, Phases
<1> QED
  BY <1>2, <1>4 DEF TypeInv

LEMMA ConnectionLostTypes == ASSUME TypeInv, ConnectionLost PROVE TypeInv'
<1>1. used' \in [Events -> Nat]
  BY Spends DEF ConnectionLost, TypeInv, AppTyped, Events
<1>2. reads' \in Seq(ReadSet) /\ ReadsShrink
  <2>1. CASE reads' = <<>>
    BY <2>1 DEF ReadsShrink
  <2>2. CASE reads' = reads
    BY <2>2, NoReadGoes DEF TypeInv, ClientTyped
  <2> QED
    BY <2>1, <2>2 DEF ConnectionLost, Disconnect
<1>3. AppTyped' /\ ScreensFit' /\ LoadedHaveUsers' /\ IdsFit' /\ IdsBounded'
  <2>1. AppStays /\ overtaken' \in BOOLEAN /\ main' \in Seq(Blocks) /\ CallersStay
    BY DEF ConnectionLost, AppStays, authVars, TypeInv, AppTyped, CallersStay, IdsBelow
  <2> QED
    BY <1>1, <1>2, <2>1, AppStaysFits
<1>4. ClientTyped' /\ ServerTyped' /\ NothingLeft' /\ WireFits'
  BY <1>2 DEF ConnectionLost, Disconnect, TypeInv, ClientTyped, ServerTyped, NothingLeft, WireFits,
              serverVars, Phases, Uids
<1> QED
  BY <1>3, <1>4 DEF TypeInv

LEMMA ReadTimesOutTypes == ASSUME TypeInv, ReadTimesOut PROVE TypeInv'
<1>1. PICK i \in 1..Len(reads) : reads' = RemoveAt(reads, i)
  BY DEF ReadTimesOut, TypeInv, ClientTyped
<1>2. reads' \in Seq(ReadSet) /\ ReadsShrink
  BY <1>1, ReadGoes
<1>3. AppTyped' /\ ScreensFit' /\ LoadedHaveUsers' /\ IdsFit' /\ IdsBounded'
  <2>1. AppStays /\ overtaken' \in BOOLEAN /\ main' \in Seq(Blocks) /\ CallersStay /\ used' \in [Events -> Nat]
    BY DEF ReadTimesOut, AppStays, authVars, TypeInv, AppTyped, CallersStay, IdsBelow
  <2> QED
    BY <1>2, <2>1, AppStaysFits
<1>4. ClientTyped' /\ ServerTyped' /\ NothingLeft' /\ WireFits'
  BY <1>2 DEF ReadTimesOut, TypeInv, ClientTyped, ServerTyped, NothingLeft, WireFits, serverVars
<1> QED
  BY <1>3, <1>4 DEF TypeInv

\* The first request on the wire.
LEMMA NextRequest ==
  ASSUME TypeInv, wire # <<>>
  PROVE  /\ Head(wire) \in Requests /\ Head(wire) = wire[1] /\ Tail(wire) \in Seq(Requests)
         /\ Len(wire) \in Nat \ {0} /\ Len(Tail(wire)) = Len(wire) - 1
         /\ \A i \in 1..Len(Tail(wire)) : i + 1 \in 1..Len(wire) /\ Tail(wire)[i] = wire[i + 1]
         /\ Head(wire).kind = "put" => Head(wire).put \in Puts
         /\ Head(wire).kind = "auth" => Head(wire).user \in Uids
         /\ Head(wire).kind = "get" => Head(wire).id \in Nat
         /\ conn \in {"authenticating", "connected"}
<1>1. wire \in Seq(Requests)
  BY DEF TypeInv, ClientTyped
<1>2. /\ Head(wire) \in Requests /\ Head(wire) = wire[1] /\ Tail(wire) \in Seq(Requests)
      /\ Len(wire) \in Nat \ {0} /\ Len(Tail(wire)) = Len(wire) - 1
      /\ \A i \in 1..Len(Tail(wire)) : i + 1 \in 1..Len(wire) /\ Tail(wire)[i] = wire[i + 1]
  BY <1>1
<1>3. /\ Head(wire).kind = "put" => Head(wire).put \in Puts
      /\ Head(wire).kind = "auth" => Head(wire).user \in Uids
      /\ Head(wire).kind = "get" => Head(wire).id \in Nat
  BY <1>2 DEF Requests
<1>4. conn \in {"authenticating", "connected"}
  BY DEF TypeInv, WireFits
<1> QED
  BY <1>2, <1>3, <1>4

LEMMA ServeAuthTypes == ASSUME TypeInv, ServeAuth PROVE TypeInv'
<1>1. wire # <<>> /\ Head(wire).kind = "auth"
  BY DEF ServeAuth
<1>2. AppTyped' /\ ScreensFit' /\ LoadedHaveUsers' /\ IdsFit' /\ IdsBounded'
  <2>1. AppStays /\ reads' = reads /\ used' \in [Events -> Nat] /\ overtaken' \in BOOLEAN
        /\ main' \in Seq(Blocks) /\ CallersStay
    BY DEF ServeAuth, AppStays, authVars, TypeInv, AppTyped, CallersStay, IdsBelow
  <2> QED
    BY <2>1, NoReadGoes, AppStaysFits
<1>3. conn' = "connected" /\ wire' \in Seq(Requests) /\ cred' \in Uids
  <2>1. CASE conn = "authenticating"
    <3>1. conn' = "connected" /\ RestoreState(Tail(wire)) /\ cred' = Head(wire).user
      BY <2>1 DEF ServeAuth
    <3>2. Tail(wire) \in Seq(Requests) /\ Head(wire).user \in Uids
      BY <1>1, NextRequest
    <3>3. Resent(Tail(wire))
      BY <3>1, <3>2, Restores
    <3> QED
      BY <3>1, <3>2, <3>3 DEF Resent
  <2>2. CASE conn = "connected"
    BY <1>1, <2>2, NextRequest DEF ServeAuth
  <2> QED
    BY <1>1, <2>1, <2>2, NextRequest
<1>4. ClientTyped' /\ ServerTyped' /\ NothingLeft' /\ WireFits'
  BY <1>3 DEF ServeAuth, TypeInv, ClientTyped, ServerTyped, NothingLeft, WireFits, serverVars, Phases
<1> QED
  BY <1>2, <1>4 DEF TypeInv

LEMMA ServePutTypes == ASSUME TypeInv, ServePut PROVE TypeInv'
<1> DEFINE p == Head(wire).put
<1>1. wire # <<>> /\ Head(wire).kind = "put" /\ p \in Puts /\ conn = "connected"
  <2>1. wire # <<>> /\ Head(wire).kind = "put"
    BY DEF ServePut
  <2>2. p \in Puts /\ conn \in {"authenticating", "connected"} /\ Head(wire) = wire[1]
        /\ Len(wire) \in Nat \ {0}
    BY <2>1, NextRequest
  <2>3. conn # "authenticating"
    BY <2>1, <2>2 DEF TypeInv, WireFits
  <2> QED
    BY <2>1, <2>2, <2>3
<1>2. AppTyped' /\ ScreensFit' /\ LoadedHaveUsers' /\ IdsFit' /\ IdsBounded'
  <2>1. AppStays /\ reads' = reads /\ used' \in [Events -> Nat] /\ overtaken' \in BOOLEAN
        /\ main' \in Seq(Blocks) /\ CallersStay
    BY DEF ServePut, AppStays, authVars, TypeInv, AppTyped, CallersStay, IdsBelow
  <2> QED
    BY <2>1, NoReadGoes, AppStaysFits
<1>3. puts' \in Seq(Puts)
  <2>1. PICK i \in DOMAIN puts : puts' = RemoveAt(puts, i)
    BY DEF ServePut
  <2>2. puts \in Seq(Puts) /\ i \in 1..Len(puts)
    BY <2>1 DEF TypeInv, ClientTyped
  <2> QED
    BY <2>1, <2>2, Removed
<1>4. wire' \in Seq(Requests)
  BY <1>1, NextRequest DEF ServePut
<1>5. p.uid \in Users /\ p.path = "diary" => p.day \in Days /\ p.value \in Nat
  BY <1>1 DEF Puts
<1>6. p.uid \in Users
  BY <1>1 DEF Puts
<1>7. ServerTyped'
  <2>1. diaries' \in [Users -> [Days -> Nat \cup {None}]]
    BY <1>5, <1>6 DEF ServePut, TypeInv, ServerTyped
  <2>2. records' \subseteq Users /\ gone' \subseteq Users /\ accounts' \subseteq Users
    BY <1>6 DEF ServePut, TypeInv, ServerTyped
  <2> QED
    BY <2>1, <2>2 DEF ServerTyped
<1>8. ClientTyped' /\ NothingLeft' /\ WireFits'
  BY <1>1, <1>3, <1>4 DEF ServePut, TypeInv, ClientTyped, NothingLeft, WireFits
<1> QED
  BY <1>2, <1>7, <1>8 DEF TypeInv

\* A read that has been answered marks its screen.
LEMMA FoundFits ==
  ASSUME TypeInv, NEW id, NEW what, Found(id, what),
         \A i \in 1..Len(stack) : stack[i].id = id =>
            IF stack[i].kind = "calendar" THEN what \subseteq Days ELSE what \in Nat
  PROVE  /\ stack' \in Seq(Screens) /\ ScreensStay /\ Len(stack') = Len(stack)
         /\ \A i \in 1..Len(stack) :
              /\ stack'[i].about = stack[i].about /\ stack'[i].asOf = stack[i].asOf
              /\ stack'[i].session = stack[i].session
              /\ stack'[i].found = IF stack[i].id = id THEN what ELSE stack[i].found
<1>1. Len(stack) \in Nat /\ DOMAIN stack = 1..Len(stack)
  BY Elements DEF TypeInv, AppTyped
<1>2. stack' = [i \in 1..Len(stack) |->
                  IF stack[i].id = id THEN [stack[i] EXCEPT !.found = what] ELSE stack[i]]
  BY <1>1 DEF Found
<1>3. ASSUME NEW i \in 1..Len(stack)
      PROVE  /\ stack'[i] \in Screens
             /\ stack'[i].id = stack[i].id /\ stack'[i].kind = stack[i].kind /\ stack'[i].uid = stack[i].uid
             /\ stack'[i].about = stack[i].about /\ stack'[i].asOf = stack[i].asOf
             /\ stack'[i].session = stack[i].session
             /\ stack'[i].found = IF stack[i].id = id THEN what ELSE stack[i].found
  <2>1. stack[i] \in Screens
    BY Elements
  <2>2. CASE stack[i].id = id
    <3>1. stack'[i] = [stack[i] EXCEPT !.found = what]
      BY <1>2, <2>2
    <3>2. what \in {None} \cup Nat \cup SUBSET Days
      BY <2>2
    <3> QED
      BY <2>1, <2>2, <3>1, <3>2 DEF Screens
  <2>3. CASE stack[i].id # id
    BY <1>2, <2>1, <2>3
  <2> QED
    BY <2>2, <2>3
<1>4. stack' \in Seq(Screens) /\ Len(stack') = Len(stack)
  <2>1. stack' \in [1..Len(stack) -> Screens]
    BY <1>2, <1>3
  <2> QED
    BY ONLY <1>1, <2>1
<1> QED
  BY <1>1, <1>3, <1>4 DEF ScreensStay

\* The days of a user are counted.
LEMMA UsageFits ==
  ASSUME NEW u
  PROVE  DaysWithDiary(u) \subseteq Days /\ DiaryUsage(u) \in Nat
<1>1. DaysWithDiary(u) \subseteq Days
  BY DEF DaysWithDiary
<1>2. LastDay \in Int /\ 1 \in Int
  BY SessionAssumption
<1>3. IsFiniteSet(Days)
  BY <1>2, FS_Interval DEF Days
<1>4. IsFiniteSet(DaysWithDiary(u))
  BY <1>1, <1>3, FS_Subset
<1> QED
  BY <1>1, <1>4, FS_CardinalityType DEF DiaryUsage

\* The answer to a read.
LEMMA AnswerFits ==
  ASSUME TypeInv, NEW r \in ReadSet, ReadAnswered(r), up = "running",
         \A i \in 1..Len(stack) : stack[i].id = r.id => stack[i].kind = r.for
  PROVE  /\ stack' \in Seq(Screens) /\ ScreensStay /\ Len(stack') = Len(stack)
         /\ up' \in {"running", "trapped"}
         /\ \A i \in 1..Len(stack) :
              /\ stack'[i].about = stack[i].about /\ stack'[i].asOf = stack[i].asOf
              /\ stack'[i].session = stack[i].session
              /\ \/ stack'[i].found = stack[i].found
                 \/ /\ stack[i].id = r.id /\ cred = r.uid
                    /\ \/ stack[i].kind = "calendar" /\ stack'[i].found = DaysWithDiary(r.uid)
                       \/ stack[i].kind = "image" /\ stack'[i].found \in Nat
<1>1. DaysWithDiary(r.uid) \subseteq Days /\ DiaryUsage(r.uid) \in Nat
  BY UsageFits
<1>2. CASE stack' = stack /\ (NoTrap \/ Trap("level"))
  BY <1>2, Elements DEF ScreensStay, NoTrap, Trap, TypeInv, AppTyped
<1>3. CASE r.for = "calendar" /\ cred = r.uid /\ NoTrap /\ Found(r.id, DaysWithDiary(r.uid))
  <2>1. \A i \in 1..Len(stack) : stack[i].id = r.id => stack[i].kind = "calendar"
    BY <1>3
  <2>2. /\ stack' \in Seq(Screens) /\ ScreensStay /\ Len(stack') = Len(stack)
        /\ \A i \in 1..Len(stack) :
             /\ stack'[i].about = stack[i].about /\ stack'[i].asOf = stack[i].asOf
             /\ stack'[i].session = stack[i].session
             /\ stack'[i].found = IF stack[i].id = r.id THEN DaysWithDiary(r.uid) ELSE stack[i].found
    BY <1>1, <1>3, <2>1, FoundFits
  <2> QED
    BY <1>3, <2>1, <2>2 DEF NoTrap
<1>4. CASE r.for # "calendar" /\ cred = r.uid /\ NoTrap /\ Found(r.id, DiaryUsage(r.uid))
  <2>1. \A i \in 1..Len(stack) : stack[i].id = r.id => stack[i].kind = "image"
    BY <1>4 DEF ReadSet
  <2>2. /\ stack' \in Seq(Screens) /\ ScreensStay /\ Len(stack') = Len(stack)
        /\ \A i \in 1..Len(stack) :
             /\ stack'[i].about = stack[i].about /\ stack'[i].asOf = stack[i].asOf
             /\ stack'[i].session = stack[i].session
             /\ stack'[i].found = IF stack[i].id = r.id THEN DiaryUsage(r.uid) ELSE stack[i].found
    BY <1>1, <1>4, <2>1, FoundFits
  <2> QED
    BY <1>1, <1>4, <2>1, <2>2 DEF NoTrap
<1>5. \/ stack' = stack /\ (NoTrap \/ Trap("level"))
      \/ r.for = "calendar" /\ cred = r.uid /\ NoTrap /\ Found(r.id, DaysWithDiary(r.uid))
      \/ r.for # "calendar" /\ cred = r.uid /\ NoTrap /\ Found(r.id, DiaryUsage(r.uid))
  BY DEF ReadAnswered
<1> QED
  BY <1>2, <1>3, <1>4, <1>5

LEMMA ServeGetTypes == ASSUME TypeInv, ServeGet PROVE TypeInv'
<1>0. up = "running" /\ wire # <<>> /\ Head(wire).kind = "get" /\ wire' = Tail(wire)
  BY DEF ServeGet
<1>1. PICK i \in 1..Len(reads) :
        reads[i].id = Head(wire).id /\ reads' = RemoveAt(reads, i) /\ ReadAnswered(reads[i])
  <2>1. DOMAIN reads = 1..Len(reads)
    BY DEF TypeInv, ClientTyped
  <2> QED
    BY <2>1 DEF ServeGet
<1>2. reads' \in Seq(ReadSet) /\ ReadsShrink
  BY <1>1, ReadGoes
<1>3. /\ stack' \in Seq(Screens) /\ ScreensStay /\ Len(stack') = Len(stack)
      /\ up' \in {"running", "trapped"}
      /\ \A j \in 1..Len(stack) :
           /\ stack'[j].about = stack[j].about
           /\ \/ stack'[j].found = stack[j].found
              \/ stack[j].kind = "calendar" /\ stack'[j].found = DaysWithDiary(reads[i].uid)
              \/ stack[j].kind = "image" /\ stack'[j].found \in Nat
  <2>1. reads[i] \in ReadSet
    BY Elements
  <2>2. \A j \in 1..Len(stack) : stack[j].id = reads[i].id => stack[j].kind = reads[i].for
    BY DEF TypeInv, IdsFit
  <2> QED
    BY <1>0, <1>1, <2>1, <2>2, AnswerFits
<1>4. CallersStay /\ posts' \subseteq posts
  BY DEF ServeGet, CallersStay, IdsBelow
<1>5. IdsFit' /\ IdsBounded'
  BY <1>2, <1>3, <1>4, IdsStay
<1>6. AppTyped'
  BY <1>3 DEF ServeGet, authVars, TypeInv, AppTyped
<1>7. ScreensFit' /\ LoadedHaveUsers' /\ NothingLeft'
  <2>0. Len(stack) \in Nat /\ DaysWithDiary(reads[i].uid) \subseteq Days
    BY Elements, UsageFits
  <2>1. \A j \in 1..Len(stack') :
           /\ stack'[j].kind = "diary" => stack'[j].about \in 1..today'
           /\ stack'[j].kind = "image" => stack'[j].about \in Nat
           /\ stack'[j].found # None => IF stack'[j].kind = "calendar" THEN stack'[j].found \subseteq Days
                                                                      ELSE stack'[j].found \in Nat
    BY <1>3, <2>0 DEF ServeGet, TypeInv, ScreensFit, ScreensStay
  <2>2. stack' # <<>> /\ stack'[1].kind = "login"
    <3>1. stack # <<>> /\ stack[1].kind = "login"
      BY <1>0 DEF TypeInv, ScreensFit
    <3>2. 1 \in 1..Len(stack')
      BY <1>3, <2>0, <3>1
    <3> QED
      BY <1>3, <3>1, <3>2 DEF ScreensStay
  <2>3. LoadedHaveUsers'
    BY <1>0, <1>3 DEF TypeInv, LoadedHaveUsers, ScreensStay
  <2>4. NothingLeft'
    BY <1>3 DEF NothingLeft
  <2> QED
    BY <2>1, <2>2, <2>3, <2>4 DEF ScreensFit
<1>8. ClientTyped' /\ ServerTyped' /\ WireFits'
  <2>1. wire' \in Seq(Requests) /\ conn = "connected"
    BY <1>0, NextRequest DEF TypeInv, WireFits
  <2> QED
    BY <1>2, <2>1 DEF ServeGet, TypeInv, ClientTyped, ServerTyped, WireFits, serverVars
<1> QED
  BY <1>5, <1>6, <1>7, <1>8 DEF TypeInv

-----------------------------------------------------------------------------
(* The main queue's blocks of the client                                   *)

LEMMA TokenBlockTypes ==
  ASSUME TypeInv, MainQueue, Head(main).kind = "token", fetch # None
  PROVE  TypeInv'
<1>1. TokenArrives /\ NoTrap /\ stack' = stack /\ gone' = gone /\ up = "running" /\ main # <<>>
  BY DEF MainQueue
<1>2. CallersStay /\ main' \in Seq(Blocks)
  BY <1>1, BlockGoes, NextBlock DEF MainQueue
<1>3. AppTyped' /\ ScreensFit' /\ LoadedHaveUsers' /\ IdsFit' /\ IdsBounded'
  <2>1. AppStays /\ reads' = reads /\ used' \in [Events -> Nat]
    BY <1>1 DEF MainQueue, TokenArrives, NoTrap, AppStays, authVars, TypeInv, AppTyped
  <2>2. overtaken' \in BOOLEAN
    BY <1>1 DEF TokenArrives
  <2> QED
    BY <1>2, <2>1, <2>2, NoReadGoes, AppStaysFits
<1>4. conn = "gettingToken" /\ fetch \in Fetches
  BY DEF TypeInv, ClientTyped
<1>5. authToken' \in Tokens
  BY <1>1, <1>4 DEF TokenArrives, Fetches, Tokens, Uids
<1>6. ClientTyped' /\ ServerTyped' /\ NothingLeft' /\ WireFits'
  BY <1>1, <1>4, <1>5 DEF TokenArrives, NoTrap, MainQueue, TypeInv, ClientTyped, ServerTyped, NothingLeft, WireFits,
     serverVars, Phases
<1> QED
  BY <1>3, <1>6 DEF TypeInv

LEMMA NotifyBlockTypes ==
  ASSUME TypeInv, MainQueue, Head(main).kind = "notify"
  PROVE  TypeInv'
<1> DEFINE b == Head(main)
<1>1. /\ RefreshAuthToken(b.user, b.session) /\ NoTrap /\ stack' = stack /\ gone' = gone
      /\ up = "running" /\ main # <<>>
  BY DEF MainQueue
<1>2. CallersStay /\ main' \in Seq(Blocks)
  BY <1>1, BlockGoes, NextBlock DEF MainQueue
<1>3. b.user \in Uids /\ b.session \in Nat
  <2>1. b \in Blocks
    BY <1>1, NextBlock
  <2> QED
    BY <2>1 DEF Blocks, Done
<1>4. AppTyped' /\ ScreensFit' /\ LoadedHaveUsers' /\ IdsFit' /\ IdsBounded'
  <2>1. AppStays /\ reads' = reads /\ used' \in [Events -> Nat]
    BY <1>1 DEF MainQueue, RefreshAuthToken, NoTrap, AppStays, authVars, TypeInv, AppTyped
  <2>2. overtaken' \in BOOLEAN
    BY <1>1 DEF RefreshAuthToken, TypeInv, AppTyped
  <2> QED
    BY <1>2, <2>1, <2>2, NoReadGoes, AppStaysFits
<1>5. authToken' \in Tokens
  BY <1>1, <1>3 DEF RefreshAuthToken, Tokens, TypeInv, ClientTyped
<1>6. /\ wire' \in Seq(Requests)
      /\ conn \notin {"authenticating", "connected"} => wire' = <<>>
      /\ conn = "authenticating" => wire' # <<>> /\ \A m \in 1..Len(wire') : wire'[m].kind = "auth"
  <2>1. AuthRequest(b.user) \in Requests /\ AuthRequest(b.user).kind = "auth"
    BY <1>3, RequestTypes
  <2>2. CASE conn \notin {"authenticating", "connected"}
    BY <1>1, <2>2 DEF RefreshAuthToken, TypeInv, ClientTyped, WireFits
  <2>3. CASE conn \in {"authenticating", "connected"}
    <3>1. wire' = Append(wire, AuthRequest(b.user)) /\ wire \in Seq(Requests)
      BY <1>1, <2>3 DEF RefreshAuthToken, TypeInv, ClientTyped
    <3>2. /\ wire' \in Seq(Requests) /\ wire' # <<>> /\ Len(wire) \in Nat /\ Len(wire') = Len(wire) + 1
          /\ \A m \in 1..Len(wire) : wire'[m] = wire[m]
          /\ wire'[Len(wire) + 1] = AuthRequest(b.user)
      BY <2>1, <3>1
    <3>3. conn = "authenticating" => \A m \in 1..Len(wire) : wire[m].kind = "auth"
      BY DEF TypeInv, WireFits
    <3> QED
      BY <2>1, <2>3, <3>2, <3>3
  <2> QED
    BY <2>2, <2>3
<1>7. ClientTyped' /\ ServerTyped' /\ NothingLeft' /\ WireFits'
  BY <1>1, <1>5, <1>6 DEF RefreshAuthToken, NoTrap, MainQueue, TypeInv, ClientTyped, ServerTyped, NothingLeft,
     WireFits, serverVars
<1> QED
  BY <1>4, <1>7 DEF TypeInv

-----------------------------------------------------------------------------
(* The screens                                                             *)

\* A screen comes on top.
LEMMA AppendFits ==
  ASSUME TypeInv, up = "running", NEW s, Comes(s), today' = today,
         up' = "running" => s.kind \in {"login", "register", "plus"} \/ s.uid # NoUser
  PROVE  stack' \in Seq(Screens) /\ ScreensFit' /\ LoadedHaveUsers'
<1>1. /\ s \in Screens /\ s.found = None /\ s.uid \in Uids
      /\ s.kind = "diary" => s.about \in 1..today
      /\ s.kind = "image" => s.about \in Nat
      /\ stack' = Append(stack, s)
  BY DEF Comes, Screens
<1>2. PICK n : n = Len(stack)
  OBVIOUS
<1>3. /\ n \in Nat /\ stack' \in Seq(Screens) /\ Len(stack') = n + 1
      /\ \A i \in 1..n : stack'[i] = stack[i]
      /\ stack'[n + 1] = s
  BY <1>1, <1>2 DEF TypeInv, AppTyped
<1>4. \A i \in 1..Len(stack') : i \in 1..n \/ i = n + 1
  BY <1>3
<1>5. up' = "running" => s.kind \in {"login", "register", "plus"} \/ s.uid # NoUser
  OBVIOUS
<1>6. ScreensFit'
  <2>1. n # 0 /\ stack[1].kind = "login"
    BY <1>2 DEF TypeInv, ScreensFit, AppTyped
  <2>2. stack' # <<>> /\ stack'[1].kind = "login"
    BY <1>3, <2>1
  <2>3. \A i \in 1..n :
          /\ stack[i].kind = "diary" => stack[i].about \in 1..today
          /\ stack[i].kind = "image" => stack[i].about \in Nat
          /\ stack[i].found # None => IF stack[i].kind = "calendar" THEN stack[i].found \subseteq Days
                                                                    ELSE stack[i].found \in Nat
    BY <1>2 DEF TypeInv, ScreensFit
  <2>4. ASSUME NEW i \in 1..Len(stack')
        PROVE  /\ stack'[i].kind = "diary" => stack'[i].about \in 1..today'
               /\ stack'[i].kind = "image" => stack'[i].about \in Nat
               /\ stack'[i].found # None => IF stack'[i].kind = "calendar" THEN stack'[i].found \subseteq Days
                                                                           ELSE stack'[i].found \in Nat
    <3>1. CASE i \in 1..n
      BY <1>3, <2>3, <3>1
    <3>2. CASE i = n + 1
      BY <1>1, <1>3, <3>2
    <3> QED
      BY <1>4, <3>1, <3>2
  <2> QED
    BY <2>2, <2>4 DEF ScreensFit
<1>7. LoadedHaveUsers'
  <2>1. \A i \in 1..n : stack[i].kind \notin {"login", "register", "plus"} => stack[i].uid \in Users
    BY <1>2 DEF TypeInv, LoadedHaveUsers
  <2>2. ASSUME up' = "running", NEW i \in 1..Len(stack'), stack'[i].kind \notin {"login", "register", "plus"}
        PROVE  stack'[i].uid \in Users
    <3>1. CASE i \in 1..n
      BY <1>3, <2>1, <2>2, <3>1
    <3>2. CASE i = n + 1
      BY <1>1, <1>3, <1>5, <2>2, <3>2 DEF Uids
    <3> QED
      BY <1>4, <3>1, <3>2
  <2> QED
    BY <2>2 DEF LoadedHaveUsers
<1> QED
  BY <1>3, <1>6, <1>7

\* The client of a step that queues writes or reads.
LEMMA ClientFits ==
  ASSUME TypeInv, UNCHANGED <<fetch, authToken, cred>>, conn' \in {conn, Opened},
         puts' \in Seq(Puts), reads' \in Seq(ReadSet), wire' \in Seq(Requests),
         conn # "connected" => wire' = wire
  PROVE  ClientTyped' /\ WireFits'
BY DEF Opened, TypeInv, ClientTyped, WireFits, Phases

LEMMA WrittenFits ==
  ASSUME TypeInv, NEW p, Written(p)
  PROVE  puts' \in Seq(Puts) /\ wire' \in Seq(Requests) /\ (conn # "connected" => wire' = wire)
<1>1. puts \in Seq(Puts) /\ wire \in Seq(Requests)
  BY DEF TypeInv, ClientTyped
<1>2. p \in Puts /\ PutRequest(p) \in Requests
  BY RequestTypes DEF Written
<1> QED
  BY <1>1, <1>2 DEF Written

\* Pushing a screen.
LEMMA PushFits ==
  ASSUME TypeInv, up = "running", NEW s, Comes(s), Push(s),
         posts' \subseteq posts, CallersStay,
         UNCHANGED <<fetch, authToken, puts, cred, today>>
  PROVE  /\ stack' \in Seq(Screens) /\ up' \in {"running", "trapped"}
         /\ ScreensFit' /\ LoadedHaveUsers' /\ NothingLeft' /\ ClientTyped' /\ WireFits'
         /\ IdsFit' /\ IdsBounded'
<1>1. s \in Screens
  BY DEF Comes
<1>5. /\ up' \in {"running", "trapped"}
      /\ up' = "running" => s.kind \in {"login", "register", "plus"} \/ s.uid # NoUser
  BY DEF Push, Loads, NoTrap, Trap
<1>6. stack' \in Seq(Screens) /\ ScreensFit' /\ LoadedHaveUsers'
  BY <1>5, AppendFits
<1>8. /\ reads' = reads \/ ReadComes(s)
      /\ reads' \in Seq(ReadSet) /\ wire' \in Seq(Requests)
      /\ conn # "connected" => wire' = wire
  <2>1. CASE reads' = reads /\ wire' = wire
    BY <2>1 DEF TypeInv, ClientTyped
  <2>2. CASE s.kind \in {"image", "calendar"} /\ s.uid # NoUser /\ GetData(s)
    <3> DEFINE r == [id |-> s.id, uid |-> s.uid, for |-> s.kind]
    <3>1. r \in ReadSet /\ s.uid \in Users
      BY <1>1, <2>2 DEF ReadSet, Screens, Uids
    <3>2. reads' = Append(reads, r) /\ wire' = IF conn = "connected" THEN Append(wire, GetRequest(r)) ELSE wire
      BY <2>2 DEF GetData, Send
    <3>3. GetRequest(r) \in Requests
      BY <3>1, RequestTypes
    <3>4. ReadComes(s)
      BY <2>2, <3>1, <3>2 DEF ReadComes
    <3> HIDE DEF r
    <3> QED
      BY <3>1, <3>2, <3>3, <3>4 DEF TypeInv, ClientTyped
  <2>3. \/ reads' = reads /\ wire' = wire
        \/ s.kind \in {"image", "calendar"} /\ s.uid # NoUser /\ GetData(s)
    BY DEF Push, Reads
  <2> QED
    BY <2>1, <2>2, <2>3
<1>9. IdsFit' /\ IdsBounded'
  BY <1>8, IdsOfNew
<1>10. conn' \in {conn, Opened} /\ puts' \in Seq(Puts)
  BY DEF Push, TypeInv, ClientTyped
<1>11. ClientTyped' /\ WireFits'
  BY <1>8, <1>10, ClientFits
<1>12. NothingLeft'
  BY <1>5 DEF NothingLeft
<1> QED
  BY <1>5, <1>6, <1>9, <1>11, <1>12

\* A screen for a user, with the day or the save it is about.
NewAbout(kind, about, s) == s = [Screen(kind, FreshId) EXCEPT !.about = about]

LEMMA NewComes ==
  ASSUME TypeInv, NEW kind \in Kinds, NEW about \in Nat \cup {None},
         kind = "diary" => about \in 1..today, kind = "image" => about \in Nat,
         NEW s, NewAbout(kind, about, s), stack' = Append(stack, s)
  PROVE  /\ Comes(s) /\ s.kind = kind /\ s.about = about /\ s.found = None
         /\ s.uid = IF kind \in {"login", "register"} THEN NoUser ELSE currentUser
         /\ s.session = IF kind = "mypage" THEN session ELSE 0
         /\ s.asOf = IF kind = "calendar" THEN used.save ELSE 0
<1>1. FreshId \in Nat /\ currentUser \in Uids
  BY FreshIdIsNew DEF TypeInv, AppTyped
<1>2. PICK f : f = FreshId
  OBVIOUS
<1>3. PICK t : t = NewScreen(kind, f, currentUser)
  OBVIOUS
<1>4. /\ t \in Screens
      /\ t.kind = kind /\ t.id = f /\ t.found = None /\ t.about = None
      /\ t.uid = IF kind \in {"login", "register"} THEN NoUser ELSE currentUser
      /\ t.session = IF kind = "mypage" THEN session ELSE 0
      /\ t.asOf = IF kind = "calendar" THEN used.save ELSE 0
  BY <1>1, <1>2, <1>3, Counters, NewScreenFits
<1>5. s = [t EXCEPT !.about = about]
  BY <1>2, <1>3 DEF Screen, NewAbout
<1>6. /\ s \in Screens /\ s.about = about
      /\ s.kind = t.kind /\ s.id = t.id /\ s.uid = t.uid /\ s.session = t.session
      /\ s.asOf = t.asOf /\ s.found = t.found
  BY <1>4, <1>5 DEF Screens
<1> QED
  BY <1>2, <1>4, <1>6 DEF Comes

\* The same for a screen that is about nothing.
LEMMA PlainComes ==
  ASSUME TypeInv, NEW kind \in Kinds, kind \notin {"diary", "image"},
         NEW s, s = Screen(kind, FreshId), stack' = Append(stack, s)
  PROVE  /\ Comes(s) /\ s.kind = kind /\ s.about = None /\ s.found = None
         /\ s.uid = IF kind \in {"login", "register"} THEN NoUser ELSE currentUser
         /\ s.session = IF kind = "mypage" THEN session ELSE 0
         /\ s.asOf = IF kind = "calendar" THEN used.save ELSE 0
<1>1. FreshId \in Nat /\ currentUser \in Uids
  BY FreshIdIsNew DEF TypeInv, AppTyped
<1>2. PICK f : f = FreshId
  OBVIOUS
<1>3. s = NewScreen(kind, f, currentUser)
  BY <1>2 DEF Screen
<1>4. /\ s \in Screens
      /\ s.kind = kind /\ s.id = f /\ s.found = None /\ s.about = None
      /\ s.uid = IF kind \in {"login", "register"} THEN NoUser ELSE currentUser
      /\ s.session = IF kind = "mypage" THEN session ELSE 0
      /\ s.asOf = IF kind = "calendar" THEN used.save ELSE 0
  BY <1>1, <1>2, <1>3, Counters, NewScreenFits
<1> QED
  BY <1>2, <1>4 DEF Comes

LEMMA ButtonClickedTypes ==
  ASSUME TypeInv, NEW g \in Goes, ButtonClicked(g[1], g[2])
  PROVE  TypeInv'
<1>1. up = "running" /\ used' \in [Events -> Nat]
  BY Spends DEF ButtonClicked, InFront, TypeInv, AppTyped, Events
<1>2. PICK day \in IF g[2] = "diary" THEN 1..today ELSE {today} :
        Push([Screen(g[2], FreshId) EXCEPT !.about = IF g[2] = "diary" THEN day ELSE None])
  BY DEF ButtonClicked
<1>3. PICK s : s = [Screen(g[2], FreshId) EXCEPT !.about = IF g[2] = "diary" THEN day ELSE None]
  OBVIOUS
<1>4. Push(s) /\ stack' = Append(stack, s)
  BY <1>2, <1>3 DEF Push
<1>5. g[2] \in Kinds \ {"login", "image"}
  BY DEF Goes, Kinds
<1>6. Comes(s) /\ s.kind = g[2]
  <2>1. CASE g[2] = "diary"
    <3>1. today \in Nat /\ day \in 1..today
      BY <1>2, <2>1, SessionAssumption DEF TypeInv, AppTyped, Days
    <3>2. day \in Nat \cup {None}
      BY <3>1
    <3>3. NewAbout("diary", day, s)
      BY <1>3, <2>1 DEF NewAbout
    <3> QED
      BY <1>4, <2>1, <3>1, <3>2, <3>3, NewComes DEF Kinds
  <2>2. CASE g[2] # "diary"
    <3>1. NewAbout(g[2], None, s)
      BY <1>3, <2>2 DEF NewAbout
    <3>2. PICK k, x : k = g[2] /\ x = None
      OBVIOUS
    <3>3. k \in Kinds /\ k # "diary" /\ k # "image"
      BY <1>5, <2>2, <3>2
    <3>4. x \in Nat \cup {None} /\ NewAbout(k, x, s) /\ stack' = Append(stack, s)
      BY <1>4, <3>1, <3>2
    <3>5. Comes(s) /\ s.kind = k
      BY <3>3, <3>4, NewComes
    <3> QED
      BY <3>2, <3>5
  <2> QED
    BY <2>1, <2>2
<1>7. posts' \subseteq posts /\ CallersStay /\ UNCHANGED <<fetch, authToken, puts, cred, today>>
  BY DEF ButtonClicked, CallersStay, IdsBelow
<1>8. /\ stack' \in Seq(Screens) /\ up' \in {"running", "trapped"}
      /\ ScreensFit' /\ LoadedHaveUsers' /\ NothingLeft' /\ ClientTyped' /\ WireFits'
      /\ IdsFit' /\ IdsBounded'
  BY <1>1, <1>4, <1>5, <1>6, <1>7, PushFits
<1>9. AppTyped' /\ ServerTyped'
  BY <1>1, <1>8 DEF ButtonClicked, TypeInv, AppTyped, ServerTyped, authVars, serverVars
<1> QED
  BY <1>8, <1>9 DEF TypeInv

LEMMA BackTypes == ASSUME TypeInv, Back PROVE TypeInv'
<1>1. used' \in [Events -> Nat] /\ up = "running" /\ up' = "running"
  BY Spends DEF Back, TypeInv, AppTyped, Events
<1>2. PICK n : n = Len(stack)
  OBVIOUS
<1>3. /\ n \in Nat /\ n > 1 /\ stack' \in Seq(Screens) /\ Len(stack') = n - 1
      /\ \A i \in 1..Len(stack') : i \in 1..n /\ stack'[i] = stack[i]
  BY <1>2 DEF Back, TypeInv, AppTyped
<1>4. ScreensStay
  BY <1>2, <1>3 DEF ScreensStay
<1>5. posts' \subseteq posts /\ CallersStay /\ reads' = reads
  BY DEF Back, clientVars, CallersStay, IdsBelow
<1>6. IdsFit' /\ IdsBounded'
  BY <1>4, <1>5, NoReadGoes, IdsStay
<1>7. ScreensFit'
  <2>1. \A i \in 1..n :
          /\ stack[i].kind = "diary" => stack[i].about \in 1..today
          /\ stack[i].kind = "image" => stack[i].about \in Nat
          /\ stack[i].found # None => IF stack[i].kind = "calendar" THEN stack[i].found \subseteq Days
                                                                    ELSE stack[i].found \in Nat
    BY <1>2 DEF TypeInv, ScreensFit
  <2>2. stack[1].kind = "login" /\ 1 \in 1..Len(stack')
    BY <1>1, <1>3 DEF TypeInv, ScreensFit
  <2>3. stack' # <<>> /\ stack'[1].kind = "login"
    BY <1>3, <2>2
  <2>4. today' = today
    BY DEF Back
  <2> QED
    BY <1>3, <2>1, <2>3, <2>4 DEF ScreensFit
<1>8. LoadedHaveUsers' /\ NothingLeft'
  BY <1>1, <1>2, <1>3 DEF TypeInv, LoadedHaveUsers, NothingLeft
<1>9. AppTyped'
  BY <1>1, <1>3 DEF Back, TypeInv, AppTyped, authVars
<1>10. ClientTyped' /\ ServerTyped' /\ WireFits'
  BY DEF Back, clientVars, serverVars, TypeInv, ClientTyped, ServerTyped, WireFits
<1> QED
  BY <1>6, <1>7, <1>8, <1>9, <1>10 DEF TypeInv

-----------------------------------------------------------------------------
(* Accounts                                                                *)

\* The click that makes a call: only the calls grow.
LEMMA CallTypes ==
  ASSUME TypeInv, NEW kind \in Done, NEW user \in Users, NEW number \in Nat, Call(kind, user, number)
  PROVE  TypeInv'
<1>1. used' \in [Events -> Nat] /\ up = "running"
  BY Spends DEF Call, TypeInv, AppTyped, Events
<1>2. PICK n : n = Len(stack)
  OBVIOUS
<1>3. n \in Nat \ {0} /\ Top = stack[n] /\ Top \in Screens
  BY <1>1, <1>2, Elements DEF Top, TypeInv, ScreensFit, AppTyped
<1>4. PICK c : c = [kind |-> kind, id |-> Top.id, user |-> user, session |-> number]
  OBVIOUS
<1>5. c \in CallSet /\ c.id = stack[n].id
  BY <1>3, <1>4 DEF CallSet, Screens
<1>6. calls' = calls \cup {c}
  BY <1>4 DEF Call
<1>7. UNCHANGED <<stack, main, posts, reads, up, currentUser, session, address, today, strayed, overtaken>>
      /\ hurried' \in BOOLEAN
  BY DEF Call, clientVars, authVars, TypeInv, AppTyped
<1>8. CallersStay
  <2>1. ASSUME NEW b \in Nat, IdsBelow(b) PROVE \A d \in calls' : d.id <= b
    BY <1>2, <1>3, <1>5, <1>6, <2>1 DEF IdsBelow
  <2> QED
    BY <1>7, <2>1 DEF CallersStay, IdsBelow
<1>9. IdsFit' /\ IdsBounded'
  <2>1. ScreensStay /\ posts' \subseteq posts
    BY <1>2, <1>3, <1>7 DEF ScreensStay
  <2> QED
    BY <1>7, <1>8, <2>1, NoReadGoes, IdsStay
<1>10. AppTyped' /\ ScreensFit' /\ LoadedHaveUsers' /\ NothingLeft'
  BY <1>1, <1>5, <1>6, <1>7 DEF TypeInv, AppTyped, ScreensFit, LoadedHaveUsers, NothingLeft
<1>11. ClientTyped' /\ ServerTyped' /\ WireFits'
  BY DEF Call, clientVars, serverVars, TypeInv, ClientTyped, ServerTyped, WireFits
<1> QED
  BY <1>9, <1>10, <1>11 DEF TypeInv

\* The screen in front of a running app.
LEMMA TopFits ==
  ASSUME TypeInv, up = "running"
  PROVE  /\ Len(stack) \in Nat \ {0} /\ Top = stack[Len(stack)] /\ Top \in Screens
         /\ Top.kind \notin {"login", "register", "plus"} => Top.uid \in Users
<1>1. PICK n : n = Len(stack)
  OBVIOUS
<1>2. n \in Nat \ {0} /\ Top = stack[n] /\ Top \in Screens
  BY <1>1, Elements DEF Top, TypeInv, ScreensFit, AppTyped
<1> QED
  BY <1>1, <1>2 DEF TypeInv, LoadedHaveUsers

LEMMA ClickTypes ==
  ASSUME TypeInv, LoginButtonClick \/ RegisterButtonClick \/ DeleteUserClicked
  PROVE  TypeInv'
<1>1. CASE LoginButtonClick
  BY <1>1, CallTypes DEF LoginButtonClick, Done
<1>2. CASE RegisterButtonClick
  BY <1>2, CallTypes DEF RegisterButtonClick, Done
<1>3. CASE DeleteUserClicked
  <2>1. up = "running" /\ Top.kind = "mypage" /\ Call("delete", Top.uid, Top.session)
    BY <1>3 DEF DeleteUserClicked, InFront
  <2>2. Top.uid \in Users /\ Top.session \in Nat
    BY <2>1, TopFits DEF Screens
  <2>3. PICK u, n : u = Top.uid /\ n = Top.session
    OBVIOUS
  <2>4. u \in Users /\ n \in Nat /\ Call("delete", u, n) /\ "delete" \in Done
    BY <2>1, <2>2, <2>3 DEF Done
  <2> QED
    BY <2>4, CallTypes
<1> QED
  BY <1>1, <1>2, <1>3

\* A change of the user is announced, with what follows it.
LEMMA UpdateFits ==
  ASSUME TypeInv, NEW user \in Uids, NEW completion \in Seq(Blocks), UpdateCurrentUser(user, completion),
         Len(completion) \in {0, 1},
         \A b \in Nat : IdsBelow(b) => \A i \in 1..Len(completion) : completion[i].id <= b,
         calls' \subseteq calls
  PROVE  /\ currentUser' = user /\ session' = session + 1 /\ session' \in Nat
         /\ main' \in Seq(Blocks) /\ CallersStay
         /\ Len(main) \in Nat /\ Len(main') = Len(main) + 1 + Len(completion)
         /\ \A i \in 1..Len(main) : main'[i] = main[i]
         /\ main'[Len(main) + 1] = [kind |-> "notify", id |-> 0, user |-> user, session |-> session + 1]
         /\ Len(completion) = 1 => main'[Len(main) + 2] = completion[1]
<1>1. PICK note : note = [kind |-> "notify", id |-> 0, user |-> user, session |-> session + 1]
  OBVIOUS
<1>2. session + 1 \in Nat /\ main \in Seq(Blocks)
  BY DEF TypeInv, AppTyped
<1>3. note \in Blocks /\ note.id = 0
  BY <1>1, <1>2 DEF Blocks
<1>4. PICK H : H = main \o <<note>>
  OBVIOUS
<1>5. /\ H \in Seq(Blocks) /\ Len(main) \in Nat /\ Len(H) = Len(main) + 1
      /\ \A i \in 1..Len(main) : H[i] = main[i]
      /\ H[Len(main) + 1] = note
  <2>1. H = Append(main, note)
    BY <1>2, <1>3, <1>4
  <2> QED
    BY <1>2, <1>3, <2>1
<1>6. main' = H \o completion
  BY <1>1, <1>4 DEF UpdateCurrentUser
<1>7. /\ main' \in Seq(Blocks) /\ Len(main') = Len(H) + Len(completion)
      /\ \A i \in 1..Len(H) : main'[i] = H[i]
      /\ \A i \in 1..Len(completion) : main'[Len(H) + i] = completion[i]
  <2>1. H \in Seq(Blocks)
    BY <1>5
  <2> QED
    BY ONLY <1>6, <2>1, Joined
<1>8. /\ \A i \in 1..Len(main) : main'[i] = main[i]
      /\ main'[Len(main) + 1] = note
      /\ Len(completion) = 1 => main'[Len(main) + 2] = completion[1]
  <2>1. \A i \in 1..Len(main) : main'[i] = main[i]
    BY <1>5, <1>7
  <2>2. main'[Len(main) + 1] = note
    BY <1>5, <1>7
  <2>3. Len(completion) = 1 => main'[Len(main) + 2] = completion[1]
    BY <1>5, <1>7
  <2> QED
    BY <2>1, <2>2, <2>3
<1>9. CallersStay
  <2>1. ASSUME NEW b \in Nat, IdsBelow(b), NEW i \in 1..Len(main') PROVE main'[i].id <= b
    <3>1. CASE i \in 1..Len(main)
      BY <1>8, <2>1, <3>1 DEF IdsBelow
    <3>2. CASE i = Len(main) + 1
      BY <1>3, <1>8, <2>1, <3>2
    <3>3. CASE i = Len(main) + 2 /\ Len(completion) = 1
      BY <1>8, <2>1, <3>3
    <3>4. PICK m, k : m = Len(main) /\ k = Len(completion)
      OBVIOUS
    <3>5. m \in Nat /\ k \in {0, 1} /\ i \in 1..(m + 1) + k
      BY <1>5, <1>7, <3>4
    <3>6. i \in 1..m \/ i = m + 1 \/ (i = m + 2 /\ k = 1)
      BY ONLY <3>5
    <3> QED
      BY <3>1, <3>2, <3>3, <3>4, <3>6
  <2> QED
    BY <2>1 DEF CallersStay, IdsBelow
<1> QED
  BY <1>1, <1>2, <1>5, <1>7, <1>8, <1>9 DEF UpdateCurrentUser

\* The app of a step that only changes the user and what is announced.
LEMMA AccountStays ==
  ASSUME TypeInv, UNCHANGED <<up, stack, posts, reads, address, today, strayed, hurried, overtaken>>,
         currentUser' \in Uids, session' \in Nat, calls' \subseteq calls, main' \in Seq(Blocks), CallersStay,
         used' \in [Events -> Nat], up # "dead"
  PROVE  AppTyped' /\ ScreensFit' /\ LoadedHaveUsers' /\ NothingLeft' /\ IdsFit' /\ IdsBounded'
<1>1. ScreensStay /\ posts' \subseteq posts
  BY Elements DEF ScreensStay
<1>2. IdsFit' /\ IdsBounded'
  BY <1>1, NoReadGoes, IdsStay
<1>3. AppTyped'
  BY DEF TypeInv, AppTyped
<1>4. ScreensFit' /\ LoadedHaveUsers' /\ NothingLeft'
  BY DEF TypeInv, ScreensFit, LoadedHaveUsers, NothingLeft
<1> QED
  BY <1>2, <1>3, <1>4

\* The answer of a call, as it waits in the main queue.
LEMMA CompletionFits ==
  ASSUME TypeInv, NEW c \in calls
  PROVE  /\ Completion(c) \in Seq(Blocks) /\ Len(Completion(c)) = 1
         /\ Completion(c)[1] = [kind |-> c.kind, id |-> c.id, user |-> c.user]
         /\ \A b \in Nat : IdsBelow(b) => \A i \in 1..Len(Completion(c)) : Completion(c)[i].id <= b
         /\ c.kind \in Done /\ c.user \in Users /\ c.id \in Nat /\ c.session \in Nat
<1>1. c.kind \in Done /\ c.user \in Users /\ c.id \in Nat /\ c.session \in Nat
  BY DEF TypeInv, AppTyped, CallSet
<1>2. PICK b : b = [kind |-> c.kind, id |-> c.id, user |-> c.user]
  OBVIOUS
<1>3. b \in Blocks /\ b.id = c.id
  BY <1>1, <1>2 DEF Blocks
<1>4. Completion(c) = <<b>>
  BY <1>2 DEF Completion
<1> QED
  BY <1>1, <1>2, <1>3, <1>4 DEF IdsBelow

LEMMA ExecutedFits ==
  ASSUME TypeInv, NEW c \in calls
  PROVE  Executed(c) \subseteq Users
<1>1. c.kind \in Done /\ c.user \in Users /\ accounts \subseteq Users
  BY DEF TypeInv, AppTyped, CallSet, ServerTyped
<1> QED
  BY <1>1 DEF Executed, Done

LEMMA CallSucceedsTypes == ASSUME TypeInv, NEW c \in calls, CallSucceeds(c) PROVE TypeInv'
<1>1. /\ UNCHANGED <<up, stack, posts, reads, address, today, strayed, hurried, overtaken, used>>
      /\ calls' \subseteq calls /\ up = "running"
  BY DEF CallSucceeds, clientVars
<1>2. PICK comp : comp = Completion(c)
  OBVIOUS
<1>3. /\ comp \in Seq(Blocks) /\ Len(comp) \in {0, 1}
      /\ \A b \in Nat : IdsBelow(b) => \A i \in 1..Len(comp) : comp[i].id <= b
      /\ c.kind \in Done /\ c.user \in Uids
  BY <1>2, CompletionFits DEF Uids
<1>4. currentUser' \in Uids /\ session' \in Nat /\ main' \in Seq(Blocks) /\ CallersStay
  <2>1. ASSUME NEW user \in Uids, UpdateCurrentUser(user, comp)
        PROVE  currentUser' \in Uids /\ session' \in Nat /\ main' \in Seq(Blocks) /\ CallersStay
    BY <1>1, <1>3, <2>1, UpdateFits
  <2>2. CASE main' = main \o comp /\ UNCHANGED authVars
    <3>1. PICK b : b = [kind |-> c.kind, id |-> c.id, user |-> c.user]
      OBVIOUS
    <3>2. b \in Blocks /\ b.id = c.id /\ comp = <<b>>
      BY <1>2, <1>3, <3>1, CompletionFits DEF Blocks, Completion
    <3>3. main' = Append(main, b)
      BY <2>2, <3>2 DEF TypeInv, AppTyped
    <3>4. CallersStay /\ main' \in Seq(Blocks)
      BY <1>1, <3>2, <3>3, NewBlock
    <3> QED
      BY <2>2, <3>4 DEF authVars, TypeInv, AppTyped
  <2>3. \/ UpdateCurrentUser(NoUser, comp) \/ UpdateCurrentUser(c.user, comp)
        \/ main' = main \o comp /\ UNCHANGED authVars
    BY <1>2 DEF CallSucceeds
  <2> QED
    BY <1>3, <2>1, <2>2, <2>3 DEF Uids
<1>5. AppTyped' /\ ScreensFit' /\ LoadedHaveUsers' /\ NothingLeft' /\ IdsFit' /\ IdsBounded'
  BY <1>1, <1>4, AccountStays DEF TypeInv, AppTyped
<1>6. accounts' \subseteq Users
  BY ExecutedFits DEF CallSucceeds
<1>7. ClientTyped' /\ ServerTyped' /\ WireFits'
  BY <1>6 DEF CallSucceeds, clientVars, serverVars, TypeInv, ClientTyped, ServerTyped, WireFits
<1> QED
  BY <1>5, <1>7 DEF TypeInv

LEMMA CallFailsTypes == ASSUME TypeInv, NEW c \in calls, CallFails(c) PROVE TypeInv'
<1>1. /\ UNCHANGED <<up, stack, posts, reads, address, today, strayed, hurried, overtaken, currentUser, session,
                     main>>
      /\ calls' \subseteq calls /\ up = "running"
  BY DEF CallFails, clientVars, authVars
<1>2. used' \in [Events -> Nat]
  BY Spends DEF CallFails, TypeInv, AppTyped, Events
<1>3. CallersStay
  BY <1>1 DEF CallersStay, IdsBelow
<1>4. AppTyped' /\ ScreensFit' /\ LoadedHaveUsers' /\ NothingLeft' /\ IdsFit' /\ IdsBounded'
  BY <1>1, <1>2, <1>3, AccountStays DEF TypeInv, AppTyped
<1>5. accounts' \subseteq Users /\ gone' \subseteq Users
  <2>1. Executed(c) \subseteq Users /\ c.user \in Users
    BY ExecutedFits, CompletionFits
  <2> QED
    BY <2>1 DEF CallFails, TypeInv, ServerTyped
<1>6. ClientTyped' /\ ServerTyped' /\ WireFits'
  BY <1>5 DEF CallFails, clientVars, serverVars, TypeInv, ClientTyped, ServerTyped, WireFits
<1> QED
  BY <1>4, <1>6 DEF TypeInv

LEMMA LogoutTypes == ASSUME TypeInv, LogoutClicked PROVE TypeInv'
<1>1. /\ UNCHANGED <<up, posts, reads, address, today, strayed, hurried, overtaken, calls>>
      /\ up = "running" /\ stack' = Append(stack, Screen("login", FreshId))
  BY DEF LogoutClicked, clientVars, InFront
<1>2. used' \in [Events -> Nat]
  BY Spends DEF LogoutClicked, TypeInv, AppTyped, Events
<1>3. currentUser' \in Uids /\ session' \in Nat /\ main' \in Seq(Blocks) /\ CallersStay
  <2>1. CASE UNCHANGED <<authVars, main>>
    BY <1>1, <2>1 DEF authVars, TypeInv, AppTyped, CallersStay, IdsBelow
  <2>2. CASE UpdateCurrentUser(NoUser, <<>>)
    <3>1. PICK comp : comp = <<>>
      OBVIOUS
    <3>2. comp \in Seq(Blocks) /\ Len(comp) = 0 /\ NoUser \in Uids
      BY <3>1 DEF Uids
    <3>3. UpdateCurrentUser(NoUser, comp)
      BY <2>2, <3>1
    <3>4. calls' \subseteq calls /\ Len(comp) \in {0, 1}
          /\ \A b \in Nat : IdsBelow(b) => \A i \in 1..Len(comp) : comp[i].id <= b
      BY <1>1, <3>2
    <3> QED
      BY <3>2, <3>3, <3>4, UpdateFits
  <2> QED
    BY <2>1, <2>2 DEF LogoutClicked
<1>4. PICK s : s = Screen("login", FreshId)
  OBVIOUS
<1>5. Comes(s) /\ s.kind = "login"
  <2>1. "login" \in Kinds /\ "login" \notin {"diary", "image"} /\ stack' = Append(stack, s)
    BY <1>1, <1>4 DEF Kinds
  <2> QED
    BY <1>4, <2>1, PlainComes
<1>6. stack' \in Seq(Screens) /\ ScreensFit' /\ LoadedHaveUsers'
  BY <1>1, <1>5, AppendFits
<1>7. IdsFit' /\ IdsBounded'
  BY <1>1, <1>3, <1>5, IdsOfNew
<1>8. AppTyped' /\ NothingLeft'
  BY <1>1, <1>2, <1>3, <1>6 DEF TypeInv, AppTyped, NothingLeft
<1>9. ClientTyped' /\ ServerTyped' /\ WireFits'
  BY DEF LogoutClicked, clientVars, serverVars, TypeInv, ClientTyped, ServerTyped, WireFits
<1> QED
  BY <1>6, <1>7, <1>8, <1>9 DEF TypeInv

\* The main queue runs the completion of a call.
LEMMA DoneBlock ==
  ASSUME TypeInv, MainQueue, Head(main).kind \in Done
  PROVE  /\ up = "running" /\ main # <<>> /\ main' = Tail(main) /\ main' \in Seq(Blocks) /\ CallersStay
         /\ Head(main).user \in Users /\ Head(main).id \in Nat
         /\ UNCHANGED <<fetch, authToken, cred, overtaken, currentUser, session, calls, posts, address, accounts,
                        records, diaries, today, strayed, hurried, used>>
         /\ Head(main).kind = "signIn" => SignedIn(Head(main))
         /\ Head(main).kind = "createUser" => Registered(Head(main))
         /\ Head(main).kind = "delete" => Deleted(Head(main))
<1>1. /\ up = "running" /\ main # <<>> /\ main' = Tail(main)
      /\ UNCHANGED <<currentUser, session, calls, posts, address, accounts, records, diaries, today, strayed,
                     hurried, used>>
  BY DEF MainQueue, authVars, serverVars
<1>2. CallersStay /\ main' \in Seq(Blocks)
  BY <1>1, BlockGoes, NextBlock
<1>3. Head(main).user \in Users /\ Head(main).id \in Nat
  BY <1>1, NextBlock DEF Blocks, Done
<1>4. /\ UNCHANGED <<fetch, authToken, cred, overtaken>>
      /\ Head(main).kind = "signIn" => SignedIn(Head(main))
      /\ Head(main).kind = "createUser" => Registered(Head(main))
      /\ Head(main).kind = "delete" => Deleted(Head(main))
  BY DEF MainQueue, Done
<1> QED
  BY <1>1, <1>2, <1>3, <1>4

LEMMA SignedInTypes ==
  ASSUME TypeInv, MainQueue, Head(main).kind = "signIn"
  PROVE  TypeInv'
<1>1. /\ up = "running" /\ main' \in Seq(Blocks) /\ CallersStay /\ SignedIn(Head(main))
      /\ UNCHANGED <<fetch, authToken, cred, overtaken, currentUser, session, calls, posts, address, accounts,
                     records, diaries, today, strayed, hurried, used>>
  BY DoneBlock DEF Done
<1>2. puts' = puts /\ gone' = gone
  BY <1>1 DEF SignedIn
<1>3. /\ stack' \in Seq(Screens) /\ up' \in {"running", "trapped"}
      /\ ScreensFit' /\ LoadedHaveUsers' /\ NothingLeft' /\ ClientTyped' /\ WireFits'
      /\ IdsFit' /\ IdsBounded'
  <2>1. CASE Push(Screen("home", FreshId))
    <3>1. PICK s : s = Screen("home", FreshId)
      OBVIOUS
    <3>2. "home" \in Kinds /\ "home" \notin {"diary", "image"} /\ stack' = Append(stack, s) /\ Push(s)
      BY <2>1, <3>1 DEF Kinds, Push
    <3>3. Comes(s)
      BY <3>1, <3>2, PlainComes
    <3> QED
      BY <1>1, <1>2, <3>2, <3>3, PushFits
  <2>2. CASE NoTrap /\ UNCHANGED <<stack, conn, reads, wire>>
    <3>1. up' = "running"
      BY <1>1, <2>2 DEF NoTrap
    <3>2. ScreensStay
      BY <2>2, Elements DEF ScreensStay
    <3>3. IdsFit' /\ IdsBounded'
      BY <1>1, <2>2, <3>2, NoReadGoes, IdsStay
    <3> QED
      BY <1>1, <1>2, <2>2, <3>1, <3>3
      DEF TypeInv, AppTyped, ScreensFit, LoadedHaveUsers, NothingLeft, ClientTyped, WireFits
  <2> QED
    BY <1>1, <2>1, <2>2 DEF SignedIn
<1>4. AppTyped' /\ ServerTyped'
  BY <1>1, <1>2, <1>3 DEF TypeInv, AppTyped, ServerTyped
<1> QED
  BY <1>3, <1>4 DEF TypeInv

LEMMA RegisteredTypes ==
  ASSUME TypeInv, MainQueue, Head(main).kind = "createUser"
  PROVE  TypeInv'
<1> DEFINE b == Head(main)
<1>1. /\ up = "running" /\ main' \in Seq(Blocks) /\ CallersStay /\ Registered(b) /\ b.user \in Users
      /\ UNCHANGED <<fetch, authToken, cred, overtaken, currentUser, session, calls, posts, address, accounts,
                     records, diaries, today, strayed, hurried, used>>
  BY DoneBlock DEF Done
<1>2. reads' = reads /\ conn' = Opened /\ gone' \subseteq Users
  BY <1>1 DEF Registered, TypeInv, ServerTyped
<1>3. puts' \in Seq(Puts) /\ wire' \in Seq(Requests) /\ (conn # "connected" => wire' = wire)
  <2>1. CASE currentUser # NoUser
    <3>1. PICK u : u = currentUser
      OBVIOUS
    <3>2. u \in Users /\ Put("Users", u, None, u)
      BY <1>1, <2>1, <3>1 DEF Registered, TypeInv, AppTyped, Uids
    <3>3. PICK p : Written(p)
      BY <3>2, Writes
    <3> QED
      BY <3>3, WrittenFits
  <2>2. CASE currentUser = NoUser
    BY <1>1, <2>2 DEF Registered, TypeInv, ClientTyped
  <2> QED
    BY <2>1, <2>2
<1>4. ClientTyped' /\ WireFits'
  <2>1. reads' \in Seq(ReadSet)
    BY <1>2 DEF TypeInv, ClientTyped
  <2> QED
    BY <1>1, <1>2, <1>3, <2>1, ClientFits
<1>5. /\ stack' \in Seq(Screens) /\ up' \in {"running", "trapped"}
      /\ ScreensFit' /\ LoadedHaveUsers' /\ IdsFit' /\ IdsBounded'
  <2>1. CASE OnStack(b.id)
    <3>1. PICK s : s = Screen("home", FreshId)
      OBVIOUS
    <3>2. stack' = Append(stack, s) /\ Loads(s) /\ "home" \in Kinds /\ "home" \notin {"diary", "image"}
      BY <1>1, <2>1, <3>1 DEF Registered, Kinds
    <3>3. Comes(s)
      BY <3>1, <3>2, PlainComes
    <3>4. /\ up' \in {"running", "trapped"}
          /\ up' = "running" => s.kind \in {"login", "register", "plus"} \/ s.uid # NoUser
      BY <1>1, <3>2 DEF Loads, NoTrap, Trap
    <3>5. stack' \in Seq(Screens) /\ ScreensFit' /\ LoadedHaveUsers'
      BY <1>1, <3>3, <3>4, AppendFits
    <3>6. IdsFit' /\ IdsBounded'
      BY <1>1, <1>2, <3>3, IdsOfNew
    <3> QED
      BY <3>4, <3>5, <3>6
  <2>2. CASE ~OnStack(b.id)
    <3>1. stack' = stack /\ up' = "running"
      BY <1>1, <2>2 DEF Registered, NoTrap
    <3>2. ScreensStay
      BY <3>1, Elements DEF ScreensStay
    <3>3. IdsFit' /\ IdsBounded'
      BY <1>1, <1>2, <3>2, NoReadGoes, IdsStay
    <3> QED
      BY <1>1, <3>1, <3>3 DEF TypeInv, AppTyped, ScreensFit, LoadedHaveUsers
  <2> QED
    BY <2>1, <2>2
<1>6. AppTyped' /\ ServerTyped' /\ NothingLeft'
  BY <1>1, <1>2, <1>5 DEF TypeInv, AppTyped, ServerTyped, NothingLeft
<1> QED
  BY <1>4, <1>5, <1>6 DEF TypeInv

LEMMA DeletedTypes ==
  ASSUME TypeInv, MainQueue, Head(main).kind = "delete"
  PROVE  TypeInv'
<1> DEFINE b == Head(main)
<1>1. /\ up = "running" /\ main' \in Seq(Blocks) /\ CallersStay /\ Deleted(b) /\ b.user \in Users
      /\ UNCHANGED <<fetch, authToken, cred, overtaken, currentUser, session, calls, posts, address, accounts,
                     records, diaries, today, strayed, hurried, used>>
  BY DoneBlock DEF Done
<1>2. reads' = reads /\ conn' = conn /\ gone' = gone /\ up' = "running"
  BY <1>1 DEF Deleted, NoTrap
<1>3. puts' \in Seq(Puts) /\ wire' \in Seq(Requests) /\ (conn # "connected" => wire' = wire)
  <2>1. PICK u : u = b.user
    OBVIOUS
  <2>2. u \in Users /\ Put("Users", u, None, None)
    BY <1>1, <2>1 DEF Deleted
  <2>3. PICK p : Written(p)
    BY <2>2, Writes
  <2> QED
    BY <2>3, WrittenFits
<1>4. ClientTyped' /\ WireFits'
  <2>1. reads' \in Seq(ReadSet)
    BY <1>2 DEF TypeInv, ClientTyped
  <2> QED
    BY <1>1, <1>2, <1>3, <2>1, ClientFits
<1>5. stack' \in Seq(Screens) /\ ScreensFit' /\ LoadedHaveUsers' /\ IdsFit' /\ IdsBounded'
  <2>1. CASE OnStack(b.id)
    <3>1. stack' = stack \o LoginScreens(currentUser, FreshId) /\ posts' \subseteq posts
      BY <1>1, <2>1 DEF Deleted
    <3>2. PICK n, m : n = Len(stack) /\ m = Len(stack')
      OBVIOUS
    <3>3. /\ stack' \in Seq(Screens) /\ m >= n /\ n \in Nat /\ m \in Nat
          /\ \A i \in 1..n : stack'[i] = stack[i]
          /\ \A i \in 1..m : i > n =>
               /\ stack'[i].kind \in {"login", "home"} /\ stack'[i].found = None
               /\ stack'[i].kind = "home" => stack'[i].uid = currentUser /\ currentUser # NoUser
          /\ IdsFit' /\ IdsBounded'
      <4>1. /\ stack' \in Seq(Screens)
            /\ Len(stack') = Len(stack) + Len(LoginScreens(currentUser, FreshId))
            /\ \A i \in 1..Len(stack) : stack'[i] = stack[i]
            /\ \A i \in 1..Len(stack') : i > Len(stack) =>
                  /\ stack'[i].kind \in {"login", "home"} /\ stack'[i].found = None
                  /\ i = Len(stack) + 1 => stack'[i].kind = "login"
                  /\ stack'[i].kind = "home" => stack'[i].uid = currentUser /\ currentUser # NoUser
            /\ IdsFit' /\ IdsBounded'
        BY <1>1, <1>2, <3>1, IdsOfLogin
      <4>2. Len(LoginScreens(currentUser, FreshId)) \in {1, 2}
        BY Counters, FreshIdIsNew, LoginScreensFit DEF TypeInv, AppTyped
      <4>3. n \in Nat
        BY <3>2, Elements
      <4> QED
        BY <3>2, <4>1, <4>2, <4>3
    <3>4. /\ n # 0 /\ stack[1].kind = "login"
          /\ \A i \in 1..n :
               /\ stack[i].kind = "diary" => stack[i].about \in 1..today
               /\ stack[i].kind = "image" => stack[i].about \in Nat
               /\ stack[i].found # None => IF stack[i].kind = "calendar" THEN stack[i].found \subseteq Days
                                                                         ELSE stack[i].found \in Nat
               /\ stack[i].kind \notin {"login", "register", "plus"} => stack[i].uid \in Users
      BY <1>1, <3>2 DEF TypeInv, ScreensFit, LoadedHaveUsers, AppTyped
    <3>5. \A i \in 1..m : i \in 1..n \/ i > n
      BY <3>3
    <3>6. ScreensFit'
      <4>1. stack' # <<>> /\ stack'[1].kind = "login"
        BY <3>2, <3>3, <3>4
      <4> QED
        BY <1>1, <3>2, <3>3, <3>4, <3>5, <4>1 DEF ScreensFit
    <3>7. LoadedHaveUsers'
      <4>1. currentUser \in Uids
        BY DEF TypeInv, AppTyped
      <4> QED
        BY <3>2, <3>3, <3>4, <3>5, <4>1 DEF LoadedHaveUsers, Uids
    <3> QED
      BY <3>3, <3>6, <3>7
  <2>2. CASE ~OnStack(b.id)
    <3>1. stack' = stack
      BY <1>1, <2>2 DEF Deleted, TypeInv, AppTyped
    <3>2. ScreensStay
      BY <3>1, Elements DEF ScreensStay
    <3>3. IdsFit' /\ IdsBounded'
      BY <1>1, <1>2, <3>2, NoReadGoes, IdsStay
    <3> QED
      BY <1>1, <1>2, <3>1, <3>3 DEF TypeInv, AppTyped, ScreensFit, LoadedHaveUsers
  <2> QED
    BY <2>1, <2>2
<1>6. AppTyped' /\ ServerTyped' /\ NothingLeft'
  BY <1>1, <1>2, <1>5 DEF TypeInv, AppTyped, ServerTyped, NothingLeft
<1> QED
  BY <1>4, <1>5, <1>6 DEF TypeInv

-----------------------------------------------------------------------------
(* Diaries, and the process                                                *)

LEMMA SaveTypes == ASSUME TypeInv, SaveButtonClicked PROVE TypeInv'
<1>1. /\ up = "running" /\ Top.kind = "plus" /\ up' \in {"running", "trapped"}
      /\ UNCHANGED <<stack, currentUser, session, calls, main, address, conn, fetch, authToken, reads, cred, accounts,
                     records, diaries, today, strayed, hurried, overtaken, gone>>
  BY DEF SaveButtonClicked, InFront, NoTrap, Trap, authVars, serverVars
<1>2. used' \in [Events -> Nat] /\ used.save + 1 \in Nat
  BY Spends, Counters DEF SaveButtonClicked, TypeInv, AppTyped, Events
<1>3. PICK n, x : n = Len(stack) /\ x = [id |-> Top.id, save |-> used.save + 1]
  OBVIOUS
<1>4. n \in Nat \ {0} /\ Top = stack[n] /\ Top \in Screens /\ x \in Posts /\ x.id = stack[n].id
      /\ stack[n].kind = "plus"
  BY <1>1, <1>2, <1>3, TopFits DEF Posts, Screens
<1>5. posts' = posts \/ posts' = posts \cup {x}
  BY <1>3 DEF SaveButtonClicked
<1>6. puts' \in Seq(Puts) /\ wire' \in Seq(Requests) /\ (conn # "connected" => wire' = wire)
  <2>1. CASE Top.uid = NoUser
    BY <2>1 DEF SaveButtonClicked, TypeInv, ClientTyped
  <2>2. CASE Top.uid # NoUser
    <3>1. PICK u, v : u = Top.uid /\ v = used.save + 1
      OBVIOUS
    <3>2. u \in Users /\ v \in Nat /\ Put("diary", u, today, v) /\ today \in Days
      BY <1>2, <1>4, <2>2, <3>1 DEF SaveButtonClicked, Screens, Uids, TypeInv, AppTyped
    <3>3. PICK p : Written(p)
      BY <3>2, Writes
    <3> QED
      BY <3>3, WrittenFits
  <2> QED
    BY <2>1, <2>2
<1>7. ClientTyped' /\ WireFits'
  BY <1>1, <1>6, ClientFits DEF TypeInv, ClientTyped
<1>8. IdsFit'
  <2>1. /\ \A i, j \in 1..n : stack[i].id = stack[j].id => i = j
        /\ \A p \in posts, i \in 1..n : stack[i].id = p.id => stack[i].kind = "plus"
        /\ \A k \in 1..Len(reads), i \in 1..n :
             stack[i].id = reads[k].id => stack[i].kind = reads[k].for /\ stack[i].uid = reads[k].uid
        /\ \A j, k \in 1..Len(reads) : reads[j].id = reads[k].id => j = k
    BY <1>3 DEF TypeInv, IdsFit
  <2>2. \A p \in posts', i \in 1..n : stack[i].id = p.id => stack[i].kind = "plus"
    BY <1>4, <1>5, <2>1
  <2> QED
    BY <1>1, <1>3, <2>1, <2>2 DEF IdsFit
<1>9. IdsBounded'
  <2>1. PICK b \in Nat : IdsBelow(b)
    BY DEF TypeInv, IdsBounded
  <2>2. x.id <= b
    BY <1>3, <1>4, <2>1 DEF IdsBelow
  <2>3. IdsBelow(b)'
    BY <1>1, <1>5, <2>1, <2>2 DEF IdsBelow
  <2> QED
    BY <2>3 DEF IdsBounded
<1>10. AppTyped' /\ ServerTyped' /\ ScreensFit' /\ LoadedHaveUsers' /\ NothingLeft'
  <2>1. posts' \subseteq Posts
    BY <1>4, <1>5 DEF TypeInv, AppTyped
  <2> QED
    BY <1>1, <1>2, <2>1
    DEF TypeInv, AppTyped, ServerTyped, ScreensFit, LoadedHaveUsers, NothingLeft
<1> QED
  BY <1>7, <1>8, <1>9, <1>10 DEF TypeInv

LEMMA SaveOnCalendarDiaryTypes == ASSUME TypeInv, SaveOnCalendarDiary PROVE TypeInv'
<1>1. /\ up = "running" /\ Top.kind = "diary"
      /\ AppStays
      /\ UNCHANGED <<main, conn, fetch, authToken, reads, cred, accounts, records, diaries, overtaken, gone>>
  BY DEF SaveOnCalendarDiary, InFront, AppStays, authVars, serverVars
<1>2. used' \in [Events -> Nat] /\ used.save + 1 \in Nat
  BY Spends, Counters DEF SaveOnCalendarDiary, TypeInv, AppTyped, Events
<1>3. PICK n, u, d, v : n = Len(stack) /\ u = Top.uid /\ d = Top.about /\ v = used.save + 1
  OBVIOUS
<1>4. n \in Nat \ {0} /\ Top = stack[n] /\ u \in Users
  BY <1>1, <1>3, TopFits
<1>5. d \in Days
  <2>1. d \in 1..today /\ today \in Days
    BY <1>1, <1>3, <1>4 DEF TypeInv, ScreensFit, AppTyped
  <2>2. LastDay \in Nat
    BY SessionAssumption
  <2> QED
    BY <2>1, <2>2 DEF Days
<1>6. puts' \in Seq(Puts) /\ wire' \in Seq(Requests) /\ (conn # "connected" => wire' = wire)
  <2>1. Put("diary", u, d, v) /\ v \in Nat
    BY <1>2, <1>3 DEF SaveOnCalendarDiary
  <2>2. PICK p : Written(p)
    BY <1>4, <1>5, <2>1, Writes
  <2> QED
    BY <2>2, WrittenFits
<1>7. ClientTyped' /\ WireFits'
  BY <1>1, <1>6, ClientFits DEF TypeInv, ClientTyped
<1>8. AppTyped' /\ ScreensFit' /\ LoadedHaveUsers' /\ IdsFit' /\ IdsBounded'
  <2>1. CallersStay /\ overtaken' \in BOOLEAN /\ main' \in Seq(Blocks)
    BY <1>1 DEF CallersStay, IdsBelow, AppStays, TypeInv, AppTyped
  <2> QED
    BY <1>1, <1>2, <2>1, NoReadGoes, AppStaysFits
<1>9. ServerTyped' /\ NothingLeft'
  BY <1>1 DEF AppStays, TypeInv, ServerTyped, NothingLeft
<1> QED
  BY <1>7, <1>8, <1>9 DEF TypeInv

\* A step that leaves the stack, the client and the server alone.
LEMMA AloneFits ==
  ASSUME TypeInv, up = "running", up' \in {"running", "trapped"},
         UNCHANGED <<stack, authVars, calls, main, address, clientVars, accounts, serverVars, strayed, hurried,
                     overtaken, gone>>,
         posts' \subseteq posts, used' \in [Events -> Nat], today' \in Days, today <= today'
  PROVE  TypeInv'
<1>1. CallersStay /\ reads' = reads
  BY DEF CallersStay, IdsBelow, clientVars
<1>2. ScreensStay
  BY Elements DEF ScreensStay
<1>3. IdsFit' /\ IdsBounded'
  BY <1>1, <1>2, NoReadGoes, IdsStay
<1>4. AppTyped' /\ LoadedHaveUsers' /\ NothingLeft'
  BY DEF TypeInv, AppTyped, LoadedHaveUsers, NothingLeft, authVars
<1>5. ScreensFit'
  <2>1. today \in Nat /\ today' \in Nat
    BY SessionAssumption DEF TypeInv, AppTyped, Days
  <2>2. \A k : k \in 1..today => k \in 1..today'
    BY <2>1
  <2> QED
    BY <2>2 DEF TypeInv, ScreensFit
<1>6. ClientTyped' /\ ServerTyped' /\ WireFits'
  BY DEF TypeInv, ClientTyped, ServerTyped, WireFits, clientVars, serverVars
<1> QED
  BY <1>3, <1>4, <1>5, <1>6 DEF TypeInv

LEMMA AnalysisFailsTypes == ASSUME TypeInv, NEW p \in posts, AnalysisFails(p) PROVE TypeInv'
<1>1. used' \in [Events -> Nat]
  BY Spends DEF AnalysisFails, TypeInv, AppTyped, Events
<1>2. up = "running" /\ up' \in {"running", "trapped"} /\ posts' \subseteq posts
  BY DEF AnalysisFails, NoTrap, Trap
<1>3. today' \in Days /\ today <= today'
  BY SessionAssumption DEF AnalysisFails, TypeInv, AppTyped, Days
<1> QED
  BY <1>1, <1>2, <1>3, AloneFits DEF AnalysisFails

LEMMA MidnightTypes == ASSUME TypeInv, Midnight PROVE TypeInv'
<1>1. used' \in [Events -> Nat]
  BY Spends DEF Midnight, TypeInv, AppTyped, Events
<1>2. up = "running" /\ up' \in {"running", "trapped"} /\ posts' \subseteq posts
  BY DEF Midnight
<1>3. today' \in Days /\ today <= today'
  BY SessionAssumption DEF Midnight, TypeInv, AppTyped, Days
<1> QED
  BY <1>1, <1>2, <1>3, AloneFits DEF Midnight

\* The result of an analysis.
LEMMA ImageComes ==
  ASSUME TypeInv, NEW p \in posts, NEW s, s = Image(p), stack' = Append(stack, s)
  PROVE  Comes(s) /\ s.kind = "image" /\ s.about = p.save /\ s.found = None /\ s.uid = currentUser
<1>1. PICK x : x = p.save
  OBVIOUS
<1>2. x \in Nat
  BY <1>1 DEF TypeInv, AppTyped, Posts
<1>3. NewAbout("image", x, s)
  BY <1>1 DEF Image, NewAbout
<1>4. PICK k : k = "image"
  OBVIOUS
<1>5. k \in Kinds /\ k # "diary" /\ NewAbout(k, x, s) /\ x \in Nat \cup {None}
  BY <1>2, <1>3, <1>4 DEF Kinds
<1>6. /\ Comes(s) /\ s.kind = k /\ s.about = x /\ s.found = None
      /\ s.uid = IF k \in {"login", "register"} THEN NoUser ELSE currentUser
  BY <1>2, <1>5, NewComes
<1> QED
  BY <1>1, <1>4, <1>6

LEMMA AnalysisAnsweredTypes == ASSUME TypeInv, NEW p \in posts, AnalysisAnswered(p) PROVE TypeInv'
<1>1. /\ up = "running" /\ posts' \subseteq posts
      /\ UNCHANGED <<currentUser, session, calls, main, address, fetch, authToken, puts, cred, accounts, records,
                     diaries, today, strayed, hurried, overtaken, gone>>
  BY DEF AnalysisAnswered, authVars, serverVars
<1>2. CallersStay
  BY <1>1 DEF CallersStay, IdsBelow
<1>3. CASE UNCHANGED <<stack, conn, reads, wire>> /\ (NoTrap \/ Trap("index")) /\ used' \in [Events -> Nat]
  <2>1. up' \in {"running", "trapped"}
    BY <1>1, <1>3 DEF NoTrap, Trap
  <2>2. today' \in Days /\ today <= today'
    BY <1>1, SessionAssumption DEF TypeInv, AppTyped, Days
  <2> QED
    BY <1>1, <1>3, <2>1, <2>2, AloneFits DEF authVars, clientVars, serverVars
<1>4. CASE Push(Image(p)) /\ used' = used
  <2>1. PICK s : s = Image(p)
    OBVIOUS
  <2>2. stack' = Append(stack, s) /\ Push(s)
    BY <1>4, <2>1 DEF Push
  <2>3. Comes(s)
    BY <2>1, <2>2, ImageComes
  <2>4. /\ stack' \in Seq(Screens) /\ up' \in {"running", "trapped"}
        /\ ScreensFit' /\ LoadedHaveUsers' /\ NothingLeft' /\ ClientTyped' /\ WireFits'
        /\ IdsFit' /\ IdsBounded'
    BY <1>1, <1>2, <2>2, <2>3, PushFits
  <2>5. AppTyped' /\ ServerTyped'
    BY <1>1, <1>4, <2>4 DEF TypeInv, AppTyped, ServerTyped
  <2> QED
    BY <2>4, <2>5 DEF TypeInv
<1>5. \/ UNCHANGED <<stack, conn, reads, wire>> /\ (NoTrap \/ Trap("index")) /\ used' \in [Events -> Nat]
      \/ Push(Image(p)) /\ used' = used
  BY Spends DEF AnalysisAnswered, TypeInv, AppTyped, Events
<1> QED
  BY <1>3, <1>4, <1>5

\* Accounts after calls that were under way when the process ended.
LEMMA DieTypes == ASSUME TypeInv, Die PROVE TypeInv'
<1>1. used' \in [Events -> Nat]
  BY Spends DEF Die, TypeInv, AppTyped, Events
<1>2. accounts' \subseteq Users
  <2>1. PICK done \in SUBSET {c \in calls : CanSucceed(c)} :
          accounts' = (accounts \cup {c.user : c \in {d \in done : d.kind = "createUser"}})
                         \ {c.user : c \in {d \in done : d.kind = "delete"}}
    BY DEF Die
  <2>2. \A c \in done : c.user \in Users
    BY CompletionFits
  <2> QED
    BY <2>1, <2>2 DEF TypeInv, ServerTyped
<1>3. gone' \subseteq Users
  BY DEF Die, TypeInv, ServerTyped
<1>4. /\ up' = "dead" /\ stack' = <<>> /\ calls' = {} /\ main' = <<>> /\ posts' = {}
      /\ conn' = "idle" /\ fetch' = None /\ authToken' = [user |-> NoUser, session |-> 0]
      /\ puts' = <<>> /\ reads' = <<>> /\ wire' = <<>> /\ cred' = NoUser /\ overtaken' = FALSE
      /\ UNCHANGED <<currentUser, session, address, records, diaries, today, strayed, hurried>>
  BY DEF Die, authVars, serverVars
<1>5. AppTyped'
  <2>1. stack' \in Seq(Screens) /\ main' \in Seq(Blocks) /\ calls' \subseteq CallSet /\ posts' \subseteq Posts
    BY <1>4
  <2>2. /\ currentUser \in Uids /\ session \in Nat /\ today \in Days
        /\ address \in BOOLEAN /\ strayed \in BOOLEAN /\ hurried \in BOOLEAN
    BY DEF TypeInv, AppTyped
  <2> QED
    BY <1>1, <1>4, <2>1, <2>2 DEF AppTyped
<1>6. ClientTyped' /\ WireFits'
  BY <1>4 DEF ClientTyped, WireFits, Phases, Tokens, Uids
<1>7. ServerTyped'
  BY <1>2, <1>3, <1>4 DEF TypeInv, ServerTyped
<1>8. ScreensFit' /\ LoadedHaveUsers' /\ NothingLeft' /\ IdsFit'
  BY <1>4 DEF ScreensFit, LoadedHaveUsers, NothingLeft, IdsFit
<1>9. IdsBounded'
  <2>1. IdsBelow(0)'
    BY <1>4 DEF IdsBelow
  <2> QED
    BY <2>1 DEF IdsBounded
<1> QED
  BY <1>5, <1>6, <1>7, <1>8, <1>9 DEF TypeInv

\* A launch, on nothing.
LaunchScreens ==
  /\ stack \in Seq(Screens) /\ Len(stack) \in {1, 2}
  /\ stack[1].kind = "login" /\ stack[1].id = 1 /\ stack[1].found = None
  /\ Len(stack) = 2 => /\ stack[2].kind = "home" /\ stack[2].id = 2 /\ stack[2].found = None
                       /\ stack[2].uid = currentUser /\ currentUser \in Users

LEMMA Launches ==
  ASSUME NEW user \in Uids, NEW L, L = LoginScreens(user, 1), session \in Nat, used.save \in Nat
  PROVE  /\ L \in Seq(Screens) /\ Len(L) \in {1, 2} /\ Len(L) = IF user = NoUser THEN 1 ELSE 2
         /\ L[1].kind = "login" /\ L[1].id = 1 /\ L[1].found = None
         /\ Len(L) = 2 => /\ L[2].kind = "home" /\ L[2].id = 2 /\ L[2].found = None
                          /\ L[2].uid = user /\ user \in Users
<1>1. /\ L \in Seq(Screens) /\ Len(L) \in {1, 2}
      /\ Len(L) = IF user = NoUser THEN 1 ELSE 2
      /\ L[1] = NewScreen("login", 1, user)
      /\ user # NoUser => L[2] = NewScreen("home", 1 + 1, user)
  BY LoginScreensFit
<1>2. "login" \in Kinds /\ "home" \in Kinds /\ 1 \in Nat /\ 2 \in Nat /\ 1 + 1 = 2
  BY DEF Kinds
<1>3. L[1].kind = "login" /\ L[1].id = 1 /\ L[1].found = None
  BY <1>1, <1>2, NewScreenFits
<1>4. user # NoUser => /\ L[2].kind = "home" /\ L[2].id = 2 /\ L[2].found = None
                       /\ L[2].uid = user /\ user \in Users
  BY <1>1, <1>2, NewScreenFits DEF Uids
<1> QED
  BY <1>1, <1>3, <1>4

\* A launched app, whatever is left in the database.
Launched ==
  /\ LaunchScreens /\ up = "running" /\ today \in Days /\ currentUser \in Uids
  /\ calls = {} /\ main = <<>> /\ posts = {} /\ reads = <<>>

LEMMA LaunchedFits ==
  Launched => ScreensFit /\ LoadedHaveUsers /\ NothingLeft /\ IdsFit /\ IdsBounded
<1> SUFFICES ASSUME Launched
             PROVE  ScreensFit /\ LoadedHaveUsers /\ NothingLeft /\ IdsFit /\ IdsBounded
  OBVIOUS
<1> USE DEF Launched
<1>1. PICK n : n = Len(stack)
  OBVIOUS
<1>2. /\ n \in {1, 2} /\ stack # <<>>
      /\ stack[1].kind = "login" /\ stack[1].id = 1 /\ stack[1].found = None
      /\ n = 2 => /\ stack[2].kind = "home" /\ stack[2].id = 2 /\ stack[2].found = None
                  /\ stack[2].uid \in Users
  BY <1>1 DEF LaunchScreens
<1>3. \A i \in 1..n : i = 1 \/ (i = 2 /\ n = 2)
  BY <1>2
<1>4. ScreensFit /\ LoadedHaveUsers /\ NothingLeft
  BY <1>1, <1>2, <1>3 DEF ScreensFit, LoadedHaveUsers, NothingLeft
<1>5. IdsFit
  BY <1>1, <1>2, <1>3 DEF IdsFit
<1>6. IdsBelow(2)
  BY <1>1, <1>2, <1>3 DEF IdsBelow
<1> QED
  BY <1>4, <1>5, <1>6 DEF IdsBounded

LEMMA LaunchLaunches == ASSUME TypeInv, Launch PROVE Launched'
<1>1. /\ up' = "running" /\ session' = 1 /\ currentUser \in Uids /\ session \in Nat /\ used.save \in Nat
      /\ today \in Days /\ UNCHANGED <<currentUser, calls, main, posts, reads, today>>
      /\ calls = {} /\ main = <<>> /\ posts = {} /\ reads = <<>>
  BY Counters DEF Launch, TypeInv, AppTyped, NothingLeft
<1>2. stack' = LoginScreens(currentUser, 1)
  BY DEF Launch
<1>3. PICK L, u : L = stack' /\ u = currentUser
  OBVIOUS
<1>4. /\ L \in Seq(Screens) /\ Len(L) \in {1, 2}
      /\ L[1].kind = "login" /\ L[1].id = 1 /\ L[1].found = None
      /\ Len(L) = 2 => /\ L[2].kind = "home" /\ L[2].id = 2 /\ L[2].found = None
                       /\ L[2].uid = u /\ u \in Users
  BY <1>1, <1>2, <1>3, Launches
<1>5. LaunchScreens'
  BY <1>1, <1>3, <1>4 DEF LaunchScreens
<1> QED
  BY <1>1, <1>5 DEF Launched

LEMMA LaunchTypes == ASSUME TypeInv, Launch PROVE TypeInv'
<1>1. /\ up' = "running" /\ session' = 1
      /\ UNCHANGED <<currentUser, calls, main, posts, address, fetch, authToken, puts, reads, wire, cred, accounts,
                     records, diaries, today, overtaken, gone, used>>
      /\ strayed' = FALSE /\ hurried' = FALSE
      /\ conn = "idle" /\ conn' = IF currentUser = NoUser THEN "idle" ELSE "disconnected"
  BY DEF Launch, serverVars, TypeInv, NothingLeft
<1>2. Launched'
  BY LaunchLaunches
<1>3. ScreensFit' /\ LoadedHaveUsers' /\ NothingLeft' /\ IdsFit' /\ IdsBounded'
  BY <1>2, LaunchedFits, PTL
<1>4. AppTyped'
  BY <1>1, <1>2 DEF Launched, LaunchScreens, TypeInv, AppTyped
<1>5. ClientTyped' /\ WireFits' /\ ServerTyped'
  BY <1>1 DEF TypeInv, ClientTyped, WireFits, ServerTyped, Phases
<1> QED
  BY <1>3, <1>4, <1>5 DEF TypeInv

LEMMA InitLaunches == ASSUME Init PROVE Launched
<1>1. /\ up = "running" /\ session = 1 /\ currentUser \in Uids /\ session \in Nat
      /\ calls = {} /\ main = <<>> /\ posts = {} /\ reads = <<>> /\ today = 1
      /\ used = [what \in Events |-> 0] /\ stack = LoginScreens(currentUser, 1)
  BY DEF Init, Uids
<1>2. used.save \in Nat
  BY <1>1 DEF Events
<1>3. today \in Days
  BY <1>1, SessionAssumption DEF Days
<1>4. PICK L, u : L = stack /\ u = currentUser
  OBVIOUS
<1>5. /\ L \in Seq(Screens) /\ Len(L) \in {1, 2}
      /\ L[1].kind = "login" /\ L[1].id = 1 /\ L[1].found = None
      /\ Len(L) = 2 => /\ L[2].kind = "home" /\ L[2].id = 2 /\ L[2].found = None
                       /\ L[2].uid = u /\ u \in Users
  BY <1>1, <1>2, <1>4, Launches
<1>6. LaunchScreens
  BY <1>4, <1>5 DEF LaunchScreens
<1> QED
  BY <1>1, <1>3, <1>6 DEF Launched

LEMMA InitTypes == ASSUME Init PROVE TypeInv
<1>1. /\ up = "running" /\ session = 1 /\ session \in Nat
      /\ puts = <<>> /\ wire = <<>>
      /\ fetch = None /\ authToken = [user |-> NoUser, session |-> 0] /\ cred = NoUser
      /\ conn = IF currentUser = NoUser THEN "idle" ELSE "disconnected"
      /\ address \in BOOLEAN
      /\ strayed = FALSE /\ hurried = FALSE /\ overtaken = FALSE /\ gone = {}
      /\ accounts \subseteq Users /\ records \subseteq Users
  BY DEF Init
<1>2. used \in [Events -> Nat] /\ diaries \in [Users -> [Days -> Nat \cup {None}]]
  BY DEF Init
<1>3. Launched
  BY InitLaunches
<1>4. ScreensFit /\ LoadedHaveUsers /\ NothingLeft /\ IdsFit /\ IdsBounded
  BY <1>3, LaunchedFits
<1>5. AppTyped
  <2>1. stack \in Seq(Screens) /\ main \in Seq(Blocks) /\ calls \subseteq CallSet /\ posts \subseteq Posts
        /\ reads = <<>> /\ today \in Days /\ currentUser \in Uids
    BY <1>3 DEF Launched, LaunchScreens
  <2> QED
    BY <1>1, <1>2, <2>1 DEF AppTyped
<1>6. ClientTyped /\ WireFits /\ ServerTyped
  BY <1>1, <1>2, <1>3 DEF Launched, ClientTyped, WireFits, ServerTyped, Phases, Tokens, Uids
<1> QED
  BY <1>4, <1>5, <1>6 DEF TypeInv

-----------------------------------------------------------------------------
(* The types of the whole app                                              *)

\* A token on its way to the main queue is that of the fetch.
OneToken ==
  \A i \in 1..Len(main) : main[i].kind = "token" =>
    /\ fetch # None /\ fetch.phase = "answered"
    /\ \A j \in 1..Len(main) : main[j].kind = "token" => i = j

\* What happens to the main queue: nothing, a block runs, or blocks join it,
\* none of them a token.
Queued(b) ==
  /\ main' \in Seq(Blocks) /\ Len(main') \in Nat /\ Len(main') > Len(main)
  /\ \A i \in 1..Len(main) : main'[i] = main[i]
  /\ \A i \in 1..Len(main') : i > Len(main) => main'[i].kind # "token"
  /\ main'[Len(main) + 1] = b

LEMMA Queues ==
  ASSUME TypeInv, \E c \in calls : CallSucceeds(c)
  PROVE  \/ UNCHANGED authVars /\ \E b : b.kind # "notify" /\ Queued(b) /\ Len(main') = Len(main) + 1
         \/ /\ currentUser' \in Uids /\ session' = session + 1
            /\ Queued([kind |-> "notify", id |-> 0, user |-> currentUser', session |-> session'])
            /\ Len(main') = Len(main) + 2 /\ main'[Len(main) + 2].kind \in Done
<1>1. PICK c \in calls : CallSucceeds(c)
  OBVIOUS
<1>2. PICK comp, n : comp = Completion(c) /\ n = Len(main)
  OBVIOUS
<1>3. PICK b : b = [kind |-> c.kind, id |-> c.id, user |-> c.user]
  OBVIOUS
<1>4. /\ comp \in Seq(Blocks) /\ Len(comp) \in {0, 1} /\ Len(comp) = 1 /\ comp[1] = b
      /\ \A k \in Nat : IdsBelow(k) => \A i \in 1..Len(comp) : comp[i].id <= k
      /\ c.kind \in Done /\ c.user \in Uids
  BY <1>2, <1>3, CompletionFits DEF Uids
<1>5. b \in Blocks /\ b.kind \in Done /\ b.kind # "notify" /\ b.kind # "token"
  BY <1>3, <1>4, CompletionFits DEF Blocks, Done
<1>6. n \in Nat
  BY <1>2, Elements
<1>7. ASSUME NEW user \in Uids, UpdateCurrentUser(user, comp)
      PROVE  /\ currentUser' \in Uids /\ session' = session + 1
             /\ Queued([kind |-> "notify", id |-> 0, user |-> currentUser', session |-> session'])
             /\ Len(main') = Len(main) + 2 /\ main'[Len(main) + 2].kind \in Done
  <2>1. calls' \subseteq calls
    BY <1>1 DEF CallSucceeds
  <2>2. /\ currentUser' = user /\ session' = session + 1
        /\ main' \in Seq(Blocks)
        /\ Len(main') = Len(main) + 1 + Len(comp)
        /\ \A i \in 1..Len(main) : main'[i] = main[i]
        /\ main'[Len(main) + 1] = [kind |-> "notify", id |-> 0, user |-> user, session |-> session + 1]
        /\ Len(comp) = 1 => main'[Len(main) + 2] = comp[1]
    BY <1>4, <1>7, <2>1, UpdateFits
  <2>3. /\ Len(main') = n + 2 /\ main'[n + 2] = b
        /\ main'[n + 1] = [kind |-> "notify", id |-> 0, user |-> user, session |-> session + 1]
    BY <1>2, <1>4, <1>6, <2>2
  <2>4. \A i \in 1..Len(main') : i > n => i = n + 1 \/ i = n + 2
    BY <1>6, <2>3
  <2>5. \A i \in 1..Len(main') : i > n => main'[i].kind # "token"
    BY <1>5, <2>3, <2>4
  <2> QED
    BY <1>2, <1>5, <1>6, <2>2, <2>3, <2>5 DEF Queued
<1>8. CASE main' = main \o comp /\ UNCHANGED authVars
  <2>1. main \in Seq(Blocks)
    BY DEF TypeInv, AppTyped
  <2>2. comp = <<b>>
    BY <1>2, <1>3 DEF Completion
  <2>3. main' = Append(main, b)
    BY <1>8, <2>1, <2>2
  <2>4. /\ main' \in Seq(Blocks) /\ Len(main') = n + 1 /\ main'[n + 1] = b
        /\ \A i \in 1..n : main'[i] = main[i]
    BY <1>2, <1>5, <2>1, <2>3
  <2>5. \A i \in 1..Len(main') : i > n => main'[i].kind # "token"
    BY <1>5, <1>6, <2>4
  <2> QED
    BY <1>2, <1>5, <1>6, <1>8, <2>4, <2>5 DEF Queued
<1>9. \/ UpdateCurrentUser(NoUser, comp) \/ UpdateCurrentUser(c.user, comp)
      \/ main' = main \o comp /\ UNCHANGED authVars
  BY <1>1, <1>2 DEF CallSucceeds
<1> QED
  BY <1>4, <1>7, <1>8, <1>9 DEF Uids

LEMMA LogoutQueues ==
  ASSUME TypeInv, LogoutClicked
  PROVE  \/ UNCHANGED <<currentUser, session, main>> /\ currentUser = NoUser
         \/ /\ currentUser' = NoUser /\ session' = session + 1
            /\ Queued([kind |-> "notify", id |-> 0, user |-> currentUser', session |-> session'])
            /\ Len(main') = Len(main) + 1
<1>1. CASE currentUser = NoUser /\ UNCHANGED <<authVars, main>>
  BY <1>1 DEF authVars
<1>2. CASE UpdateCurrentUser(NoUser, <<>>)
  <2>1. PICK comp, n : comp = <<>> /\ n = Len(main)
    OBVIOUS
  <2>2. comp \in Seq(Blocks) /\ Len(comp) = 0 /\ NoUser \in Uids /\ n \in Nat
    BY <2>1, Elements DEF Uids
  <2>3. UpdateCurrentUser(NoUser, comp) /\ calls' \subseteq calls /\ Len(comp) \in {0, 1}
        /\ \A b \in Nat : IdsBelow(b) => \A i \in 1..Len(comp) : comp[i].id <= b
    BY <1>2, <2>1, <2>2 DEF LogoutClicked
  <2>4. /\ currentUser' = NoUser /\ session' = session + 1
        /\ main' \in Seq(Blocks)
        /\ Len(main') = Len(main) + 1 + Len(comp)
        /\ \A i \in 1..Len(main) : main'[i] = main[i]
        /\ main'[Len(main) + 1] = [kind |-> "notify", id |-> 0, user |-> NoUser, session |-> session + 1]
    BY <2>2, <2>3, UpdateFits
  <2>5. Len(main') = n + 1 /\ main'[n + 1].kind = "notify"
    BY <2>1, <2>2, <2>4
  <2>6. \A i \in 1..Len(main') : i > n => main'[i].kind # "token"
    BY <2>2, <2>5
  <2> QED
    BY <2>1, <2>2, <2>4, <2>5, <2>6 DEF Queued
<1> QED
  BY <1>1, <1>2 DEF LogoutClicked

\* The actions that leave the main queue and the fetch alone.
LEMMA OneTokenStep == ASSUME TypeInv, OneToken, [Next]_vars PROVE OneToken'
<1>0. Len(main) \in Nat /\ main \in Seq(Blocks)
  BY Elements DEF TypeInv, AppTyped
<1>1. CASE UNCHANGED <<main, fetch>>
  BY <1>1 DEF OneToken
<1>2. CASE UNCHANGED fetch /\ \E b : Queued(b)
  <2>1. PICK b : Queued(b)
    BY <1>2
  <2>2. \A i \in 1..Len(main') : main'[i].kind = "token" => i \in 1..Len(main) /\ main'[i] = main[i]
    BY <1>0, <2>1 DEF Queued
  <2> QED
    BY <1>2, <2>2 DEF OneToken
<1>3. ASSUME fetch = None \/ fetch.phase # "answered"
      PROVE  \A i \in 1..Len(main) : main[i].kind # "token"
  BY <1>3 DEF OneToken
<1>4. CASE Retry
  <2>1. \A i \in 1..Len(main) : main[i].kind # "token"
    BY <1>3, <1>4 DEF Retry
  <2> QED
    BY <1>4, <2>1 DEF Retry, OneToken
<1>5. CASE TokenIsLookedUp \/ TokenIsRefreshed
  <2>1. \A i \in 1..Len(main) : main[i].kind # "token"
    BY <1>3, <1>5 DEF TokenIsLookedUp, TokenIsRefreshed
  <2>2. CASE main' = main
    BY <2>1, <2>2 DEF OneToken
  <2>3. CASE main' = Append(main, [kind |-> "token", id |-> 0]) /\ fetch'.phase = "answered"
    <3>1. /\ Len(main') = Len(main) + 1
          /\ \A i \in 1..Len(main) : main'[i] = main[i]
      BY <1>0, <2>3
    <3>2. \A i \in 1..Len(main') : main'[i].kind = "token" => i = Len(main) + 1
      BY <1>0, <2>1, <3>1
    <3>3. fetch' # None
      <4>1. TypeInv'
        BY <1>5, TokenIsLookedUpTypes, TokenIsRefreshedTypes
      <4>2. conn' = "gettingToken"
        BY <1>5 DEF TokenIsLookedUp, TokenIsRefreshed, TypeInv, ClientTyped
      <4> QED
        BY <4>1, <4>2 DEF TypeInv, ClientTyped
    <3> QED
      BY <2>3, <3>2, <3>3 DEF OneToken
  <2>4. \/ main' = main
        \/ main' = Append(main, [kind |-> "token", id |-> 0]) /\ fetch'.phase = "answered"
    <3>1. CASE TokenIsLookedUp
      BY <3>1 DEF TokenIsLookedUp
    <3>2. CASE TokenIsRefreshed
      <4>1. fetch \in Fetches
        BY <3>2 DEF TokenIsRefreshed, TypeInv, ClientTyped
      <4> QED
        BY <3>2, <4>1 DEF TokenIsRefreshed, Fetches
    <3> QED
      BY <1>5, <3>1, <3>2
  <2> QED
    BY <2>2, <2>3, <2>4
<1>6. CASE ConnectionLost
  <2>1. fetch = None \/ fetch.phase # "answered"
    BY <1>6 DEF ConnectionLost, TypeInv, ClientTyped
  <2>2. \A i \in 1..Len(main) : main[i].kind # "token"
    BY <1>3, <2>1
  <2> QED
    BY <1>6, <2>2 DEF ConnectionLost, OneToken
<1>7. CASE MainQueue
  <2>1. main # <<>> /\ main' = Tail(main)
    BY <1>7 DEF MainQueue
  <2>2. /\ Head(main) = main[1] /\ 1 \in 1..Len(main)
        /\ \A i \in 1..Len(main') : i + 1 \in 1..Len(main) /\ main'[i] = main[i + 1]
    BY <1>0, <2>1, NextBlock
  <2>3. CASE main[1].kind = "token"
    <3>1. \A i \in 1..Len(main') : main'[i].kind # "token"
      BY <1>0, <2>2, <2>3 DEF OneToken
    <3> QED
      BY <3>1 DEF OneToken
  <2>4. CASE main[1].kind # "token"
    <3>1. fetch' = fetch
      BY <1>7, <2>2, <2>4 DEF MainQueue, RefreshAuthToken
    <3>2. ASSUME NEW i \in 1..Len(main'), main'[i].kind = "token"
          PROVE  fetch # None /\ fetch.phase = "answered"
      BY <2>2, <3>2 DEF OneToken
    <3>3. ASSUME NEW i \in 1..Len(main'), main'[i].kind = "token",
                 NEW j \in 1..Len(main'), main'[j].kind = "token"
          PROVE  i = j
      <4>1. i + 1 = j + 1
        BY <2>2, <3>3 DEF OneToken
      <4> QED
        BY <4>1
    <3> QED
      BY <3>1, <3>2, <3>3 DEF OneToken
  <2> QED
    BY <2>3, <2>4
<1>8. CASE Die
  BY <1>8 DEF Die, OneToken
<1>9. CASE LogoutClicked
  BY <1>1, <1>2, <1>9, LogoutQueues DEF LogoutClicked, clientVars
<1>10. CASE \E c \in calls : CallSucceeds(c)
  BY <1>1, <1>2, <1>10, Queues DEF CallSucceeds, clientVars
<1>11. CASE User /\ ~LogoutClicked
  BY <1>1, <1>11 DEF User, ButtonClicked, Back, LoginButtonClick, RegisterButtonClick, DeleteUserClicked, Call,
     SaveButtonClicked, SaveOnCalendarDiary, clientVars
<1>12. CASE Services /\ ~\E c \in calls : CallSucceeds(c)
  BY <1>1, <1>12 DEF Services, CallFails, AnalysisAnswered, AnalysisFails, Midnight, clientVars
<1>13. CASE OnReady \/ ReadTimesOut
  BY <1>1, <1>13 DEF OnReady, ReadTimesOut
<1>14. CASE Server \/ Launch
  BY <1>1, <1>14 DEF Server, ServeAuth, ServePut, ServeGet, Launch
<1>15. CASE UNCHANGED vars
  BY <1>1, <1>15 DEF vars, clientVars
<1> QED
  BY <1>4, <1>5, <1>6, <1>7, <1>8, <1>9, <1>10, <1>11, <1>12, <1>13, <1>14, <1>15 DEF Next, Client

LEMMA TypeInvStays == ASSUME TypeInv, UNCHANGED vars PROVE TypeInv'
<1>1. AppTyped' /\ ScreensFit' /\ LoadedHaveUsers' /\ IdsFit' /\ IdsBounded'
  <2>1. AppStays /\ reads' = reads /\ used' \in [Events -> Nat] /\ overtaken' \in BOOLEAN
        /\ main' \in Seq(Blocks) /\ CallersStay
    BY DEF vars, AppStays, authVars, clientVars, TypeInv, AppTyped, CallersStay, IdsBelow
  <2> QED
    BY <2>1, NoReadGoes, AppStaysFits
<1>2. ClientTyped' /\ ServerTyped' /\ NothingLeft' /\ WireFits'
  BY DEF vars, authVars, clientVars, serverVars, TypeInv, ClientTyped, ServerTyped, NothingLeft, WireFits
<1> QED
  BY <1>1, <1>2 DEF TypeInv

LEMMA TypeInvStep == ASSUME TypeInv, OneToken, [Next]_vars PROVE TypeInv'
<1>1. CASE User
  BY <1>1, ButtonClickedTypes, BackTypes, ClickTypes, LogoutTypes, SaveTypes, SaveOnCalendarDiaryTypes DEF User
<1>2. CASE Services
  BY <1>2, CallSucceedsTypes, CallFailsTypes, AnalysisAnsweredTypes, AnalysisFailsTypes, MidnightTypes
  DEF Services
<1>3. CASE MainQueue
  <2>1. main # <<>> /\ Head(main) \in Blocks /\ Head(main) = main[1] /\ 1 \in 1..Len(main)
    BY <1>3, NextBlock DEF MainQueue
  <2>2. Head(main).kind = "token" => fetch # None
    BY <2>1 DEF OneToken
  <2>3. Head(main).kind \in {"token", "notify", "signIn", "createUser", "delete"}
    BY <2>1 DEF Blocks, Done
  <2> QED
    BY <1>3, <2>2, <2>3, TokenBlockTypes, NotifyBlockTypes, SignedInTypes, RegisteredTypes, DeletedTypes
<1>4. CASE Client /\ ~MainQueue
  BY <1>4, RetryTypes, TokenIsLookedUpTypes, TokenIsRefreshedTypes, OnReadyTypes, ConnectionLostTypes,
     ReadTimesOutTypes DEF Client
<1>5. CASE Server
  BY <1>5, ServeAuthTypes, ServePutTypes, ServeGetTypes DEF Server
<1> QED
  BY <1>1, <1>2, <1>3, <1>4, <1>5, DieTypes, LaunchTypes, TypeInvStays DEF Next

\* For any users and bounds, the variables of the app have their types, and a
\* running app has a screen: no action (a completion, a late answer, a read, a
\* restart) leaves a view controller's id in two places, a request without its
\* connection or a screen without the user it unwraps.
THEOREM TypeCorrect == Spec => []TypeOK
<1>1. Init => TypeInv /\ OneToken
  <2>1. ASSUME Init PROVE OneToken
    <3>1. main = <<>>
      BY <2>1 DEF Init
    <3> QED
      BY <3>1 DEF OneToken
  <2> QED
    BY <2>1, InitTypes
<1>2. TypeInv /\ OneToken /\ [Next]_vars => TypeInv' /\ OneToken'
  BY TypeInvStep, OneTokenStep
<1> QED
  BY <1>1, <1>2, TypeInvIsTypeOK, PTL DEF Spec

-----------------------------------------------------------------------------
(* Whose token a connection carries                                        *)

Live == {"connecting", "authenticating", "connected"}

\* Tokens are of sessions that have been, and of the user of their session.
SessionsFit ==
  /\ session > 0
  /\ authToken.session <= session
  /\ authToken.session = session => authToken.user = currentUser
  /\ fetch # None /\ fetch.phase # "asked" =>
       fetch.session <= session /\ (fetch.session = session => fetch.user = currentUser)

\* Changes of the user are announced in their order, and the last of them is
\* still to come as long as any is.
NotesFit ==
  /\ \A i \in 1..Len(main) : main[i].kind = "notify" =>
       main[i].session <= session /\ (main[i].session = session => main[i].user = currentUser)
  /\ \A i, j \in 1..Len(main) :
       main[i].kind = "notify" /\ main[j].kind = "notify" /\ i < j => main[i].session < main[j].session
  /\ ~Announced => \E i \in 1..Len(main) : main[i].kind = "notify" /\ main[i].session = session

\* When nothing is left to announce, the connection has the token of this
\* session, and so has the client or its fetch.
TokenIsNew ==
  Announced =>
    /\ conn \in Live /\ ~overtaken => authToken.session = session
    /\ fetch # None /\ fetch.phase # "asked" => session \in {fetch.session, authToken.session}

TokenInv == SessionsFit /\ NotesFit /\ TokenIsNew

NoNotes == \A i \in 1..Len(main) : main[i].kind # "notify"

\* Announced, by the places of the queue.
LEMMA AnnouncedHere == TypeInv => (Announced <=> NoNotes)
<1> SUFFICES ASSUME TypeInv PROVE Announced <=> NoNotes
  OBVIOUS
<1>1. main \in Seq(Blocks)
  BY DEF TypeInv, AppTyped
<1>2. Range(main) = {main[i] : i \in 1..Len(main)}
  BY <1>1 DEF Range
<1> QED
  BY <1>2 DEF Announced, NoNotes

\* The same, spelled out, before a step and after it.
LEMMA AnnouncedIs ==
  ASSUME TypeInv PROVE Announced <=> \A i \in 1..Len(main) : main[i].kind # "notify"
BY AnnouncedHere DEF NoNotes

LEMMA AnnouncedNext ==
  ASSUME TypeInv' PROVE Announced' <=> \A i \in 1..Len(main') : main'[i].kind # "notify"
<1>1. Announced' <=> NoNotes'
  BY AnnouncedHere, PTL
<1> QED
  BY <1>1 DEF NoNotes

\* Blocks other than announcements leave them as they are.
LEMMA QuietAppend ==
  ASSUME TypeInv, TypeInv', NEW b, b.kind # "notify", main' = main \/ main' = Append(main, b)
  PROVE  /\ Announced' <=> Announced
         /\ \A i \in 1..Len(main') : main'[i].kind = "notify" => i \in 1..Len(main) /\ main'[i] = main[i]
         /\ \A i \in 1..Len(main) : i \in 1..Len(main') /\ main'[i] = main[i]
<1>1. Announced' <=> \A i \in 1..Len(main') : main'[i].kind # "notify"
  BY AnnouncedNext
<1>2. Announced <=> \A i \in 1..Len(main) : main[i].kind # "notify"
  BY AnnouncedIs
<1>3. main \in Seq(Blocks)
  BY DEF TypeInv, AppTyped
<1>4. CASE main' = main
  BY <1>1, <1>2, <1>4
<1>5. CASE main' = Append(main, b)
  <2>1. PICK n : n = Len(main)
    OBVIOUS
  <2>2. n \in Nat /\ Len(main') = n + 1 /\ main'[n + 1] = b /\ \A i \in 1..n : main'[i] = main[i]
    BY <1>3, <1>5, <2>1
  <2>3. \A i \in 1..Len(main') : i \in 1..n \/ i = n + 1
    BY <2>2
  <2>4. \A i \in 1..n : i \in 1..Len(main')
    BY <2>2
  <2> QED
    BY <1>1, <1>2, <2>1, <2>2, <2>3, <2>4
<1> QED
  BY <1>4, <1>5

\* Steps on which no token moves and nobody logs in or out.
LEMMA TokenInvStays ==
  ASSUME TypeInv, TypeInv', TokenInv, UNCHANGED <<currentUser, session, authToken, overtaken>>,
         fetch' = fetch \/ fetch' = None,
         conn' \in Live => conn \in Live,
         main' = main \/ \E b : b.kind # "notify" /\ Queued(b) /\ Len(main') = Len(main) + 1
  PROVE  TokenInv'
<1>1. Announced' <=> \A i \in 1..Len(main') : main'[i].kind # "notify"
  BY AnnouncedNext
<1>2. Announced <=> \A i \in 1..Len(main) : main[i].kind # "notify"
  BY AnnouncedIs
<1>3. Len(main) \in Nat
  BY Elements
<1>4. /\ \A i \in 1..Len(main') : main'[i].kind = "notify" => i \in 1..Len(main) /\ main'[i] = main[i]
      /\ \A i \in 1..Len(main) : i \in 1..Len(main') /\ main'[i] = main[i]
  <2>1. CASE main' = main
    BY <2>1
  <2>2. CASE \E b : b.kind # "notify" /\ Queued(b) /\ Len(main') = Len(main) + 1
    <3>1. PICK b : b.kind # "notify" /\ Queued(b) /\ Len(main') = Len(main) + 1
      BY <2>2
    <3> QED
      BY <1>3, <3>1 DEF Queued
  <2> QED
    BY <2>1, <2>2
<1>5. Announced' <=> Announced
  BY <1>1, <1>2, <1>4
<1>6. NotesFit'
  BY <1>4, <1>5 DEF TokenInv, NotesFit
<1>7. SessionsFit' /\ TokenIsNew'
  BY <1>5 DEF TokenInv, SessionsFit, TokenIsNew
<1> QED
  BY <1>6, <1>7 DEF TokenInv

\* A new session.
LEMMA TokenInvOfNew ==
  ASSUME TypeInv, TypeInv', TokenInv, UNCHANGED <<authToken, fetch, conn, overtaken>>,
         session' = session + 1,
         Queued([kind |-> "notify", id |-> 0, user |-> currentUser', session |-> session']),
         Len(main') = Len(main) + 1 \/ (Len(main') = Len(main) + 2 /\ main'[Len(main) + 2].kind \in Done)
  PROVE  TokenInv'
<1>1. Announced' <=> \A i \in 1..Len(main') : main'[i].kind # "notify"
  BY AnnouncedNext
<1>2. PICK n : n = Len(main)
  OBVIOUS
<1>3. /\ n \in Nat /\ session \in Nat /\ authToken.session \in Nat
      /\ fetch # None => fetch.session \in Nat
  BY <1>2, Elements DEF TypeInv, AppTyped, ClientTyped, Tokens, Fetches
<1>4. /\ n + 1 \in 1..Len(main') /\ main'[n + 1].kind = "notify"
      /\ main'[n + 1].session = session + 1 /\ main'[n + 1].user = currentUser'
      /\ \A i \in 1..n : main'[i] = main[i]
      /\ \A i \in 1..Len(main') : main'[i].kind = "notify" => i \in 1..n \/ i = n + 1
  BY <1>2, <1>3 DEF Queued, Done
<1>5. ~Announced'
  BY <1>1, <1>4
<1>6. SessionsFit' /\ TokenIsNew'
  BY <1>3, <1>5 DEF TokenInv, SessionsFit, TokenIsNew
<1>7. \A i \in 1..n : main[i].kind = "notify" => main[i].session \in Nat /\ main[i].session <= session
  BY <1>2, Elements DEF TokenInv, NotesFit, Blocks, Done
<1>8. \A i, j \in 1..n :
        main[i].kind = "notify" /\ main[j].kind = "notify" /\ i < j => main[i].session < main[j].session
  BY <1>2 DEF TokenInv, NotesFit
<1>9. NotesFit'
  <2>1. ASSUME NEW i \in 1..Len(main'), main'[i].kind = "notify"
        PROVE  main'[i].session <= session' /\ (main'[i].session = session' => main'[i].user = currentUser')
    BY <1>3, <1>4, <1>7, <2>1, SMTT(40)
  <2>2. ASSUME NEW i \in 1..Len(main'), main'[i].kind = "notify",
               NEW j \in 1..Len(main'), main'[j].kind = "notify", i < j
        PROVE  main'[i].session < main'[j].session
    BY <1>3, <1>4, <1>7, <1>8, <2>2, SMTT(40)
  <2>3. \E i \in 1..Len(main') : main'[i].kind = "notify" /\ main'[i].session = session'
    BY <1>4
  <2> QED
    BY <2>1, <2>2, <2>3 DEF NotesFit
<1> QED
  BY <1>6, <1>9 DEF TokenInv

\* A block of the main queue runs.
LEMMA NotesOfNext ==
  ASSUME TypeInv, TypeInv', TokenInv, main # <<>>, main' = Tail(main), UNCHANGED <<currentUser, session>>
  PROVE  /\ NotesFit'
         /\ main[1].kind # "notify" => (Announced' <=> Announced)
         /\ main[1].kind = "notify" => ~Announced /\ (Announced' => main[1].session = session)
<1>1. Announced' <=> \A i \in 1..Len(main') : main'[i].kind # "notify"
  BY AnnouncedNext
<1>2. Announced <=> \A i \in 1..Len(main) : main[i].kind # "notify"
  BY AnnouncedIs
<1>3. PICK n : n = Len(main)
  OBVIOUS
<1>4. /\ n \in Nat \ {0} /\ Len(main') = n - 1
      /\ \A i \in 1..Len(main') : i + 1 \in 1..n /\ main'[i] = main[i + 1]
  BY <1>3, NextBlock
<1>5. ASSUME NEW i \in 1..n, i # 1 PROVE i - 1 \in 1..Len(main') /\ main'[i - 1] = main[i]
  <2>1. i - 1 \in 1..Len(main') /\ (i - 1) + 1 = i
    BY <1>4, <1>5
  <2> QED
    BY <1>4, <2>1
<1>6. \A i \in 1..n : main[i].kind = "notify" => main[i].session \in Nat /\ main[i].session <= session
  BY <1>3, Elements DEF TokenInv, NotesFit, Blocks, Done
<1>7. \A i, j \in 1..n :
        main[i].kind = "notify" /\ main[j].kind = "notify" /\ i < j => main[i].session < main[j].session
  BY <1>3 DEF TokenInv, NotesFit
<1>8. ~Announced => \E i \in 1..n : main[i].kind = "notify" /\ main[i].session = session
  BY <1>3 DEF TokenInv, NotesFit
<1>9. session \in Nat
  BY Counters
<1>10. ASSUME ~Announced' PROVE \E i \in 1..Len(main') : main'[i].kind = "notify" /\ main'[i].session = session'
  <2>1. PICK j \in 1..Len(main') : main'[j].kind = "notify"
    BY <1>1, <1>10
  <2>2. j + 1 \in 1..n /\ main[j + 1].kind = "notify" /\ 1 < j + 1 /\ main[j + 1].session <= session
        /\ main[j + 1].session \in Nat
    BY <1>4, <1>6, <2>1
  <2>3. ~Announced
    BY <1>2, <1>3, <2>2
  <2>4. PICK i \in 1..n : main[i].kind = "notify" /\ main[i].session = session
    BY <1>8, <2>3
  <2>5. i # 1
    <3>1. ASSUME i = 1 PROVE FALSE
      <4>1. main[i].session < main[j + 1].session
        BY <1>7, <2>2, <2>4, <3>1
      <4> QED
        BY <1>9, <2>2, <2>4, <4>1
    <3> QED
      BY <3>1
  <2>6. i - 1 \in 1..Len(main') /\ main'[i - 1] = main[i]
    BY <1>5, <2>5
  <2> QED
    BY <2>4, <2>6
<1>11. NotesFit'
  <2>1. ASSUME NEW i \in 1..Len(main'), main'[i].kind = "notify"
        PROVE  main'[i].session <= session' /\ (main'[i].session = session' => main'[i].user = currentUser')
    <3>1. i + 1 \in 1..Len(main) /\ main'[i] = main[i + 1]
      BY <1>3, <1>4
    <3> QED
      BY <2>1, <3>1 DEF TokenInv, NotesFit
  <2>2. ASSUME NEW i \in 1..Len(main'), main'[i].kind = "notify",
               NEW j \in 1..Len(main'), main'[j].kind = "notify", i < j
        PROVE  main'[i].session < main'[j].session
    <3>1. i + 1 \in 1..n /\ main'[i] = main[i + 1] /\ j + 1 \in 1..n /\ main'[j] = main[j + 1] /\ i + 1 < j + 1
      BY <1>4, <2>2
    <3> QED
      BY <1>7, <2>2, <3>1
  <2> QED
    BY <1>10, <2>1, <2>2 DEF NotesFit
<1>12. ASSUME main[1].kind # "notify" PROVE Announced' <=> Announced
  <2>1. ASSUME Announced', NEW i \in 1..n, main[i].kind = "notify" PROVE FALSE
    <3>1. i - 1 \in 1..Len(main') /\ main'[i - 1] = main[i]
      BY <1>5, <1>12, <2>1
    <3> QED
      BY <1>1, <2>1, <3>1
  <2>2. ASSUME Announced, NEW i \in 1..Len(main'), main'[i].kind = "notify" PROVE FALSE
    <3>1. i + 1 \in 1..n /\ main'[i] = main[i + 1]
      BY <1>4
    <3> QED
      BY <1>2, <1>3, <2>2, <3>1
  <2> QED
    BY <1>1, <1>2, <1>3, <2>1, <2>2
<1>13. ASSUME main[1].kind = "notify" PROVE ~Announced /\ (Announced' => main[1].session = session)
  <2>1. 1 \in 1..n
    BY <1>4
  <2>2. ~Announced
    BY <1>2, <1>3, <1>13, <2>1
  <2>3. PICK i \in 1..n : main[i].kind = "notify" /\ main[i].session = session
    BY <1>8, <2>2
  <2>4. ASSUME Announced' PROVE i = 1
    <3>1. ASSUME i # 1 PROVE FALSE
      <4>1. i - 1 \in 1..Len(main') /\ main'[i - 1] = main[i]
        BY <1>5, <3>1
      <4> QED
        BY <1>1, <2>3, <2>4, <4>1
    <3> QED
      BY <3>1
  <2> QED
    BY <2>2, <2>3, <2>4
<1> QED
  BY <1>11, <1>12, <1>13

LEMMA TokenInvOfQueue ==
  ASSUME TypeInv, TypeInv', OneToken, TokenInv, MainQueue PROVE TokenInv'
<1>1. main # <<>> /\ main' = Tail(main) /\ UNCHANGED <<currentUser, session>>
  BY DEF MainQueue, authVars
<1>2. /\ NotesFit'
      /\ main[1].kind # "notify" => (Announced' <=> Announced)
      /\ main[1].kind = "notify" => ~Announced /\ (Announced' => main[1].session = session)
  BY <1>1, NotesOfNext
<1>3. Head(main) = main[1] /\ main[1] \in Blocks /\ 1 \in 1..Len(main)
  BY <1>1, NextBlock
<1>4. /\ session \in Nat /\ authToken.session \in Nat
      /\ fetch # None => fetch.session \in Nat
  BY DEF TypeInv, AppTyped, ClientTyped, Tokens, Fetches
<1>5. CASE main[1].kind = "token"
  <2>1. TokenArrives
    BY <1>3, <1>5 DEF MainQueue
  <2>2. fetch # None /\ fetch.phase = "answered"
    BY <1>3, <1>5 DEF OneToken
  <2>3. /\ fetch.session <= session /\ authToken.session <= session
        /\ fetch.session = session => fetch.user = currentUser
    BY <2>2 DEF TokenInv, SessionsFit
  <2>4. SessionsFit'
    BY <1>1, <2>1, <2>3 DEF TokenArrives, TokenInv, SessionsFit
  <2>5. Announced' => session \in {fetch.session, authToken.session}
    BY <1>2, <1>5, <2>2 DEF TokenInv, TokenIsNew
  <2>6. /\ authToken'.session = fetch.session /\ fetch' = None /\ session' = session
        /\ overtaken' = (fetch.session < authToken.session)
    BY <1>1, <2>1 DEF TokenArrives
  <2>7. ASSUME Announced', ~overtaken' PROVE fetch.session = session
    <3>1. ~(fetch.session < authToken.session)
      BY <2>6, <2>7, Zenon
    <3>2. fetch.session = session \/ authToken.session = session
      BY <2>5, <2>7
    <3>3. fetch.session \in Nat /\ session \in Nat /\ fetch.session <= session
      BY <1>4, <2>2, <2>3
    <3> QED
      BY ONLY <1>4, <3>1, <3>2, <3>3
  <2>8. TokenIsNew'
    BY <2>6, <2>7 DEF TokenIsNew
  <2> QED
    BY <1>2, <2>4, <2>8 DEF TokenInv
<1>6. CASE main[1].kind = "notify"
  <2>1. RefreshAuthToken(main[1].user, main[1].session)
    BY <1>3, <1>6 DEF MainQueue
  <2>2. main[1].session <= session /\ (main[1].session = session => main[1].user = currentUser)
    BY <1>3, <1>6 DEF TokenInv, NotesFit
  <2>3. SessionsFit'
    BY <1>1, <2>1, <2>2 DEF RefreshAuthToken, TokenInv, SessionsFit
  <2>4. TokenIsNew'
    <3>1. CASE conn = "idle"
      <4>1. fetch = None
        BY <3>1 DEF TypeInv, ClientTyped
      <4> QED
        BY <2>1, <3>1, <4>1 DEF RefreshAuthToken, TokenIsNew, Live
    <3>2. CASE conn # "idle"
      BY <1>1, <1>2, <1>6, <2>1, <3>2 DEF RefreshAuthToken, TokenIsNew
    <3> QED
      BY <3>1, <3>2
  <2> QED
    BY <1>2, <2>3, <2>4 DEF TokenInv
<1>7. CASE main[1].kind \in Done
  <2>1. UNCHANGED <<authToken, fetch, overtaken>>
    BY <1>3, <1>7, DoneBlock
  <2>2. conn' \in {conn, Opened}
    BY <1>3, <1>7, DoneBlock DEF Done, SignedIn, Registered, Deleted, Push
  <2>3. conn' \in Live => conn \in Live
    BY <2>2 DEF Opened, Live
  <2> QED
    BY <1>1, <1>2, <1>7, <2>1, <2>3 DEF TokenInv, SessionsFit, TokenIsNew, Done
<1> QED
  BY <1>3, <1>5, <1>6, <1>7 DEF Blocks

LEMMA TokenInvStep ==
  ASSUME TypeInv, TypeInv', OneToken, TokenInv, [Next]_vars PROVE TokenInv'
<1>1. CASE TokenIsLookedUp
  <2>1. PICK b : b.kind # "notify" /\ (main' = main \/ main' = Append(main, b))
    BY <1>1 DEF TokenIsLookedUp
  <2>2. /\ Announced' <=> Announced
        /\ \A i \in 1..Len(main') : main'[i].kind = "notify" => i \in 1..Len(main) /\ main'[i] = main[i]
        /\ \A i \in 1..Len(main) : i \in 1..Len(main') /\ main'[i] = main[i]
    BY <2>1, QuietAppend
  <2>3. NotesFit'
    BY <1>1, <2>2 DEF TokenIsLookedUp, authVars, TokenInv, NotesFit
  <2>4. SessionsFit' /\ TokenIsNew'
    <3>1. session \in Nat
      BY Counters
    <3> QED
      BY <1>1, <2>2, <3>1 DEF TokenIsLookedUp, authVars, TokenInv, SessionsFit, TokenIsNew
  <2> QED
    BY <2>3, <2>4 DEF TokenInv
<1>2. CASE TokenIsRefreshed
  <2>1. PICK b : b.kind # "notify" /\ main' = Append(main, b)
    BY <1>2 DEF TokenIsRefreshed
  <2>2. /\ Announced' <=> Announced
        /\ \A i \in 1..Len(main') : main'[i].kind = "notify" => i \in 1..Len(main) /\ main'[i] = main[i]
        /\ \A i \in 1..Len(main) : i \in 1..Len(main') /\ main'[i] = main[i]
    BY <2>1, QuietAppend
  <2>3. NotesFit'
    BY <1>2, <2>2 DEF TokenIsRefreshed, authVars, TokenInv, NotesFit
  <2>4. SessionsFit' /\ TokenIsNew'
    <3>1. fetch \in Fetches
      BY <1>2 DEF TokenIsRefreshed, TypeInv, ClientTyped
    <3>2. fetch'.session = fetch.session /\ fetch'.user = fetch.user /\ fetch # None /\ fetch.phase # "asked"
      BY <1>2, <3>1 DEF TokenIsRefreshed, Fetches
    <3> QED
      BY <1>2, <2>2, <3>2 DEF TokenIsRefreshed, authVars, TokenInv, SessionsFit, TokenIsNew
  <2> QED
    BY <2>3, <2>4 DEF TokenInv
<1>3. CASE Retry
  <2>1. Announced' <=> Announced
    BY <1>3 DEF Retry, Announced
  <2> QED
    BY <1>3, <2>1 DEF Retry, authVars, TokenInv, SessionsFit, NotesFit, TokenIsNew, Live
<1>4. CASE Die
  <2>1. main' = <<>>
    BY <1>4 DEF Die
  <2>2. Announced'
    <3>1. Announced' <=> \A i \in 1..Len(main') : main'[i].kind # "notify"
      BY AnnouncedNext
    <3> QED
      BY <2>1, <3>1
  <2>3. session \in Nat
    BY Counters
  <2>4. SessionsFit' /\ TokenIsNew'
    BY <1>4, <2>3 DEF Die, authVars, TokenInv, SessionsFit, TokenIsNew, Live
  <2> QED
    BY <2>1, <2>2, <2>4 DEF TokenInv, NotesFit
<1>5. CASE Launch
  <2>1. main' = <<>> /\ authToken' = [user |-> NoUser, session |-> 0]
    BY <1>5 DEF Launch, TypeInv, NothingLeft
  <2>2. Announced'
    <3>1. Announced' <=> \A i \in 1..Len(main') : main'[i].kind # "notify"
      BY AnnouncedNext
    <3> QED
      BY <2>1, <3>1
  <2>3. fetch' = None /\ conn' \notin Live /\ session' = 1
    BY <1>5 DEF Launch, TypeInv, NothingLeft, ClientTyped, Live
  <2>4. SessionsFit' /\ TokenIsNew'
    BY <2>1, <2>3 DEF SessionsFit, TokenIsNew
  <2> QED
    BY <2>1, <2>2, <2>4 DEF TokenInv, NotesFit
<1>6. CASE MainQueue
  BY <1>6, TokenInvOfQueue
<1>7. CASE LogoutClicked
  <2>1. UNCHANGED <<authToken, fetch, conn, overtaken>>
    BY <1>7 DEF LogoutClicked, clientVars
  <2> QED
    BY <1>7, <2>1, LogoutQueues, TokenInvStays, TokenInvOfNew
<1>8. CASE \E c \in calls : CallSucceeds(c)
  <2>1. UNCHANGED <<authToken, fetch, conn, overtaken>>
    BY <1>8 DEF CallSucceeds, clientVars
  <2> QED
    BY <1>8, <2>1, Queues, TokenInvStays, TokenInvOfNew DEF authVars
<1>9. CASE User /\ ~LogoutClicked
  <2>1. UNCHANGED <<currentUser, session, authToken, overtaken, fetch, main>>
    BY <1>9 DEF User, ButtonClicked, Back, LoginButtonClick, RegisterButtonClick, DeleteUserClicked, Call,
     SaveButtonClicked, SaveOnCalendarDiary, clientVars, authVars
  <2>2. conn' \in {conn, Opened}
    BY <1>9 DEF User, ButtonClicked, Push, Back, LoginButtonClick, RegisterButtonClick, DeleteUserClicked, Call,
     SaveButtonClicked, SaveOnCalendarDiary, clientVars
  <2> QED
    BY <2>1, <2>2, TokenInvStays DEF Opened, Live
<1>10. CASE Services /\ ~\E c \in calls : CallSucceeds(c)
  <2>1. UNCHANGED <<currentUser, session, authToken, overtaken, fetch, main>>
    BY <1>10 DEF Services, CallFails, AnalysisAnswered, AnalysisFails, Midnight, clientVars, authVars
  <2>2. conn' \in {conn, Opened}
    BY <1>10 DEF Services, CallFails, AnalysisAnswered, Push, AnalysisFails, Midnight, clientVars
  <2> QED
    BY <2>1, <2>2, TokenInvStays DEF Opened, Live
<1>11. CASE OnReady \/ ReadTimesOut \/ ConnectionLost
  <2>1. /\ UNCHANGED <<currentUser, session, authToken, overtaken, main>>
        /\ fetch' = fetch \/ fetch' = None
        /\ conn' \in Live => conn \in Live
    BY <1>11 DEF OnReady, ReadTimesOut, ConnectionLost, Disconnect, authVars, Live
  <2> QED
    BY <2>1, TokenInvStays
<1>12. CASE Server
  <2>1. /\ UNCHANGED <<currentUser, session, authToken, overtaken, main, fetch>>
        /\ conn' \in Live => conn \in Live
    BY <1>12 DEF Server, ServeAuth, ServePut, ServeGet, authVars, Live
  <2> QED
    BY <2>1, TokenInvStays
<1>13. CASE UNCHANGED vars
  <2>1. UNCHANGED <<currentUser, session, authToken, overtaken, main, fetch, conn>>
    BY <1>13 DEF vars, authVars, clientVars
  <2> QED
    BY <2>1, TokenInvStays
<1> QED
  BY <1>1, <1>2, <1>3, <1>4, <1>5, <1>6, <1>7, <1>8, <1>9, <1>10, <1>11, <1>12, <1>13 DEF Next, Client

-----------------------------------------------------------------------------
(* Whose credential the server acts upon                                   *)

\* What the server believes after the request m, if an authentication: u.
LastSaid(m, u) == IF m = 0 THEN cred = u ELSE wire[m].kind = "auth" /\ wire[m].user = u

\* The server takes the request n for one of u.
CredAt(n, u) == \E m \in 0..(n - 1) : LastSaid(m, u) /\ \A k \in (m + 1)..(n - 1) : wire[k].kind # "auth"

\* When all that is on its way has been served, the server takes the connection
\* for that of the client's token.
TokenSent == conn \in {"authenticating", "connected"} => CredAt(Len(wire) + 1, authToken.user)

\* The server serves a request: the others are one nearer.
LEMMA CredShift ==
  ASSUME NEW n \in Nat, NEW u, CredAt(n + 1, u), n > 0,
         cred' = IF wire[1].kind = "auth" THEN wire[1].user ELSE cred,
         \A k \in 1..(n - 1) : wire'[k] = wire[k + 1]
  PROVE  CredAt(n, u)'
<1>1. PICK m \in 0..n : LastSaid(m, u) /\ \A k \in (m + 1)..n : wire[k].kind # "auth"
  BY DEF CredAt
<1>2. CASE m \in {0, 1}
  <2>1. LastSaid(0, u)'
    BY <1>1, <1>2 DEF LastSaid
  <2>2. ASSUME NEW k \in (0 + 1)..(n - 1) PROVE wire'[k].kind # "auth"
    <3>1. k \in 1..(n - 1) /\ k + 1 \in (m + 1)..n
      BY <1>2
    <3> QED
      BY <1>1, <3>1
  <2>3. 0 \in 0..(n - 1)
    OBVIOUS
  <2> QED
    BY <2>1, <2>2, <2>3 DEF CredAt
<1>3. CASE m > 1
  <2>1. m - 1 \in 0..(n - 1) /\ m - 1 # 0 /\ m - 1 \in 1..(n - 1) /\ (m - 1) + 1 = m
    BY <1>1, <1>3
  <2>2. LastSaid(m - 1, u)'
    BY <1>1, <1>3, <2>1 DEF LastSaid
  <2>3. ASSUME NEW k \in ((m - 1) + 1)..(n - 1) PROVE wire'[k].kind # "auth"
    <3>1. k \in 1..(n - 1) /\ k + 1 \in (m + 1)..n
      BY <1>3
    <3> QED
      BY <1>1, <3>1
  <2> QED
    BY <2>1, <2>2, <2>3 DEF CredAt
<1> QED
  BY <1>1, <1>2, <1>3

\* Nothing is served, and what joins the queue is no authentication.
LEMMA CredStays ==
  ASSUME NEW n \in Nat, NEW b \in Nat, n <= b, NEW u, CredAt(n + 1, u), cred' = cred,
         \A k \in 1..n : wire'[k] = wire[k],
         \A k \in (n + 1)..b : wire'[k].kind # "auth"
  PROVE  CredAt(b + 1, u)'
<1>1. PICK m \in 0..n : LastSaid(m, u) /\ \A k \in (m + 1)..n : wire[k].kind # "auth"
  BY DEF CredAt
<1>2. m \in 0..((b + 1) - 1) /\ (m = 0 \/ m \in 1..n)
  OBVIOUS
<1>3. LastSaid(m, u)'
  BY <1>1, <1>2 DEF LastSaid
<1>4. ASSUME NEW k \in (m + 1)..((b + 1) - 1) PROVE wire'[k].kind # "auth"
  <2>1. (k \in (m + 1)..n /\ k \in 1..n) \/ k \in (n + 1)..b
    OBVIOUS
  <2> QED
    BY <1>1, <2>1
<1> QED
  BY <1>2, <1>3, <1>4 DEF CredAt

\* An authentication is the last word.
LEMMA CredOfLast ==
  ASSUME NEW n \in Nat \ {0}, wire'[n].kind = "auth",
         NEW b \in Nat, n <= b, \A k \in (n + 1)..b : wire'[k].kind # "auth"
  PROVE  CredAt(b + 1, wire[n].user)'
<1>1. n \in 0..((b + 1) - 1) /\ n # 0
  OBVIOUS
<1>2. \A u : u = wire'[n].user => LastSaid(n, u)'
  BY <1>1 DEF LastSaid
<1>3. \A k \in (n + 1)..((b + 1) - 1) : wire'[k].kind # "auth"
  OBVIOUS
<1> QED
  BY <1>1, <1>2, <1>3 DEF CredAt, LastSaid

\* The first connection of a token, and the requests restored behind it.
LEMMA TokenSentOnReady == ASSUME TypeInv, OnReady PROVE TokenSent'
<1>1. cred = NoUser /\ cred' = cred /\ authToken' = authToken
  BY DEF OnReady, TypeInv, WireFits
<1>2. CASE authToken.user = NoUser
  <2>1. RestoreState(<<>>)
    BY <1>2 DEF OnReady
  <2>2. PICK first : first = <<>>
    OBVIOUS
  <2>3. first \in Seq(Requests) /\ Len(first) = 0 /\ RestoreState(first)
    BY <2>1, <2>2
  <2>4. Resent(first)
    BY <2>3, Restores
  <2>5. PICK a, b : a = Len(puts) /\ b = Len(reads)
    OBVIOUS
  <2>6. a \in Nat /\ b \in Nat /\ Len(wire') = a + b
    BY <2>3, <2>4, <2>5, Elements DEF Resent
  <2>7. ASSUME NEW k \in 1..(a + b) PROVE wire'[k].kind # "auth"
    <3>1. CASE k \in 1..a
      <4>1. wire'[0 + k] = PutRequest(puts[k]) /\ puts[k] \in Puts
        BY <2>3, <2>4, <2>5, <3>1, Elements DEF Resent
      <4> QED
        BY <3>1, <4>1, RequestTypes
    <3>2. CASE k > a
      <4>1. k - a \in 1..b /\ 0 + a + (k - a) = k
        BY <2>6, <3>2
      <4>2. wire'[0 + a + (k - a)] = GetRequest(reads[k - a]) /\ reads[k - a] \in ReadSet
        BY <2>3, <2>4, <2>5, <4>1, Elements DEF Resent
      <4> QED
        BY <4>1, <4>2, RequestTypes
    <3> QED
      BY <2>6, <3>1, <3>2
  <2>8. LastSaid(0, NoUser)'
    BY <1>1 DEF LastSaid
  <2>9. CredAt(a + b + 1, NoUser)'
    <3>1. 0 \in 0..((a + b + 1) - 1) /\ \A k \in (0 + 1)..((a + b + 1) - 1) : wire'[k].kind # "auth"
      BY <2>6, <2>7
    <3> QED
      BY <2>8, <3>1 DEF CredAt
  <2> QED
    BY <1>1, <1>2, <2>6, <2>9 DEF TokenSent
<1>3. CASE authToken.user # NoUser
  <2>1. wire' = <<AuthRequest(authToken.user)>>
    BY <1>3 DEF OnReady
  <2>2. authToken.user \in Uids
    BY DEF TypeInv, ClientTyped, Tokens
  <2>3. Len(wire') = 1 /\ wire'[1].kind = "auth" /\ wire'[1].user = authToken.user
    BY <2>1, <2>2, RequestTypes
  <2>4. CredAt(1 + 1, wire[1].user)'
    BY <2>3, CredOfLast
  <2> QED
    BY <1>1, <2>3, <2>4 DEF TokenSent
<1> QED
  BY <1>2, <1>3

\* The server takes the first request from the wire, and what joins is none of
\* authentication.
LEMMA TokenSentServed ==
  ASSUME TypeInv, TokenSent, wire # <<>>, authToken' = authToken,
         cred' = IF wire[1].kind = "auth" THEN wire[1].user ELSE cred,
         Len(wire') \in Nat, Len(wire') >= Len(wire) - 1,
         \A k \in 1..(Len(wire) - 1) : wire'[k] = wire[k + 1],
         \A k \in 1..Len(wire') : k >= Len(wire) => wire'[k].kind # "auth"
  PROVE  TokenSent'
<1>1. PICK n : n = Len(wire)
  OBVIOUS
<1>2. n \in Nat /\ n > 0
  BY <1>1, NextRequest
<1>3. CredAt(n + 1, authToken.user)
  BY <1>1, NextRequest DEF TokenSent
<1>4. \A k \in 1..(n - 1) : wire'[k] = wire[k + 1]
  BY <1>1
<1>5. CredAt(n, authToken.user)'
  BY <1>2, <1>3, <1>4, CredShift
<1>6. CredAt(Len(wire) + 1, authToken.user)'
  <2>1. PICK m \in 0..(n - 1) : LastSaid(m, authToken.user)' /\ \A k \in (m + 1)..(n - 1) : wire'[k].kind # "auth"
    BY <1>5 DEF CredAt
  <2>2. PICK b : b = Len(wire')
    OBVIOUS
  <2>3. b \in Nat /\ b >= n - 1 /\ \A k \in 1..b : k >= n => wire'[k].kind # "auth"
    BY <1>1, <2>2
  <2>4. m \in 0..((b + 1) - 1)
    BY <1>2, <2>3
  <2>5. ASSUME NEW k \in (m + 1)..((b + 1) - 1) PROVE wire'[k].kind # "auth"
    <3>1. k \in (m + 1)..(n - 1) \/ (k \in 1..b /\ k >= n)
      BY <1>2, <2>3
    <3> QED
      BY <2>1, <2>3, <3>1
  <2>6. CredAt(b + 1, authToken.user)'
    BY <2>1, <2>4, <2>5 DEF CredAt
  <2> QED
    BY <2>2, <2>6
<1> QED
  BY <1>6 DEF TokenSent

\* At most one request that is no authentication joins the wire.
LEMMA TokenSentStays ==
  ASSUME TypeInv, TokenSent, UNCHANGED <<authToken, cred>>,
         conn' \in {"authenticating", "connected"} => conn' = conn,
         wire' = wire \/ \E q \in Requests : q.kind # "auth" /\ wire' = Append(wire, q)
  PROVE  TokenSent'
<1> SUFFICES ASSUME conn' \in {"authenticating", "connected"}
             PROVE  CredAt(Len(wire) + 1, authToken.user)'
  BY DEF TokenSent
<1>1. PICK n : n = Len(wire)
  OBVIOUS
<1>2. wire \in Seq(Requests) /\ n \in Nat
  BY <1>1, Elements DEF TypeInv, ClientTyped
<1>3. CredAt(n + 1, authToken.user)
  BY <1>1 DEF TokenSent
<1>4. CASE wire' = wire
  <2>1. \A k \in 1..n : wire'[k] = wire[k]
    BY <1>4
  <2>2. \A k \in (n + 1)..n : wire'[k].kind # "auth"
    BY <1>2
  <2>3. CredAt(n + 1, authToken.user)'
    BY <1>2, <1>3, <2>1, <2>2, CredStays
  <2> QED
    BY <1>1, <1>4, <2>3
<1>5. CASE \E q \in Requests : q.kind # "auth" /\ wire' = Append(wire, q)
  <2>1. PICK q \in Requests : q.kind # "auth" /\ wire' = Append(wire, q)
    BY <1>5
  <2>2. Len(wire') = n + 1 /\ wire'[n + 1] = q /\ \A k \in 1..n : wire'[k] = wire[k]
    BY <1>1, <1>2, <2>1
  <2>3. \A k \in (n + 1)..(n + 1) : wire'[k].kind # "auth"
    BY <1>2, <2>1, <2>2
  <2>4. n + 1 \in Nat /\ n <= n + 1
    BY <1>2
  <2>5. PICK b \in Nat : b = n + 1
    BY <2>4
  <2>6. CredAt(b + 1, authToken.user)'
    BY <1>2, <1>3, <2>2, <2>3, <2>4, <2>5, CredStays
  <2> QED
    BY <2>2, <2>5, <2>6
<1> QED
  BY <1>4, <1>5

-----------------------------------------------------------------------------
(* What the screens and the completions ask of the client                  *)

\* A screen asks for its diaries.
Asked(s) ==
  /\ Comes(s) /\ ReadComes(s)
  /\ wire' = IF conn = "connected"
             THEN Append(wire, GetRequest([id |-> s.id, uid |-> s.uid, for |-> s.kind])) ELSE wire
  /\ s.uid = currentUser /\ currentUser # NoUser
  /\ s.kind = "calendar" => s.asOf = used.save
  /\ s.kind = "image" => \E p \in posts : p.save = s.about

\* A write is made.
Made(p) ==
  /\ Written(p) /\ p.session = session /\ p.own = (p.uid = currentUser /\ Announced)
  /\ UNCHANGED <<currentUser, session, reads>>
  /\ p.path = "diary" => p.value = used.save + 1 /\ used'.save = used.save + 1 /\ main' = main

\* What a step of a screen, of a service or of a completion does to the client.
Asks ==
  /\ UNCHANGED <<fetch, authToken, cred, overtaken>> /\ conn' \in {conn, Opened}
  /\ \/ UNCHANGED <<puts, reads, wire>>
     \/ \E p : Made(p)
     \/ puts' = puts /\ \E s : Asked(s)

LEMMA PushAsks ==
  ASSUME TypeInv, NEW s, Comes(s), Push(s), s.uid # NoUser => s.uid = currentUser,
         s.kind = "calendar" => s.asOf = used.save,
         s.kind = "image" => \E p \in posts : p.save = s.about
  PROVE  UNCHANGED <<reads, wire>> \/ Asked(s)
<1>1. CASE s.kind \in {"image", "calendar"} /\ s.uid # NoUser /\ GetData(s)
  <2>1. s.uid \in Users
    BY <1>1 DEF Comes, Screens, Uids
  <2>2. ReadComes(s)
    BY <1>1, <2>1 DEF ReadComes, GetData
  <2>3. wire' = IF conn = "connected"
                THEN Append(wire, GetRequest([id |-> s.id, uid |-> s.uid, for |-> s.kind])) ELSE wire
    BY <1>1 DEF GetData, Send
  <2> QED
    BY <1>1, <2>2, <2>3 DEF Asked
<1>2. UNCHANGED <<reads, wire>> \/ (s.kind \in {"image", "calendar"} /\ s.uid # NoUser /\ GetData(s))
  BY DEF Push, Reads
<1> QED
  BY <1>1, <1>2

LEMMA ButtonAsks ==
  ASSUME TypeInv, NEW g \in Goes, ButtonClicked(g[1], g[2])
  PROVE  /\ Asks
         /\ \E s : /\ Comes(s) /\ stack' = Append(stack, s) /\ s.kind = g[2] /\ Loads(s)
                   /\ s.uid = IF s.kind = "register" THEN NoUser ELSE currentUser
                   /\ s.session = IF s.kind = "mypage" THEN session ELSE 0
                   /\ s.kind # "image" /\ s.asOf = IF s.kind = "calendar" THEN used.save ELSE 0
<1>1. PICK day \in IF g[2] = "diary" THEN 1..today ELSE {today} :
        Push([Screen(g[2], FreshId) EXCEPT !.about = IF g[2] = "diary" THEN day ELSE None])
  BY DEF ButtonClicked
<1>2. PICK s : s = [Screen(g[2], FreshId) EXCEPT !.about = IF g[2] = "diary" THEN day ELSE None]
  OBVIOUS
<1>3. Push(s) /\ stack' = Append(stack, s)
  BY <1>1, <1>2 DEF Push
<1>4. g[2] \in Kinds \ {"login", "image"}
  BY DEF Goes, Kinds
<1>5. PICK k, x : k = g[2] /\ x = IF g[2] = "diary" THEN day ELSE None
  OBVIOUS
<1>6. k \in Kinds /\ k # "login" /\ k # "image" /\ NewAbout(k, x, s)
  BY <1>2, <1>4, <1>5 DEF NewAbout
<1>7. x \in Nat \cup {None} /\ (k = "diary" => x \in 1..today)
  <2>1. CASE k = "diary"
    <3>1. today \in Nat /\ day \in 1..today
      BY <1>1, <1>5, <2>1, SessionAssumption DEF TypeInv, AppTyped, Days
    <3> QED
      BY <1>5, <2>1, <3>1
  <2>2. CASE k # "diary"
    BY <1>5, <2>2
  <2> QED
    BY <2>1, <2>2
<1>8. /\ Comes(s) /\ s.kind = k
      /\ s.uid = IF k \in {"login", "register"} THEN NoUser ELSE currentUser
      /\ s.session = IF k = "mypage" THEN session ELSE 0
      /\ s.asOf = IF k = "calendar" THEN used.save ELSE 0
  BY <1>3, <1>6, <1>7, NewComes
<1>9. UNCHANGED <<reads, wire>> \/ Asked(s)
  BY <1>3, <1>6, <1>8, PushAsks
<1>10. UNCHANGED <<fetch, authToken, cred, overtaken, puts>> /\ conn' \in {conn, Opened}
  BY <1>3 DEF ButtonClicked, Push
<1> QED
  BY <1>3, <1>5, <1>6, <1>8, <1>9, <1>10 DEF Asks, Push

\* Steps that do not ask.
LEMMA NoneAsked ==
  ASSUME UNCHANGED <<fetch, authToken, cred, overtaken, conn, puts, reads, wire>> PROVE Asks
BY DEF Asks

LEMMA SaveAsks == ASSUME TypeInv, SaveButtonClicked PROVE Asks
<1>1. /\ up = "running" /\ Top.kind = "plus" /\ Spend("save")
      /\ UNCHANGED <<main, currentUser, session, conn, fetch, authToken, reads, cred, overtaken>>
  BY DEF SaveButtonClicked, InFront, authVars
<1>2. CASE Top.uid = NoUser
  BY <1>1, <1>2, NoneAsked DEF SaveButtonClicked
<1>3. CASE Top.uid # NoUser
  <2>1. PICK u, v : u = Top.uid /\ v = used.save + 1
    OBVIOUS
  <2>2. u \in Users /\ v \in Nat /\ Put("diary", u, today, v) /\ today \in Days
    <3>1. Top \in Screens /\ v \in Nat /\ today \in Days
      BY <1>1, <2>1, Counters, TopFits DEF TypeInv, AppTyped
    <3>2. u \in Users
      BY <1>3, <2>1, <3>1 DEF Screens, Uids
    <3>3. Put("diary", u, today, v)
      BY <1>3, <2>1 DEF SaveButtonClicked
    <3> QED
      BY <3>1, <3>2, <3>3
  <2>3. PICK p : /\ Written(p)
                 /\ p.path = "diary" /\ p.uid = u /\ p.value = v
                 /\ p.session = session /\ p.own = (u = currentUser /\ Announced)
    BY <2>2, Writes
  <2>4. used'.save = used.save + 1
    BY <1>1, Spends DEF TypeInv, AppTyped, Events
  <2>5. Made(p)
    BY <1>1, <2>1, <2>3, <2>4 DEF Made
  <2> QED
    BY <1>1, <2>5 DEF Asks
<1> QED
  BY <1>2, <1>3

LEMMA SaveOnCalendarAsks == ASSUME TypeInv, SaveOnCalendarDiary PROVE Asks
<1>1. /\ up = "running" /\ Top.kind = "diary" /\ Spend("save")
      /\ UNCHANGED <<main, currentUser, session, conn, fetch, authToken, reads, cred, overtaken>>
  BY DEF SaveOnCalendarDiary, InFront, authVars
<1>2. PICK n, u, d, v : n = Len(stack) /\ u = Top.uid /\ d = Top.about /\ v = used.save + 1
  OBVIOUS
<1>3. n \in Nat \ {0} /\ Top = stack[n] /\ u \in Users /\ v \in Nat
  BY <1>1, <1>2, Counters, TopFits
<1>4. d \in Days
  <2>1. d \in 1..today /\ today \in Days
    BY <1>1, <1>2, <1>3 DEF TypeInv, ScreensFit, AppTyped
  <2>2. LastDay \in Nat
    BY SessionAssumption
  <2> QED
    BY <2>1, <2>2 DEF Days
<1>5. Put("diary", u, d, v)
  BY <1>2 DEF SaveOnCalendarDiary
<1>6. PICK p : /\ Written(p)
               /\ p.path = "diary" /\ p.uid = u /\ p.value = v
               /\ p.session = session /\ p.own = (u = currentUser /\ Announced)
  BY <1>3, <1>4, <1>5, Writes
<1>7. used'.save = used.save + 1
  BY <1>1, Spends DEF TypeInv, AppTyped, Events
<1>8. Made(p)
  BY <1>1, <1>2, <1>6, <1>7 DEF Made
<1> QED
  BY <1>1, <1>8 DEF Asks

LEMMA AnalysisAsks == ASSUME TypeInv, NEW p \in posts, AnalysisAnswered(p) PROVE Asks
<1>1. UNCHANGED <<fetch, authToken, cred, overtaken, puts>>
  BY DEF AnalysisAnswered
<1>2. CASE Push(Image(p))
  <2>1. PICK s : s = Image(p)
    OBVIOUS
  <2>2. stack' = Append(stack, s) /\ Push(s)
    BY <1>2, <2>1 DEF Push
  <2>3. Comes(s) /\ s.kind = "image" /\ s.about = p.save /\ s.uid = currentUser
    BY <2>1, <2>2, ImageComes
  <2>4. UNCHANGED <<reads, wire>> \/ Asked(s)
    BY <2>2, <2>3, PushAsks
  <2> QED
    BY <1>1, <2>2, <2>4 DEF Asks, Push
<1>3. CASE UNCHANGED <<conn, reads, wire>>
  BY <1>1, <1>3, NoneAsked
<1> QED
  BY <1>2, <1>3 DEF AnalysisAnswered

LEMMA DoneAsks == ASSUME TypeInv, MainQueue, Head(main).kind \in Done PROVE Asks
<1> DEFINE b == Head(main)
<1>1. /\ b.user \in Users
      /\ UNCHANGED <<fetch, authToken, cred, overtaken, currentUser, session>>
      /\ b.kind = "signIn" => SignedIn(b)
      /\ b.kind = "createUser" => Registered(b)
      /\ b.kind = "delete" => Deleted(b)
  BY DoneBlock
<1>2. CASE b.kind = "signIn"
  <2>1. CASE Push(Screen("home", FreshId))
    <3>1. PICK s : s = Screen("home", FreshId)
      OBVIOUS
    <3>2. "home" \in Kinds /\ "home" \notin {"diary", "image"} /\ stack' = Append(stack, s) /\ Push(s)
      BY <2>1, <3>1 DEF Kinds, Push
    <3>3. Comes(s) /\ s.kind = "home" /\ s.uid = currentUser
      BY <3>1, <3>2, PlainComes
    <3>4. UNCHANGED <<reads, wire>> \/ Asked(s)
      BY <3>2, <3>3, PushAsks
    <3>5. puts' = puts
      BY <1>1, <1>2 DEF SignedIn
    <3> QED
      BY <1>1, <3>2, <3>4, <3>5 DEF Asks, Push
  <2>2. CASE UNCHANGED <<conn, reads, wire>>
    BY <1>1, <1>2, <2>2, NoneAsked DEF SignedIn
  <2> QED
    BY <1>1, <1>2, <2>1, <2>2 DEF SignedIn
<1>3. CASE b.kind = "createUser"
  <2>1. Registered(b) /\ reads' = reads /\ conn' = Opened
    BY <1>1, <1>3 DEF Registered
  <2>2. CASE currentUser # NoUser
    <3>1. PICK u : u = currentUser
      OBVIOUS
    <3>2. u \in Users /\ Put("Users", u, None, u)
      BY <2>1, <2>2, <3>1 DEF Registered, TypeInv, AppTyped, Uids
    <3>3. PICK p : /\ Written(p)
                   /\ p.path = "Users" /\ p.uid = u
                   /\ p.session = session /\ p.own = (u = currentUser /\ Announced)
      BY <3>2, Writes
    <3>4. Made(p)
      BY <1>1, <2>1, <3>3 DEF Made
    <3> QED
      BY <1>1, <2>1, <3>4 DEF Asks
  <2>3. CASE currentUser = NoUser
    BY <1>1, <2>1, <2>3 DEF Registered, Asks
  <2> QED
    BY <2>2, <2>3
<1>4. CASE b.kind = "delete"
  <2>1. PICK u : u = b.user
    OBVIOUS
  <2>2. Deleted(b) /\ reads' = reads /\ conn' = conn /\ u \in Users /\ Put("Users", u, None, None)
    BY <1>1, <1>4, <2>1 DEF Deleted
  <2>3. PICK p : /\ Written(p)
                 /\ p.path = "Users" /\ p.uid = u
                 /\ p.session = session /\ p.own = (u = currentUser /\ Announced)
    BY <2>2, Writes
  <2>4. Made(p)
    BY <1>1, <2>2, <2>3 DEF Made
  <2> QED
    BY <1>1, <2>2, <2>4 DEF Asks
<1> QED
  BY <1>2, <1>3, <1>4 DEF Done

\* Together.
LEMMA AppAsks ==
  ASSUME TypeInv, User \/ Services \/ (MainQueue /\ Head(main).kind \in Done) PROVE Asks
<1>1. CASE User
  <2>1. CASE Back \/ LoginButtonClick \/ RegisterButtonClick \/ DeleteUserClicked \/ LogoutClicked
    BY <2>1, NoneAsked
    DEF Back, LoginButtonClick, RegisterButtonClick, DeleteUserClicked, LogoutClicked, Call, clientVars
  <2> QED
    BY <1>1, <2>1, ButtonAsks, SaveAsks, SaveOnCalendarAsks DEF User
<1>2. CASE Services
  <2>1. CASE Midnight \/ (\E c \in calls : CallSucceeds(c) \/ CallFails(c)) \/ (\E p \in posts : AnalysisFails(p))
    BY <2>1, NoneAsked DEF Midnight, CallSucceeds, CallFails, AnalysisFails, clientVars
  <2> QED
    BY <1>2, <2>1, AnalysisAsks DEF Services
<1> QED
  BY <1>1, <1>2, DoneAsks

\* The server accepts a credential, and the requests are restored behind those
\* that wait.
LEMMA TokenSentServeAuth == ASSUME TypeInv, TokenSent, ServeAuth PROVE TokenSent'
<1>1. wire # <<>> /\ Head(wire).kind = "auth" /\ cred' = Head(wire).user /\ authToken' = authToken
  BY DEF ServeAuth
<1>2. PICK t, n : t = Tail(wire) /\ n = Len(wire)
  OBVIOUS
<1>3. /\ t \in Seq(Requests) /\ Head(wire) = wire[1] /\ n \in Nat \ {0} /\ Len(t) = n - 1
      /\ \A i \in 1..(n - 1) : t[i] = wire[i + 1]
  BY <1>1, <1>2, NextRequest
<1>4. cred' = IF wire[1].kind = "auth" THEN wire[1].user ELSE cred
  BY <1>1, <1>3
<1>5. CASE conn = "authenticating"
  <2>1. RestoreState(t)
    BY <1>2, <1>5 DEF ServeAuth
  <2>2. Resent(t)
    BY <1>3, <2>1, Restores
  <2>3. PICK a, b : a = Len(puts) /\ b = Len(reads)
    OBVIOUS
  <2>4. a \in Nat /\ b \in Nat /\ Len(wire') = (n - 1) + a + b
        /\ \A k \in 1..(n - 1) : wire'[k] = t[k]
    BY <1>3, <2>2, <2>3, Elements DEF Resent
  <2>5. ASSUME NEW k \in 1..Len(wire'), k >= n PROVE wire'[k].kind # "auth"
    <3>1. CASE k <= (n - 1) + a
      <4>1. k - (n - 1) \in 1..a /\ (n - 1) + (k - (n - 1)) = k
        BY <1>3, <2>4, <2>5, <3>1
      <4>2. wire'[(n - 1) + (k - (n - 1))] = PutRequest(puts[k - (n - 1)]) /\ puts[k - (n - 1)] \in Puts
        BY <1>3, <2>2, <2>3, <4>1, Elements DEF Resent
      <4> QED
        BY <4>1, <4>2, RequestTypes
    <3>2. CASE k > (n - 1) + a
      <4>1. k - ((n - 1) + a) \in 1..b /\ (n - 1) + a + (k - ((n - 1) + a)) = k
        BY <1>3, <2>4, <2>5, <3>2
      <4>2. /\ wire'[(n - 1) + a + (k - ((n - 1) + a))] = GetRequest(reads[k - ((n - 1) + a)])
            /\ reads[k - ((n - 1) + a)] \in ReadSet
        BY <1>3, <2>2, <2>3, <4>1, Elements DEF Resent
      <4> QED
        BY <4>1, <4>2, RequestTypes
    <3> QED
      BY <1>3, <2>4, <3>1, <3>2
  <2>6. /\ Len(wire') \in Nat /\ Len(wire') >= Len(wire) - 1
        /\ \A k \in 1..(Len(wire) - 1) : wire'[k] = wire[k + 1]
        /\ \A k \in 1..Len(wire') : k >= Len(wire) => wire'[k].kind # "auth"
    BY <1>2, <1>3, <2>4, <2>5
  <2> QED
    BY <1>1, <1>4, <2>6, TokenSentServed
<1>6. CASE conn # "authenticating"
  <2>1. wire' = t
    BY <1>2, <1>6 DEF ServeAuth
  <2>2. /\ Len(wire') \in Nat /\ Len(wire') >= Len(wire) - 1
        /\ \A k \in 1..(Len(wire) - 1) : wire'[k] = wire[k + 1]
        /\ \A k \in 1..Len(wire') : k >= Len(wire) => wire'[k].kind # "auth"
    BY <1>2, <1>3, <2>1
  <2> QED
    BY <1>1, <1>4, <2>2, TokenSentServed
<1> QED
  BY <1>5, <1>6

\* The token the server is to act upon, after a step.
LEMMA TokenSentStep == ASSUME TypeInv, OneToken, TokenSent, [Next]_vars PROVE TokenSent'
<1>1. ASSUME Asks PROVE TokenSent'
  <2>1. UNCHANGED <<authToken, cred>> /\ (conn' \in {"authenticating", "connected"} => conn' = conn)
    BY <1>1 DEF Asks, Opened
  <2>2. CASE UNCHANGED <<puts, reads, wire>>
    BY <2>1, <2>2, TokenSentStays
  <2>3. CASE \E p : Made(p)
    <3>1. PICK p : Made(p)
      BY <2>3
    <3>2. p \in Puts /\ (wire' = wire \/ wire' = Append(wire, PutRequest(p)))
      BY <3>1 DEF Made, Written
    <3>3. PutRequest(p) \in Requests /\ PutRequest(p).kind # "auth"
      BY <3>2, RequestTypes
    <3> QED
      BY <2>1, <3>2, <3>3, TokenSentStays
  <2>4. CASE \E s : Asked(s)
    <3>1. PICK s : Asked(s)
      BY <2>4
    <3>2. PICK r : r = [id |-> s.id, uid |-> s.uid, for |-> s.kind]
      OBVIOUS
    <3>3. r \in ReadSet /\ (wire' = wire \/ wire' = Append(wire, GetRequest(r)))
      BY <3>1, <3>2 DEF Asked, Comes, ReadComes, ReadSet, Screens
    <3>4. GetRequest(r) \in Requests /\ GetRequest(r).kind # "auth"
      BY <3>3, RequestTypes
    <3> QED
      BY <2>1, <3>3, <3>4, TokenSentStays
  <2> QED
    BY <1>1, <2>2, <2>3, <2>4 DEF Asks
<1>2. CASE User \/ Services \/ (MainQueue /\ Head(main).kind \in Done)
  BY <1>1, <1>2, AppAsks
<1>3. CASE MainQueue /\ Head(main).kind \notin Done
  <2>1. main # <<>> /\ Head(main) \in Blocks
    BY <1>3, NextBlock DEF MainQueue
  <2>2. CASE Head(main).kind = "token"
    BY <1>3, <2>2 DEF MainQueue, TokenArrives, TokenSent
  <2>3. CASE Head(main).kind = "notify"
    <3>1. RefreshAuthToken(Head(main).user, Head(main).session)
      BY <1>3, <2>3 DEF MainQueue
    <3>2. PICK u, n : u = Head(main).user /\ n = Len(wire)
      OBVIOUS
    <3>3. CASE conn \in {"authenticating", "connected"}
      <4>1. u \in Uids /\ wire' = Append(wire, AuthRequest(u)) /\ authToken'.user = u
        BY <2>1, <2>3, <3>1, <3>2, <3>3 DEF RefreshAuthToken, Blocks, Done
      <4>2. n \in Nat /\ wire \in Seq(Requests)
        BY <3>2, Elements DEF TypeInv, ClientTyped
      <4>3. PICK q : q = AuthRequest(u)
        OBVIOUS
      <4>4. q \in Requests /\ q.kind = "auth" /\ q.user = u
        BY <4>1, <4>3, RequestTypes
      <4>5. Len(wire') = n + 1 /\ wire'[n + 1] = q
        BY <3>2, <4>1, <4>2, <4>3, <4>4
      <4>6. PICK b \in Nat \ {0} : b = n + 1
        BY <4>2
      <4>7. CredAt(b + 1, wire[b].user)'
        BY <4>4, <4>5, <4>6, CredOfLast
      <4> QED
        BY <4>1, <4>4, <4>5, <4>6, <4>7 DEF TokenSent
    <3>4. CASE conn \notin {"authenticating", "connected"}
      BY <3>1, <3>4 DEF RefreshAuthToken, TokenSent
    <3> QED
      BY <3>3, <3>4
  <2> QED
    BY <1>3, <2>1, <2>2, <2>3 DEF Blocks
<1>4. CASE Retry \/ ConnectionLost \/ Die \/ Launch
  <2>1. conn' \notin {"authenticating", "connected"}
    BY <1>4 DEF Retry, ConnectionLost, Disconnect, Die, Launch
  <2> QED
    BY <2>1 DEF TokenSent
<1>5. CASE TokenIsLookedUp \/ TokenIsRefreshed \/ ReadTimesOut \/ UNCHANGED vars
  <2>1. UNCHANGED <<authToken, cred, conn, wire>>
    BY <1>5 DEF TokenIsLookedUp, TokenIsRefreshed, ReadTimesOut, vars, clientVars
  <2> QED
    BY <2>1, TokenSentStays
<1>6. CASE OnReady
  BY <1>6, TokenSentOnReady
<1>7. CASE ServePut \/ ServeGet
  <2>1. wire # <<>> /\ wire' = Tail(wire) /\ authToken' = authToken /\ cred' = cred /\ Head(wire).kind # "auth"
    BY <1>7 DEF ServePut, ServeGet
  <2>2. /\ Head(wire) = wire[1] /\ Len(wire) \in Nat \ {0} /\ Len(wire') = Len(wire) - 1
        /\ \A i \in 1..Len(wire') : wire'[i] = wire[i + 1]
    BY <2>1, NextRequest
  <2>3. /\ Len(wire') \in Nat /\ Len(wire') >= Len(wire) - 1
        /\ \A k \in 1..(Len(wire) - 1) : wire'[k] = wire[k + 1]
        /\ \A k \in 1..Len(wire') : k >= Len(wire) => wire'[k].kind # "auth"
    BY <2>2
  <2>4. cred' = IF wire[1].kind = "auth" THEN wire[1].user ELSE cred
    BY <2>1, <2>2
  <2> QED
    BY <2>1, <2>3, <2>4, TokenSentServed
<1>8. CASE ServeAuth
  BY <1>8, TokenSentServeAuth
<1> QED
  BY <1>2, <1>3, <1>4, <1>5, <1>6, <1>7, <1>8 DEF Next, Client, Server

\* What the invariants say of the token.
LEMMA TokenInvIsTokenIsOfTheUser == TypeInv /\ TokenInv /\ TokenSent => TokenIsOfTheUser
<1> SUFFICES ASSUME TypeInv, TokenInv, TokenSent PROVE TokenIsOfTheUser
  OBVIOUS
<1>1. ASSUME conn \in Live, ~overtaken, Announced PROVE authToken.user = currentUser
  BY <1>1 DEF TokenInv, TokenIsNew, SessionsFit
<1>2. ASSUME conn = "connected", \A q \in Range(wire) : q.kind # "auth" PROVE cred = authToken.user
  <2>1. PICK n : n = Len(wire)
    OBVIOUS
  <2>2. n \in Nat /\ CredAt(n + 1, authToken.user)
    BY <1>2, <2>1, Elements DEF TokenSent
  <2>3. PICK m \in 0..n : LastSaid(m, authToken.user)
    BY <2>2 DEF CredAt
  <2>4. \A k \in 1..n : wire[k].kind # "auth"
    BY <1>2, <2>1 DEF Range, TypeInv, ClientTyped
  <2> QED
    BY <2>2, <2>3, <2>4 DEF LastSaid
<1> QED
  BY <1>1, <1>2 DEF TokenIsOfTheUser, Live

\* For any users, screens and failures: once the changes of the user have been
\* announced, a connection carries the current user's token and, when the
\* authentications on their way are served, the server takes it for that user,
\* unless the token of an attempt came after the one that should have replaced it.
THEOREM TokenIsTheUsers == Spec => []TokenIsOfTheUser
<1>1. Init => TypeInv /\ OneToken /\ TokenInv /\ TokenSent
  <2>1. ASSUME Init PROVE TypeInv /\ main = <<>> /\ session = 1 /\ conn \in {"idle", "disconnected"}
                          /\ authToken = [user |-> NoUser, session |-> 0] /\ fetch = None
    BY <2>1, InitTypes DEF Init
  <2>2. ASSUME Init PROVE OneToken /\ SessionsFit
    BY <2>1, <2>2 DEF OneToken, SessionsFit
  <2>3. ASSUME Init PROVE Announced
    BY <2>1, <2>3, AnnouncedIs
  <2>4. ASSUME Init PROVE NotesFit /\ TokenIsNew /\ TokenSent
    BY <2>1, <2>3, <2>4 DEF NotesFit, TokenIsNew, TokenSent, Live
  <2> QED
    BY <2>1, <2>2, <2>4 DEF TokenInv
<1>2. TypeInv /\ OneToken /\ TokenInv /\ TokenSent /\ [Next]_vars
        => TypeInv' /\ OneToken' /\ TokenInv' /\ TokenSent'
  BY TypeInvStep, OneTokenStep, TokenInvStep, TokenSentStep
<1> QED
  BY <1>1, <1>2, TokenInvIsTokenIsOfTheUser, PTL DEF Spec

-----------------------------------------------------------------------------
(* Whose writes are taken                                                  *)

\* A write that waits, or is on its way.
Known(p) ==
  \/ \E k \in 1..Len(puts) : puts[k] = p
  \/ \E m \in 1..Len(wire) : wire[m].kind = "put" /\ wire[m].put = p

\* A write is of a session that has been; one that is the user's own was made when
\* the client had been told of its session.
OwnFits(p) ==
  /\ p.session <= session
  /\ p.own /\ p.session = session => Announced /\ p.uid = currentUser

Owned == \A p \in Puts : Known(p) => OwnFits(p)

\* The server takes the user's own writes of this session for the user's.
OwnTaken ==
  conn = "connected" /\ ~overtaken =>
    \A m \in 1..Len(wire) :
      wire[m].kind = "put" /\ wire[m].put.own /\ wire[m].put.session = session => CredAt(m, currentUser)

\* The changes of the user, of the session and of the announcements.
SessionSteps ==
  \/ session' = session + 1
  \/ UNCHANGED <<currentUser, session>> /\ (Announced => Announced')
  \/ puts' = <<>> /\ wire' = <<>>

LEMMA SessionsStep ==
  ASSUME TypeInv, TypeInv', [Next]_vars PROVE SessionSteps
<1>0. /\ Announced' <=> \A i \in 1..Len(main') : main'[i].kind # "notify"
      /\ Announced <=> \A i \in 1..Len(main) : main[i].kind # "notify"
  BY AnnouncedIs, AnnouncedNext
<1>1. CASE UNCHANGED <<currentUser, session, main>>
  BY <1>0, <1>1 DEF SessionSteps
<1>2. CASE TokenIsLookedUp \/ TokenIsRefreshed
  <2>1. PICK b : b.kind # "notify" /\ (main' = main \/ main' = Append(main, b))
    BY <1>2 DEF TokenIsLookedUp, TokenIsRefreshed
  <2>2. Announced' <=> Announced
    BY <2>1, QuietAppend
  <2> QED
    BY <1>2, <2>2 DEF SessionSteps, TokenIsLookedUp, TokenIsRefreshed, authVars
<1>3. CASE MainQueue
  <2>1. main # <<>> /\ main' = Tail(main) /\ UNCHANGED <<currentUser, session>>
    BY <1>3 DEF MainQueue, authVars
  <2>2. \A i \in 1..Len(main') : i + 1 \in 1..Len(main) /\ main'[i] = main[i + 1]
    BY <2>1, NextBlock
  <2> QED
    BY <1>0, <2>1, <2>2 DEF SessionSteps
<1>4. CASE Die \/ Launch
  BY <1>4 DEF SessionSteps, Die, Launch, TypeInv, NothingLeft, WireFits
<1>5. CASE LogoutClicked
  BY <1>1, <1>5, LogoutQueues DEF SessionSteps
<1>6. CASE \E c \in calls : CallSucceeds(c)
  <2>1. CASE session' = session + 1
    BY <2>1 DEF SessionSteps
  <2>2. CASE UNCHANGED authVars /\ \E b : b.kind # "notify" /\ Queued(b) /\ Len(main') = Len(main) + 1
    <3>1. PICK b : b.kind # "notify" /\ Queued(b) /\ Len(main') = Len(main) + 1
      BY <2>2
    <3>2. PICK n : n = Len(main)
      OBVIOUS
    <3>3. /\ n \in Nat /\ Len(main') = n + 1 /\ main'[n + 1] = b
          /\ \A i \in 1..n : main'[i] = main[i]
      BY <3>1, <3>2, Elements DEF Queued
    <3>4. \A i \in 1..Len(main') : i \in 1..n \/ i = n + 1
      BY <3>3
    <3>5. Announced => Announced'
      BY <1>0, <3>1, <3>2, <3>3, <3>4
    <3> QED
      BY <2>2, <3>5 DEF SessionSteps, authVars
  <2> QED
    BY <1>6, <2>1, <2>2, Queues
<1>7. CASE User /\ ~LogoutClicked
  BY <1>1, <1>7 DEF User, ButtonClicked, Back, LoginButtonClick, RegisterButtonClick, DeleteUserClicked, Call,
     SaveButtonClicked, SaveOnCalendarDiary, authVars
<1>8. CASE Services /\ ~\E c \in calls : CallSucceeds(c)
  BY <1>1, <1>8 DEF Services, CallFails, AnalysisAnswered, AnalysisFails, Midnight, authVars
<1>9. CASE Retry \/ OnReady \/ ConnectionLost \/ ReadTimesOut \/ Server \/ UNCHANGED vars
  BY <1>1, <1>9 DEF Retry, OnReady, ConnectionLost, ReadTimesOut, Server, ServeAuth, ServePut, ServeGet,
     authVars, vars
<1> QED
  BY <1>2, <1>3, <1>4, <1>5, <1>6, <1>7, <1>8, <1>9 DEF Next, Client

\* Writes are known until they are served, and only screens and completions make
\* new ones.
LEMMA KnownStays ==
  ASSUME TypeInv, NEW p \in Puts, Known(p)',
         \A k \in 1..Len(puts') : \E j \in 1..Len(puts) : puts'[k] = puts[j],
         \A m \in 1..Len(wire') : wire'[m].kind = "put" =>
            \/ \E j \in 1..Len(puts) : wire'[m].put = puts[j]
            \/ \E j \in 1..Len(wire) : wire'[m] = wire[j]
  PROVE  Known(p)
<1>1. CASE \E k \in 1..Len(puts') : puts'[k] = p
  BY <1>1 DEF Known
<1>2. CASE \E m \in 1..Len(wire') : wire'[m].kind = "put" /\ wire'[m].put = p
  BY <1>2, SMTT(40) DEF Known
<1> QED
  BY <1>1, <1>2 DEF Known

\* Requests restored behind those that wait.
LEMMA ResentComes ==
  ASSUME TypeInv, NEW first \in Seq(Requests), Resent(first)
  PROVE  /\ Len(wire') \in Nat
         /\ \A m \in 1..Len(wire') :
              \/ m \in 1..Len(first) /\ wire'[m] = first[m]
              \/ m > Len(first) /\ \E j \in 1..Len(puts) : /\ m = Len(first) + j
                                                           /\ wire'[m].kind = "put" /\ wire'[m].put = puts[j]
              \/ m > Len(first) /\ \E j \in 1..Len(reads) : /\ m = Len(first) + Len(puts) + j
                                                            /\ wire'[m].kind = "get" /\ wire'[m].id = reads[j].id
<1>1. PICK n, a, b : n = Len(first) /\ a = Len(puts) /\ b = Len(reads)
  OBVIOUS
<1>2. /\ n \in Nat /\ a \in Nat /\ b \in Nat /\ Len(wire') = n + a + b
      /\ \A m \in 1..n : wire'[m] = first[m]
      /\ \A k \in 1..a : wire'[n + k] = PutRequest(puts[k])
      /\ \A k \in 1..b : wire'[n + a + k] = GetRequest(reads[k])
  BY <1>1, Elements DEF Resent
<1>3. ASSUME NEW m \in 1..Len(wire')
      PROVE  \/ m \in 1..n /\ wire'[m] = first[m]
             \/ m > n /\ \E j \in 1..a : m = n + j /\ wire'[m].kind = "put" /\ wire'[m].put = puts[j]
             \/ m > n /\ \E j \in 1..b : m = n + a + j /\ wire'[m].kind = "get" /\ wire'[m].id = reads[j].id
  <2>1. CASE m <= n
    BY <1>2, <2>1
  <2>2. CASE m > n /\ m <= n + a
    <3>1. PICK j \in 1..a : m = n + j
      <4>1. m - n \in 1..a /\ m = n + (m - n)
        BY <1>2, <2>2
      <4> QED
        BY <4>1
    <3>2. wire'[m] = PutRequest(puts[j]) /\ puts[j] \in Puts
      BY <1>1, <1>2, <3>1, Elements
    <3> QED
      BY <2>2, <3>1, <3>2, RequestTypes
  <2>3. CASE m > n + a
    <3>1. PICK j \in 1..b : m = n + a + j
      <4>1. m - (n + a) \in 1..b /\ m = n + a + (m - (n + a))
        BY <1>2, <2>3
      <4> QED
        BY <4>1
    <3>2. wire'[m] = GetRequest(reads[j]) /\ reads[j] \in ReadSet
      BY <1>1, <1>2, <3>1, Elements
    <3>3. m > n
      BY <1>2, <2>3
    <3> QED
      BY <3>1, <3>2, <3>3, RequestTypes
  <2> QED
    BY <1>2, <2>1, <2>2, <2>3, SMTT(40)
<1>4. Len(wire') \in Nat
  BY <1>2
<1> QED
  BY <1>1, <1>3, <1>4, Zenon

LEMMA WritesCome ==
  ASSUME TypeInv, TypeInv', [Next]_vars, NEW p \in Puts, Known(p)'
  PROVE  Known(p) \/ Made(p)
<1>1. CASE UNCHANGED <<puts, wire>>
  BY <1>1, Elements, KnownStays
<1>2. ASSUME Asks PROVE Known(p) \/ Made(p)
  <2>1. CASE UNCHANGED <<puts, wire>>
    BY <1>1, <2>1
  <2>2. CASE \E q : Made(q)
    <3>1. PICK q : Made(q)
      BY <2>2
    <3>2. /\ q \in Puts /\ PutRequest(q).put = q
          /\ puts' = Append(puts, q)
          /\ wire' = wire \/ wire' = Append(wire, PutRequest(q))
      BY <3>1, RequestTypes DEF Made, Written
    <3>3. puts \in Seq(Puts) /\ wire \in Seq(Requests)
      BY DEF TypeInv, ClientTyped
    <3>4. \A k \in 1..Len(puts') : puts'[k] = q \/ \E j \in 1..Len(puts) : puts'[k] = puts[j]
      BY <3>2, <3>3
    <3>5. PICK r : r = PutRequest(q)
      OBVIOUS
    <3>6. \A m \in 1..Len(wire') : wire'[m] = r \/ \E j \in 1..Len(wire) : wire'[m] = wire[j]
      BY <3>2, <3>3, <3>5
    <3>7. CASE p = q
      BY <3>1, <3>7
    <3>8. CASE p # q
      <4>1. CASE \E k \in 1..Len(puts') : puts'[k] = p
        BY <3>4, <3>8, <4>1 DEF Known
      <4>2. CASE \E m \in 1..Len(wire') : wire'[m].kind = "put" /\ wire'[m].put = p
        BY <3>2, <3>5, <3>6, <3>8, <4>2 DEF Known
      <4> QED
        BY <4>1, <4>2 DEF Known
    <3> QED
      BY <3>7, <3>8
  <2>3. CASE puts' = puts /\ \E s : Asked(s)
    <3>1. PICK s : Asked(s)
      BY <2>3
    <3>2. PICK r : r = [id |-> s.id, uid |-> s.uid, for |-> s.kind]
      OBVIOUS
    <3>3. r \in ReadSet /\ (wire' = wire \/ wire' = Append(wire, GetRequest(r)))
      BY <3>1, <3>2 DEF Asked, Comes, ReadComes, ReadSet, Screens
    <3>4. PICK q : q = GetRequest(r)
      OBVIOUS
    <3>5. q.kind = "get" /\ wire \in Seq(Requests) /\ q \in Requests
      BY <3>3, <3>4, RequestTypes DEF TypeInv, ClientTyped
    <3>6. \A m \in 1..Len(wire') : wire'[m] = q \/ \E j \in 1..Len(wire) : wire'[m] = wire[j]
      BY <3>3, <3>4, <3>5
    <3>7. \A m \in 1..Len(wire') : wire'[m].kind = "put" => \E j \in 1..Len(wire) : wire'[m] = wire[j]
      BY <3>5, <3>6
    <3> QED
      BY <2>3, <3>7, KnownStays
  <2> QED
    BY <1>2, <2>1, <2>2, <2>3 DEF Asks
<1>3. CASE User \/ Services \/ (MainQueue /\ Head(main).kind \in Done)
  BY <1>2, <1>3, AppAsks
<1>4. CASE MainQueue /\ Head(main).kind \notin Done
  <2>1. main # <<>> /\ Head(main) \in Blocks
    BY <1>4, NextBlock DEF MainQueue
  <2>2. CASE Head(main).kind = "token"
    BY <1>1, <1>4, <2>2 DEF MainQueue, TokenArrives
  <2>3. CASE Head(main).kind = "notify"
    <3>1. RefreshAuthToken(Head(main).user, Head(main).session)
      BY <1>4, <2>3 DEF MainQueue
    <3>2. PICK u, q : u = Head(main).user /\ q = AuthRequest(u)
      OBVIOUS
    <3>3. u \in Uids /\ q.kind = "auth" /\ q \in Requests
      BY <2>1, <2>3, <3>2, RequestTypes DEF Blocks, Done
    <3>4. puts' = puts /\ (wire' = wire \/ wire' = Append(wire, q)) /\ wire \in Seq(Requests)
      BY <3>1, <3>2 DEF RefreshAuthToken, TypeInv, ClientTyped
    <3>5. \A m \in 1..Len(wire') : wire'[m] = q \/ \E j \in 1..Len(wire) : wire'[m] = wire[j]
      BY <3>3, <3>4
    <3>6. \A m \in 1..Len(wire') : wire'[m].kind = "put" => \E j \in 1..Len(wire) : wire'[m] = wire[j]
      BY <3>3, <3>5
    <3> QED
      BY <3>4, <3>6, KnownStays
  <2> QED
    BY <1>4, <2>1, <2>2, <2>3 DEF Blocks
<1>5. CASE ConnectionLost \/ Die
  <2>1. wire' = <<>> /\ (puts' = puts \/ puts' = <<>>)
    BY <1>5 DEF ConnectionLost, Disconnect, Die
  <2> QED
    BY <2>1, KnownStays
<1>6. CASE Retry \/ TokenIsLookedUp \/ TokenIsRefreshed \/ ReadTimesOut \/ Launch \/ UNCHANGED vars
  BY <1>1, <1>6 DEF Retry, TokenIsLookedUp, TokenIsRefreshed, ReadTimesOut, Launch, vars, clientVars
<1>7. CASE OnReady
  <2>1. puts' = puts
    BY <1>7 DEF OnReady
  <2>2. CASE RestoreState(<<>>)
    <3>1. PICK first : first = <<>>
      OBVIOUS
    <3>2. first \in Seq(Requests) /\ Len(first) = 0 /\ RestoreState(first)
      BY <2>2, <3>1
    <3>3. Resent(first)
      BY <3>2, Restores
    <3>4. ASSUME NEW m \in 1..Len(wire'), wire'[m].kind = "put"
          PROVE  \E j \in 1..Len(puts) : wire'[m].put = puts[j]
      <4>1. ~(m \in 1..Len(first))
        BY <3>2
      <4>2. \/ \E j \in 1..Len(puts) : wire'[m].put = puts[j]
            \/ wire'[m].kind = "get"
        BY <3>2, <3>3, <4>1, ResentComes, ZenonT(60)
      <4> QED
        BY <3>4, <4>2
    <3> QED
      BY <2>1, <3>4, KnownStays
  <2>3. CASE wire' = <<AuthRequest(authToken.user)>>
    <3>1. PICK q : q = AuthRequest(authToken.user)
      OBVIOUS
    <3>2. authToken.user \in Uids
      BY DEF TypeInv, ClientTyped, Tokens
    <3>3. q.kind = "auth" /\ wire' = <<q>>
      BY <2>3, <3>1, <3>2, RequestTypes
    <3>4. \A m \in 1..Len(wire') : wire'[m].kind # "put"
      BY <3>3
    <3> QED
      BY <2>1, <3>4, KnownStays
  <2> QED
    BY <1>7, <2>2, <2>3 DEF OnReady
<1>8. CASE ServePut \/ ServeGet
  <2>1. wire # <<>> /\ wire' = Tail(wire)
    BY <1>8 DEF ServePut, ServeGet
  <2>2. \A i \in 1..Len(wire') : i + 1 \in 1..Len(wire) /\ wire'[i] = wire[i + 1]
    BY <2>1, NextRequest
  <2>3. \A m \in 1..Len(wire') : \E j \in 1..Len(wire) : wire'[m] = wire[j]
    BY <2>2
  <2>4. \A k \in 1..Len(puts') : \E j \in 1..Len(puts) : puts'[k] = puts[j]
    <3>1. CASE puts' = puts
      BY <3>1
    <3>2. CASE \E i \in DOMAIN puts : puts' = RemoveAt(puts, i)
      <4>1. puts \in Seq(Puts)
        BY DEF TypeInv, ClientTyped
      <4>2. PICK i \in 1..Len(puts) : puts' = RemoveAt(puts, i)
        BY <3>2, <4>1
      <4>3. /\ Len(puts') = Len(puts) - 1 /\ Len(puts) \in Nat
            /\ \A k \in 1..Len(puts') : puts'[k] = IF k < i THEN puts[k] ELSE puts[k + 1]
        BY <4>1, <4>2, Removed
      <4>4. \A k \in 1..Len(puts') : k \in 1..Len(puts) /\ k + 1 \in 1..Len(puts)
        BY <4>3
      <4> QED
        BY <4>3, <4>4
    <3> QED
      BY <1>8, <3>1, <3>2 DEF ServePut, ServeGet
  <2> QED
    BY <2>3, <2>4, KnownStays
<1>9. CASE ServeAuth
  <2>1. wire # <<>> /\ puts' = puts
    BY <1>9 DEF ServeAuth
  <2>2. PICK t : t = Tail(wire)
    OBVIOUS
  <2>3. t \in Seq(Requests) /\ \A i \in 1..Len(t) : i + 1 \in 1..Len(wire) /\ t[i] = wire[i + 1]
    BY <2>1, <2>2, NextRequest
  <2>4. \A i \in 1..Len(t) : \E j \in 1..Len(wire) : t[i] = wire[j]
    BY <2>3
  <2>5. CASE wire' = t
    BY <2>1, <2>4, <2>5, KnownStays
  <2>6. CASE RestoreState(t)
    <3>1. Resent(t)
      BY <2>3, <2>6, Restores
    <3>2. \A m \in 1..Len(wire') :
            \/ \E i \in 1..Len(t) : wire'[m] = t[i]
            \/ \E j \in 1..Len(puts) : wire'[m].put = puts[j]
            \/ wire'[m].kind = "get"
      BY <2>3, <3>1, ResentComes
    <3>3. \A m \in 1..Len(wire') : wire'[m].kind = "put" =>
            \/ \E j \in 1..Len(puts) : wire'[m].put = puts[j]
            \/ \E j \in 1..Len(wire) : wire'[m] = wire[j]
      BY <2>4, <3>2
    <3> QED
      BY <2>1, <3>3, KnownStays
  <2> QED
    BY <1>9, <2>2, <2>5, <2>6 DEF ServeAuth
<1> QED
  BY <1>3, <1>4, <1>5, <1>6, <1>7, <1>8, <1>9 DEF Next, Client, Server

LEMMA OwnedStep == ASSUME TypeInv, TypeInv', Owned, [Next]_vars PROVE Owned'
<1> SUFFICES ASSUME NEW p \in Puts, Known(p)' PROVE OwnFits(p)'
  BY DEF Owned
<1>1. p.session \in Nat /\ session \in Nat
  BY Counters DEF Puts
<1>2. SessionSteps
  BY SessionsStep
<1>3. CASE puts' = <<>> /\ wire' = <<>>
  BY <1>3 DEF Known
<1>4. Known(p) \/ Made(p)
  BY WritesCome
<1>5. CASE Made(p)
  <2>1. UNCHANGED <<currentUser, session>> /\ p.session = session /\ (p.own => p.uid = currentUser /\ Announced)
    BY <1>5 DEF Made
  <2>2. CASE Announced => Announced'
    BY <1>1, <2>1, <2>2 DEF OwnFits
  <2>3. CASE session' = session + 1
    BY <1>1, <2>1, <2>3
  <2> QED
    BY <1>2, <1>3, <2>2, <2>3 DEF SessionSteps
<1>6. CASE Known(p)
  <2>1. OwnFits(p)
    BY <1>6 DEF Owned
  <2>2. CASE session' = session + 1
    BY <1>1, <2>1, <2>2 DEF OwnFits
  <2>3. CASE UNCHANGED <<currentUser, session>> /\ (Announced => Announced')
    BY <2>1, <2>3 DEF OwnFits
  <2> QED
    BY <1>2, <1>3, <2>2, <2>3 DEF SessionSteps
<1> QED
  BY <1>4, <1>5, <1>6

\* The server's belief at a request is settled by those before it.
LEMMA CredBefore ==
  ASSUME NEW m \in Nat \ {0}, NEW u, CredAt(m, u), cred' = cred, \A k \in 1..(m - 1) : wire'[k] = wire[k]
  PROVE  CredAt(m, u)'
<1>1. PICK n \in Nat : n = m - 1
  OBVIOUS
<1>2. CredAt(n + 1, u) /\ n + 1 = m
  BY <1>1
<1>3. \A k \in 1..n : wire'[k] = wire[k]
  BY <1>1
<1>4. PICK b \in Nat : b = n
  OBVIOUS
<1>5. n <= b /\ \A k \in (n + 1)..b : wire'[k].kind # "auth"
  BY <1>4
<1>6. CredAt(b + 1, u)'
  BY <1>2, <1>3, <1>5, CredStays
<1> QED
  BY <1>2, <1>4, <1>6

\* ... and by those up to it, if those in between are no authentications.
LEMMA CredGrows ==
  ASSUME NEW n \in Nat \ {0}, NEW b \in Nat, n <= b, NEW u, CredAt(n, u)',
         \A k \in n..(b - 1) : wire'[k].kind # "auth"
  PROVE  CredAt(b, u)'
<1>1. PICK m \in 0..(n - 1) : LastSaid(m, u)' /\ \A k \in (m + 1)..(n - 1) : wire'[k].kind # "auth"
  BY DEF CredAt
<1>2. m \in 0..(b - 1)
  OBVIOUS
<1>3. ASSUME NEW k \in (m + 1)..(b - 1) PROVE wire'[k].kind # "auth"
  <2>1. k \in (m + 1)..(n - 1) \/ k \in n..(b - 1)
    OBVIOUS
  <2> QED
    BY <1>1, <2>1
<1> QED
  BY <1>1, <1>2, <1>3 DEF CredAt

\* The token of a connection is the user's when a write is the user's own.
LEMMA OwnToken ==
  ASSUME TypeInv, TokenInv, Owned, conn \in Live, ~overtaken,
         NEW p \in Puts, Known(p), p.own, p.session = session
  PROVE  authToken.user = currentUser /\ p.uid = currentUser /\ Announced
BY DEF Owned, OwnFits, TokenInv, TokenIsNew, SessionsFit

\* When nothing is served and nothing else about the token changes.
LEMMA OwnTakenStays ==
  ASSUME TypeInv, OwnTaken, cred' = cred, overtaken' = overtaken,
         UNCHANGED <<currentUser, session>>, conn' = "connected" => conn = "connected",
         Len(wire') \in Nat, Len(wire) <= Len(wire'),
         \A m \in 1..Len(wire) : wire'[m] = wire[m],
         \A m \in 1..Len(wire') : m > Len(wire) /\ wire'[m].kind = "put" =>
            (wire'[m].put.own /\ conn = "connected" /\ ~overtaken => CredAt(m, currentUser)')
  PROVE  OwnTaken'
<1> SUFFICES ASSUME conn' = "connected", ~overtaken', NEW m \in 1..Len(wire'), wire'[m].kind = "put",
                    wire'[m].put.own, wire'[m].put.session = session'
             PROVE  CredAt(m, currentUser)'
  BY DEF OwnTaken
<1>1. Len(wire) \in Nat
  BY Elements
<1>2. CASE m \in 1..Len(wire)
  <2>1. CredAt(m, currentUser)
    BY <1>2 DEF OwnTaken
  <2>2. m \in Nat \ {0} /\ \A k \in 1..(m - 1) : wire'[k] = wire[k]
    BY <1>1, <1>2
  <2> QED
    BY <2>1, <2>2, CredBefore
<1>3. CASE m > Len(wire)
  BY <1>3
<1> QED
  BY <1>1, <1>2, <1>3

\* When the first request is served.
LEMMA OwnTakenServed ==
  ASSUME TypeInv, TypeInv', OwnTaken, wire # <<>>, wire' = Tail(wire), conn' = conn, overtaken' = overtaken,
         cred' = IF wire[1].kind = "auth" THEN wire[1].user ELSE cred,
         UNCHANGED <<currentUser, session>>
  PROVE  OwnTaken'
<1> SUFFICES ASSUME conn = "connected", ~overtaken, NEW m \in 1..Len(wire'), wire'[m].kind = "put",
                    wire'[m].put.own, wire'[m].put.session = session
             PROVE  CredAt(m, currentUser)'
  BY DEF OwnTaken
<1>1. /\ Len(wire) \in Nat \ {0} /\ Len(wire') = Len(wire) - 1
      /\ \A i \in 1..Len(wire') : i + 1 \in 1..Len(wire) /\ wire'[i] = wire[i + 1]
  BY NextRequest
<1>2. m + 1 \in 1..Len(wire) /\ CredAt(m + 1, currentUser)
  BY <1>1 DEF OwnTaken
<1>3. m \in Nat /\ m > 0 /\ \A k \in 1..(m - 1) : wire'[k] = wire[k + 1]
  BY <1>1
<1> QED
  BY <1>2, <1>3, CredShift

LEMMA OwnTakenOnReady == ASSUME TypeInv, TypeInv', TokenInv, Owned, OnReady PROVE OwnTaken'
<1> SUFFICES ASSUME conn' = "connected", ~overtaken', NEW m \in 1..Len(wire'), wire'[m].kind = "put",
                    wire'[m].put.own, wire'[m].put.session = session'
             PROVE  FALSE
  BY DEF OwnTaken
<1>1. /\ authToken.user = NoUser /\ RestoreState(<<>>)
      /\ UNCHANGED <<currentUser, session, overtaken, puts>> /\ conn = "connecting"
  BY DEF OnReady, authVars
<1>2. PICK first : first = <<>>
  OBVIOUS
<1>3. first \in Seq(Requests) /\ Len(first) = 0 /\ RestoreState(first)
  BY <1>1, <1>2
<1>4. Resent(first)
  BY <1>3, Restores
<1>5. PICK j \in 1..Len(puts) : wire'[m].put = puts[j]
  <2>1. ~(m \in 1..Len(first))
    BY <1>3
  <2>2. \/ \E j \in 1..Len(puts) : wire'[m].put = puts[j]
        \/ wire'[m].kind = "get"
    BY <1>3, <1>4, <2>1, ResentComes
  <2> QED
    BY <2>2
<1>6. puts[j] \in Puts /\ Known(puts[j])
  BY Elements DEF Known
<1>7. PICK p \in Puts : p = puts[j] /\ Known(p)
  BY <1>6
<1>8. authToken.user = currentUser /\ p.uid = currentUser
  BY <1>1, <1>5, <1>7, OwnToken DEF Live
<1>9. p.uid \in Users
  BY DEF Puts
<1> QED
  BY <1>1, <1>8, <1>9, SessionAssumption

LEMMA OwnTakenServeAuth ==
  ASSUME TypeInv, TypeInv', TokenInv, TokenSent, Owned, OwnTaken, ServeAuth PROVE OwnTaken'
<1>1. /\ wire # <<>> /\ Head(wire).kind = "auth" /\ cred' = Head(wire).user
      /\ UNCHANGED <<currentUser, session, overtaken, puts, authToken>>
  BY DEF ServeAuth, authVars
<1>2. PICK t, n : t = Tail(wire) /\ n = Len(wire)
  OBVIOUS
<1>3. /\ t \in Seq(Requests) /\ Head(wire) = wire[1] /\ n \in Nat \ {0} /\ Len(t) = n - 1
      /\ \A i \in 1..(n - 1) : i + 1 \in 1..n /\ t[i] = wire[i + 1]
  BY <1>1, <1>2, NextRequest
<1>4. cred' = IF wire[1].kind = "auth" THEN wire[1].user ELSE cred
  BY <1>1, <1>3
<1>5. CASE conn # "authenticating"
  <2>1. wire' = Tail(wire) /\ conn' = conn
    BY <1>5 DEF ServeAuth
  <2> QED
    BY <1>1, <1>4, <2>1, OwnTakenServed
<1>6. CASE conn = "authenticating"
  <2> SUFFICES ASSUME ~overtaken', NEW m \in 1..Len(wire'), wire'[m].kind = "put",
                      wire'[m].put.own, wire'[m].put.session = session'
               PROVE  CredAt(m, currentUser)'
    BY DEF OwnTaken
  <2>1. RestoreState(t)
    BY <1>2, <1>6 DEF ServeAuth
  <2>2. Resent(t)
    BY <1>3, <2>1, Restores
  <2>3. ~(m \in 1..(n - 1))
    <3>1. ASSUME m \in 1..(n - 1) PROVE wire'[m] = t[m] /\ t[m] = wire[m + 1] /\ m + 1 \in 1..n
      BY <1>3, <2>2, <3>1 DEF Resent
    <3>2. \A k \in 1..n : wire[k].kind = "auth"
      BY <1>2, <1>6 DEF TypeInv, WireFits
    <3> QED
      BY <3>1, <3>2
  <2>4. PICK j \in 1..Len(puts) : m = Len(t) + j /\ wire'[m].put = puts[j]
    <3>1. ~(m \in 1..Len(t))
      BY <1>3, <2>3
    <3>2. \/ \E j \in 1..Len(puts) : m = Len(t) + j /\ wire'[m].put = puts[j]
          \/ wire'[m].kind = "get"
      BY <1>3, <2>2, <3>1, ResentComes
    <3> QED
      BY <3>2
  <2>5. Len(puts) \in Nat /\ puts[j] \in Puts /\ Known(puts[j])
    BY Elements DEF Known
  <2>6. PICK p \in Puts : p = puts[j] /\ Known(p)
    BY <2>5
  <2>7. authToken.user = currentUser
    BY <1>1, <1>6, <2>4, <2>6, OwnToken DEF Live
  <2>8. CredAt(n + 1, currentUser)
    BY <1>2, <1>6, <2>7 DEF TokenSent
  <2>9. \A k \in 1..(n - 1) : wire'[k] = wire[k + 1]
    BY <1>3, <2>2 DEF Resent
  <2>10. PICK u : u = currentUser
    OBVIOUS
  <2>11. CredAt(n, u)'
    BY <1>3, <1>4, <2>8, <2>9, <2>10, CredShift
  <2>12. m \in Nat /\ n <= m
    BY <1>3, <2>4, <2>5
  <2>13. ASSUME NEW k \in n..(m - 1) PROVE wire'[k].kind # "auth"
    <3>1. k \in 1..Len(wire') /\ k < Len(t) + Len(puts) /\ ~(k \in 1..Len(t))
      BY <1>3, <2>2, <2>4, <2>5 DEF Resent
    <3>2. wire'[k].kind \in {"put", "get"}
      BY <1>3, <2>2, <3>1, ResentComes
    <3> QED
      BY <3>2
  <2>14. CredAt(m, u)'
    BY <1>3, <2>11, <2>12, <2>13, CredGrows
  <2> QED
    BY <1>1, <2>10, <2>14
<1> QED
  BY <1>5, <1>6

\* No write is of a session the client has not been told of.
LEMMA NoneOwnUnannounced ==
  ASSUME TypeInv, TypeInv', Owned, ~Announced \/ session' = session + 1,
         session' = session \/ session' = session + 1, \A p \in Puts : Known(p)' => Known(p)
  PROVE  OwnTaken'
<1> SUFFICES ASSUME NEW m \in 1..Len(wire'), wire'[m].kind = "put",
                    wire'[m].put.own, wire'[m].put.session = session'
             PROVE  FALSE
  BY DEF OwnTaken
<1>1. wire' \in Seq(Requests)
  BY DEF TypeInv, ClientTyped
<1>2. wire'[m] \in Requests
  BY <1>1
<1>3. wire'[m].put \in Puts
  BY <1>2 DEF Requests
<1>4. Known(wire[m].put)'
  BY DEF Known
<1>5. PICK p \in Puts : p = wire'[m].put /\ Known(p)
  BY <1>3, <1>4
<1>6. p.session \in Nat /\ session \in Nat /\ OwnFits(p)
  BY <1>5, Counters DEF Puts, Owned
<1> QED
  BY <1>5, <1>6 DEF OwnFits

LEMMA OwnTakenAsks ==
  ASSUME TypeInv, TypeInv', TokenInv, TokenSent, Owned, OwnTaken, Asks, UNCHANGED <<currentUser, session>>
  PROVE  OwnTaken'
<1>1. PICK n : n = Len(wire)
  OBVIOUS
<1>2. n \in Nat /\ wire \in Seq(Requests)
  BY <1>1, Elements DEF TypeInv, ClientTyped
<1>3. cred' = cred /\ overtaken' = overtaken /\ (conn' = "connected" => conn = "connected")
  BY DEF Asks, Opened
<1>4. CASE wire' = wire
  BY <1>2, <1>3, <1>4, <1>1, OwnTakenStays
<1>5. ASSUME NEW q \in Requests, wire' = Append(wire, q),
             q.kind = "put" /\ q.put.own /\ conn = "connected" /\ ~overtaken => CredAt(n + 1, currentUser)'
      PROVE  OwnTaken'
  <2>1. Len(wire') = n + 1 /\ wire'[n + 1] = q /\ \A m \in 1..n : wire'[m] = wire[m]
    BY <1>1, <1>2, <1>5
  <2>2. \A m \in 1..Len(wire') : m > n => m = n + 1
    BY <1>2, <2>1
  <2>3. \A m \in 1..Len(wire') : m > Len(wire) /\ wire'[m].kind = "put" =>
           (wire'[m].put.own /\ conn = "connected" /\ ~overtaken => CredAt(m, currentUser)')
    BY <1>1, <1>5, <2>1, <2>2
  <2>4. Len(wire') \in Nat /\ Len(wire) <= Len(wire') /\ \A m \in 1..Len(wire) : wire'[m] = wire[m]
    BY <1>1, <1>2, <2>1
  <2> QED
    BY <1>3, <2>3, <2>4, OwnTakenStays
<1>6. CASE \E p : Made(p)
  <2>1. PICK p : Made(p)
    BY <1>6
  <2>2. PICK q : q = PutRequest(p)
    OBVIOUS
  <2>3. /\ p \in Puts /\ q \in Requests /\ q.kind = "put" /\ q.put = p
        /\ p.own => Announced
        /\ wire' = wire \/ (conn = "connected" /\ wire' = Append(wire, q))
    BY <2>1, <2>2, RequestTypes DEF Made, Written
  <2>4. ASSUME p.own, conn = "connected", ~overtaken, wire' = Append(wire, q) PROVE CredAt(n + 1, currentUser)'
    <3>1. authToken.user = currentUser
      BY <2>3, <2>4 DEF TokenInv, TokenIsNew, SessionsFit, Live
    <3>2. CredAt(n + 1, currentUser)
      BY <1>1, <2>4, <3>1 DEF TokenSent
    <3>3. PICK m \in Nat \ {0} : m = n + 1
      BY <1>2
    <3>4. \A k \in 1..(m - 1) : wire'[k] = wire[k]
      BY <1>1, <1>2, <2>4, <3>3
    <3>5. CredAt(m, currentUser)'
      BY <1>3, <3>2, <3>3, <3>4, CredBefore
    <3> QED
      BY <3>3, <3>5
  <2> QED
    BY <1>4, <1>5, <2>3, <2>4
<1>7. CASE \E s : Asked(s)
  <2>1. PICK s : Asked(s)
    BY <1>7
  <2>2. PICK r : r = [id |-> s.id, uid |-> s.uid, for |-> s.kind]
    OBVIOUS
  <2>3. r \in ReadSet /\ (wire' = wire \/ wire' = Append(wire, GetRequest(r)))
    BY <2>1, <2>2 DEF Asked, Comes, ReadComes, ReadSet, Screens
  <2>4. GetRequest(r) \in Requests /\ GetRequest(r).kind # "put"
    BY <2>3, RequestTypes
  <2> QED
    BY <1>4, <1>5, <2>3, <2>4
<1> QED
  BY <1>4, <1>6, <1>7 DEF Asks

LEMMA OwnTakenStep ==
  ASSUME TypeInv, TypeInv', TokenInv, TokenSent, Owned, OwnTaken, [Next]_vars PROVE OwnTaken'
<1>1. CASE Asks
  <2>1. CASE UNCHANGED <<currentUser, session>>
    BY <1>1, <2>1, OwnTakenAsks
  <2>2. CASE session' = session + 1
    <3>1. \A p \in Puts : Known(p)' => Known(p)
      <4> SUFFICES ASSUME NEW p \in Puts, Known(p)' PROVE Known(p)
        OBVIOUS
      <4>1. ~Made(p)
        <5>1. session \in Nat
          BY Counters
        <5> QED
          BY <2>2, <5>1 DEF Made
      <4> QED
        BY <4>1, WritesCome
    <3> QED
      BY <2>2, <3>1, NoneOwnUnannounced
  <2>3. CASE puts' = <<>> /\ wire' = <<>>
    BY <2>3 DEF OwnTaken
  <2> QED
    BY <2>1, <2>2, <2>3, SessionsStep DEF SessionSteps
<1>2. CASE User \/ Services \/ (MainQueue /\ Head(main).kind \in Done)
  BY <1>1, <1>2, AppAsks
<1>3. CASE MainQueue /\ Head(main).kind \notin Done
  <2>1. main # <<>> /\ Head(main) \in Blocks /\ Head(main) = main[1] /\ 1 \in 1..Len(main)
        /\ UNCHANGED <<currentUser, session>>
    BY <1>3, NextBlock DEF MainQueue, authVars
  <2>2. CASE Head(main).kind = "token"
    BY <1>3, <2>2 DEF MainQueue, TokenArrives, OwnTaken
  <2>3. CASE Head(main).kind = "notify"
    <3>1. ~Announced
      BY <2>1, <2>3, AnnouncedIs
    <3>2. puts' = puts
      BY <1>3, <2>3 DEF MainQueue, RefreshAuthToken
    <3>3. \A p \in Puts : Known(p)' => Known(p)
      <4> SUFFICES ASSUME NEW p \in Puts, Known(p)' PROVE Known(p)
        OBVIOUS
      <4>1. ASSUME Made(p) PROVE FALSE
        <5>1. puts' = Append(puts, p) /\ puts \in Seq(Puts)
          BY <4>1 DEF Made, Written, TypeInv, ClientTyped
        <5>2. Len(puts') = Len(puts) + 1 /\ Len(puts) \in Nat
          BY <5>1
        <5> QED
          BY <3>2, <5>2
      <4> QED
        BY <4>1, WritesCome
    <3> QED
      BY <2>1, <3>1, <3>3, NoneOwnUnannounced
  <2> QED
    BY <1>3, <2>1, <2>2, <2>3 DEF Blocks
<1>4. CASE Retry \/ ConnectionLost \/ Die \/ Launch
  <2>1. conn' # "connected"
    BY <1>4 DEF Retry, ConnectionLost, Disconnect, Die, Launch
  <2> QED
    BY <2>1 DEF OwnTaken
<1>5. CASE TokenIsLookedUp \/ TokenIsRefreshed \/ ReadTimesOut \/ UNCHANGED vars
  <2>1. UNCHANGED <<currentUser, session, cred, overtaken, conn, wire>>
    BY <1>5 DEF TokenIsLookedUp, TokenIsRefreshed, ReadTimesOut, vars, clientVars, authVars
  <2> QED
    BY <2>1, Elements, OwnTakenStays
<1>6. CASE ServePut \/ ServeGet
  <2>1. wire # <<>> /\ wire' = Tail(wire) /\ UNCHANGED <<conn, overtaken, cred, currentUser, session>>
        /\ Head(wire).kind # "auth"
    BY <1>6 DEF ServePut, ServeGet, authVars
  <2>2. Head(wire) = wire[1]
    BY <2>1, NextRequest
  <2> QED
    BY <2>1, <2>2, OwnTakenServed
<1> QED
  BY <1>2, <1>3, <1>4, <1>5, <1>6, OwnTakenOnReady, OwnTakenServeAuth DEF Next, Client, Server

-----------------------------------------------------------------------------
(* What holds for users who wait for their calls and do not go back from     *)
(* the login screen                                                         *)

\* No login screen has come up since the screen i: those from i on are of one login.
Segment(i) == \A j \in i..Len(stack) : stack[j].kind # "login"

\* Nobody has logged in since the last login screen.
Opening == \A i \in 1..Len(stack) : Segment(i) => stack[i].kind = "register"

\* Screens since the last login screen are of the current user, and the pages of
\* the account of the current session.
OfUser ==
  \A i \in 1..Len(stack) :
    Segment(i) /\ stack[i].kind # "register" => stack[i].uid = currentUser /\ currentUser \in Users
PagesFit == \A i \in 1..Len(stack) : Segment(i) /\ stack[i].kind = "mypage" => stack[i].session = session

\* A writing screen is a user's and has only results above it; a registration is
\* above a login screen.
PlusesFit ==
  \A i \in 1..Len(stack) : stack[i].kind = "plus" =>
    stack[i].uid \in Users /\ \A j \in 1..Len(stack) : i < j => stack[j].kind = "image"
RegistersFit ==
  \A i \in 1..Len(stack) : stack[i].kind = "register" => i - 1 \in 1..Len(stack) /\ stack[i - 1].kind = "login"

\* The account has been deleted and its page is about to be told.
Deleting == \E i \in 1..Len(main) : main[i].kind = "delete"

\* One call or one completion at a time.
OneCall ==
  /\ \A c, d \in calls : c = d
  /\ \A i \in 1..Len(main) : main[i].kind \in Done =>
       calls = {} /\ \A j \in 1..Len(main) : main[j].kind \in Done => j = i

\* A deletion was asked for by the page in front, for the user of this session,
\* unless nobody is logged in by now; other calls by a login screen or a registration.
OfPage(id) == Top.kind = "mypage" /\ Top.id = id
CallFits(c) ==
  IF c.kind = "delete"
  THEN \/ Opening /\ currentUser = NoUser
       \/ OfUser /\ Announced /\ OfPage(c.id) /\ c.session = session
  ELSE Opening /\ Announced
CallsFit == \A c \in calls : CallFits(c)

\* The same of the completions, which come after the announcement.
DoneFits(i) ==
  IF main[i].kind = "delete"
  THEN currentUser = NoUser /\ (Opening \/ OfPage(main[i].id))
  ELSE /\ Opening /\ currentUser = main[i].user
       /\ \A j \in 1..Len(main) : main[j].kind = "notify" => j < i
DoneFit == \A i \in 1..Len(main) : main[i].kind \in Done => DoneFits(i)

Settles ==
  /\ ~Deleting => OfUser /\ PagesFit
  /\ ~Announced => Opening \/ Deleting

Orderly == OneCall /\ CallsFit /\ DoneFit /\ Settles /\ PlusesFit /\ RegistersFit

Honest == up = "running" /\ ~strayed /\ ~hurried => Orderly

\* The stack is as it was, but for what the screens have found.
SameScreens ==
  /\ Len(stack') = Len(stack)
  /\ \A i \in 1..Len(stack) :
       /\ stack'[i].kind = stack[i].kind /\ stack'[i].uid = stack[i].uid
       /\ stack'[i].id = stack[i].id /\ stack'[i].session = stack[i].session

\* No announcement or completion is new, and no completion goes.
MainKeeps ==
  /\ \E d \in {0, 1} : \A i \in 1..Len(main') :
       main'[i].kind # "token" => i + d \in 1..Len(main) /\ main'[i] = main[i + d]
  /\ \A i \in 1..Len(main) : main[i].kind \in Done => \E j \in 1..Len(main') : main'[j] = main[i]

LEMMA ScreensSame ==
  ASSUME TypeInv, SameScreens, currentUser' = currentUser, session' = session
  PROVE  /\ Opening => Opening'
         /\ OfUser => OfUser'
         /\ PagesFit => PagesFit'
         /\ PlusesFit => PlusesFit'
         /\ RegistersFit => RegistersFit'
         /\ \A id : up = "running" /\ OfPage(id) => OfPage(id)'
<1>1. PICK n : n = Len(stack)
  OBVIOUS
<1>2. n \in Nat /\ Len(stack') = n
      /\ \A i \in 1..n : /\ stack'[i].kind = stack[i].kind /\ stack'[i].uid = stack[i].uid
                         /\ stack'[i].id = stack[i].id /\ stack'[i].session = stack[i].session
  BY <1>1, Elements DEF SameScreens
<1>3. \A i \in 1..n : Segment(i)' => Segment(i)
  <2> SUFFICES ASSUME NEW i \in 1..n, Segment(i)', NEW j \in i..n PROVE stack[j].kind # "login"
    BY <1>1 DEF Segment
  <2>1. j \in 1..n
    BY <1>2
  <2> QED
    BY <1>2, <2>1 DEF Segment
<1>4. Opening => Opening'
  BY <1>1, <1>2, <1>3 DEF Opening
<1>5. OfUser => OfUser'
  BY <1>1, <1>2, <1>3 DEF OfUser
<1>6. PagesFit => PagesFit'
  BY <1>1, <1>2, <1>3 DEF PagesFit
<1>7. PlusesFit => PlusesFit'
  BY <1>1, <1>2 DEF PlusesFit
<1>8. RegistersFit => RegistersFit'
  BY <1>1, <1>2 DEF RegistersFit
<1>9. ASSUME NEW id, up = "running", OfPage(id) PROVE OfPage(id)'
  <2>1. n \in 1..n
    BY <1>1, <1>9, TopFits
  <2> QED
    BY <1>1, <1>2, <1>9, <2>1 DEF OfPage, Top
<1> QED
  BY <1>4, <1>5, <1>6, <1>7, <1>8, <1>9

\* The announcements that wait are the same or fewer, the completions the same.
LEMMA MainKept ==
  ASSUME TypeInv, TypeInv', MainKeeps
  PROVE  /\ Announced => Announced'
         /\ Deleting <=> Deleting'
<1>1. PICK d \in {0, 1} : \A i \in 1..Len(main') :
        main'[i].kind # "token" => i + d \in 1..Len(main) /\ main'[i] = main[i + d]
  BY DEF MainKeeps
<1>2. Announced => Announced'
  BY <1>1, AnnouncedIs, AnnouncedNext
<1>3. ASSUME Deleting' PROVE Deleting
  <2>1. PICK i \in 1..Len(main') : main'[i].kind = "delete"
    BY <1>3 DEF Deleting
  <2> QED
    BY <1>1, <2>1 DEF Deleting
<1>4. ASSUME Deleting PROVE Deleting'
  <2>1. PICK i \in 1..Len(main) : main[i].kind = "delete"
    BY <1>4 DEF Deleting
  <2>2. PICK j \in 1..Len(main') : main'[j] = main[i]
    BY <2>1 DEF MainKeeps, Done
  <2> QED
    BY <2>1, <2>2 DEF Deleting
<1> QED
  BY <1>2, <1>3, <1>4

\* A call or a completion of this screen waits.
LEMMA Waits ==
  ASSUME TypeInv
  PROVE  /\ \A c \in calls : Waiting(c.id)
         /\ \A i \in 1..Len(main) : Waiting(main[i].id)
<1>1. \A i \in 1..Len(main) : main[i] \in Range(main)
  BY DEF Range, TypeInv, AppTyped
<1> QED
  BY <1>1 DEF Waiting, Ids

\* What a step must keep that starts no call.
LEMMA OrderlyKept ==
  ASSUME TypeInv, TypeInv', Orderly,
         Opening => Opening', OfUser => OfUser', PagesFit => PagesFit', PlusesFit', RegistersFit',
         \A id : Waiting(id) /\ OfPage(id) => OfPage(id)',
         MainKeeps, UNCHANGED <<currentUser, session>>, calls' \subseteq calls
  PROVE  Orderly'
<1>2. (Announced => Announced') /\ (Deleting <=> Deleting')
  BY MainKept
<1>3. PICK d \in {0, 1} : \A i \in 1..Len(main') :
        main'[i].kind # "token" => i + d \in 1..Len(main) /\ main'[i] = main[i + d]
  BY DEF MainKeeps
<1>4. \A i \in 1..Len(main') : main'[i].kind \in Done => i + d \in 1..Len(main) /\ main'[i] = main[i + d]
  BY <1>3 DEF Done
<1>5. OneCall'
  <2>1. \A c, e \in calls' : c = e
    BY DEF Orderly, OneCall
  <2>2. ASSUME NEW i \in 1..Len(main'), main'[i].kind \in Done PROVE calls' = {}
    BY <1>4, <2>2 DEF Orderly, OneCall
  <2>3. ASSUME NEW i \in 1..Len(main'), main'[i].kind \in Done,
               NEW j \in 1..Len(main'), main'[j].kind \in Done
        PROVE  j = i
    <3>1. i + d \in 1..Len(main) /\ j + d \in 1..Len(main)
          /\ main[i + d].kind \in Done /\ main[j + d].kind \in Done
      BY <1>4, <2>3
    <3>2. j + d = i + d
      BY <3>1 DEF Orderly, OneCall
    <3> QED
      BY <3>2
  <2> QED
    BY <2>1, <2>2, <2>3 DEF OneCall
<1>6. CallsFit'
  <2> SUFFICES ASSUME NEW c \in calls' PROVE CallFits(c)'
    BY DEF CallsFit
  <2>1. CallFits(c) /\ (OfPage(c.id) => OfPage(c.id)')
    BY Waits DEF Orderly, CallsFit
  <2> QED
    BY <1>2, <2>1 DEF CallFits
<1>7. DoneFit'
  <2> SUFFICES ASSUME NEW i \in 1..Len(main'), main'[i].kind \in Done PROVE DoneFits(i)'
    BY DEF DoneFit
  <2>1. PICK k \in 1..Len(main) : k = i + d /\ main'[i] = main[k]
    BY <1>4
  <2>2. DoneFits(k)
    BY <2>1 DEF Orderly, DoneFit
  <2>3. CASE main[k].kind = "delete"
    <3>1. PICK id : id = main[k].id
      OBVIOUS
    <3>2. OfPage(id) => OfPage(id)'
      BY <2>1, <3>1, Waits
    <3> QED
      BY <2>1, <2>2, <2>3, <3>1, <3>2 DEF DoneFits
  <2>4. CASE main[k].kind # "delete"
    <3>1. ASSUME NEW j \in 1..Len(main'), main'[j].kind = "notify" PROVE j < i
      <4>1. j + d \in 1..Len(main) /\ main[j + d].kind = "notify"
        BY <1>3, <3>1
      <4>2. j + d < k
        BY <2>2, <2>4, <4>1 DEF DoneFits
      <4> QED
        BY <2>1, <4>2
    <3>2. Opening' /\ currentUser' = main'[i].user
      BY <2>1, <2>2, <2>4 DEF DoneFits
    <3> QED
      BY <2>1, <2>4, <3>1, <3>2 DEF DoneFits
  <2> QED
    BY <2>3, <2>4
<1>8. Settles'
  BY <1>2 DEF Orderly, Settles
<1> QED
  BY <1>5, <1>6, <1>7, <1>8 DEF Orderly

LEMMA OrderlyStays ==
  ASSUME TypeInv, TypeInv', up = "running", Orderly, SameScreens, MainKeeps,
         UNCHANGED <<currentUser, session>>, calls' \subseteq calls
  PROVE  Orderly'
<1>1. /\ Opening => Opening'
      /\ OfUser => OfUser'
      /\ PagesFit => PagesFit'
      /\ PlusesFit' /\ RegistersFit'
      /\ \A id : Waiting(id) /\ OfPage(id) => OfPage(id)'
  BY ScreensSame DEF Orderly
<1> QED
  BY <1>1, OrderlyKept

\* One screen more.
Atop(s) ==
  /\ Len(stack') = Len(stack) + 1 /\ stack'[Len(stack) + 1] = s
  /\ \A i \in 1..Len(stack) : stack'[i] = stack[i]

LEMMA ComesAtop == ASSUME TypeInv, NEW s, Comes(s) PROVE Atop(s)
BY DEF Atop, Comes, TypeInv, AppTyped

\* A login screen ends what was before it.
LEMMA LoginAtop ==
  ASSUME TypeInv, NEW s, Atop(s), s.kind = "login" PROVE Opening' /\ OfUser' /\ PagesFit'
<1>1. PICK n : n = Len(stack)
  OBVIOUS
<1>2. n \in Nat /\ Len(stack') = n + 1 /\ stack'[n + 1].kind = "login"
  BY <1>1, Elements DEF Atop
<1>3. \A i \in 1..Len(stack') : ~Segment(i)'
  <2> SUFFICES ASSUME NEW i \in 1..Len(stack'), Segment(i)' PROVE FALSE
    OBVIOUS
  <2>1. n + 1 \in i..Len(stack')
    BY <1>2
  <2> QED
    BY <1>2, <2>1 DEF Segment
<1> QED
  BY <1>3 DEF Opening, OfUser, PagesFit

\* Another screen joins those of the last login.
LEMMA ScreenAtop ==
  ASSUME TypeInv, NEW s, Atop(s), s.kind # "login", UNCHANGED <<currentUser, session>>
  PROVE  /\ Opening /\ s.kind = "register" => Opening'
         /\ OfUser /\ (s.kind = "register" \/ (s.uid = currentUser /\ currentUser \in Users)) => OfUser'
         /\ PagesFit /\ (s.kind = "mypage" => s.session = session) => PagesFit'
<1>1. PICK n, b : n = Len(stack) /\ b = n + 1
  OBVIOUS
<1>2. n \in Nat /\ Len(stack') = b /\ stack'[b] = s /\ \A i \in 1..n : stack'[i] = stack[i]
  BY <1>1, Elements DEF Atop
<1>3. \A i \in 1..b : i \in 1..n \/ i = b
  BY <1>1, <1>2
<1>4. \A i \in 1..n : Segment(i)' => Segment(i)
  <2> SUFFICES ASSUME NEW i \in 1..n, Segment(i)', NEW j \in i..n PROVE stack[j].kind # "login"
    BY <1>1 DEF Segment
  <2>1. j \in 1..n /\ j \in i..b
    BY <1>1, <1>2
  <2> QED
    BY <1>2, <2>1 DEF Segment
<1>5. ASSUME Opening, s.kind = "register" PROVE Opening'
  BY <1>1, <1>2, <1>3, <1>4, <1>5 DEF Opening
<1>6. ASSUME OfUser, s.kind = "register" \/ (s.uid = currentUser /\ currentUser \in Users) PROVE OfUser'
  BY <1>1, <1>2, <1>3, <1>4, <1>6 DEF OfUser
<1>7. ASSUME PagesFit, s.kind = "mypage" => s.session = session PROVE PagesFit'
  BY <1>1, <1>2, <1>3, <1>4, <1>7 DEF PagesFit
<1> QED
  BY <1>5, <1>6, <1>7

\* Only results come above a writing screen, only a login screen is below a registration.
LEMMA KindsAtop ==
  ASSUME TypeInv, up = "running", NEW s, Atop(s), PlusesFit, RegistersFit,
         s.kind = "image" \/ Top.kind \notin {"plus", "image"},
         s.kind = "plus" => s.uid \in Users,
         s.kind = "register" => Top.kind = "login"
  PROVE  PlusesFit' /\ RegistersFit'
<1>1. PICK n, b : n = Len(stack) /\ b = n + 1
  OBVIOUS
<1>2. n \in Nat \ {0} /\ Len(stack') = b /\ stack'[b] = s /\ Top = stack[n]
      /\ \A i \in 1..n : stack'[i] = stack[i]
  BY <1>1, TopFits DEF Atop
<1>3. \A i \in 1..b : i \in 1..n \/ i = b
  BY <1>1, <1>2
<1>4. ASSUME NEW i \in 1..n, stack[i].kind = "plus" PROVE s.kind = "image"
  <2>1. n \in 1..n /\ (i < n \/ i = n)
    BY <1>2
  <2>2. stack[n].kind \in {"plus", "image"}
    BY <1>1, <1>4, <2>1 DEF PlusesFit
  <2> QED
    BY <1>2, <2>2
<1>5. PlusesFit'
  <2> SUFFICES ASSUME NEW i \in 1..b, stack'[i].kind = "plus"
               PROVE  stack'[i].uid \in Users /\ \A j \in 1..b : i < j => stack'[j].kind = "image"
    BY <1>2 DEF PlusesFit
  <2>1. CASE i \in 1..n
    BY <1>1, <1>2, <1>3, <1>4, <2>1 DEF PlusesFit
  <2>2. CASE i = b
    BY <1>1, <1>2, <2>2
  <2> QED
    BY <1>3, <2>1, <2>2
<1>6. RegistersFit'
  <2> SUFFICES ASSUME NEW i \in 1..b, stack'[i].kind = "register"
               PROVE  i - 1 \in 1..b /\ stack'[i - 1].kind = "login"
    BY <1>2 DEF RegistersFit
  <2>1. CASE i \in 1..n
    <3>1. i - 1 \in 1..n /\ stack[i - 1].kind = "login"
      BY <1>1, <1>2, <2>1 DEF RegistersFit
    <3> QED
      BY <1>1, <1>2, <3>1
  <2>2. CASE i = b
    <3>1. i - 1 = n /\ n \in 1..n
      BY <1>1, <1>2, <2>2
    <3> QED
      BY <1>1, <1>2, <2>2, <3>1
  <2> QED
    BY <1>3, <2>1, <2>2
<1> QED
  BY <1>5, <1>6

\* Where nobody has logged in nothing is anyone's.
LEMMA OpeningIsOfUser == Opening => OfUser /\ PagesFit
BY DEF Opening, OfUser, PagesFit

\* What is in front tells who is logged in.
LEMMA OpeningHere ==
  ASSUME TypeInv, up = "running", RegistersFit
  PROVE  Opening <=> Top.kind \in {"login", "register"}
<1>1. PICK n : n = Len(stack)
  OBVIOUS
<1>2. n \in Nat \ {0} /\ Top = stack[n] /\ n \in 1..n
  BY <1>1, TopFits
<1>3. ASSUME Opening, Top.kind # "login" PROVE Top.kind = "register"
  <2>1. \A j \in n..n : j = n
    BY <1>2
  <2>2. Segment(n)
    BY <1>1, <1>2, <1>3, <2>1 DEF Segment
  <2> QED
    BY <1>1, <1>2, <1>3, <2>2 DEF Opening
<1>4. ASSUME Top.kind = "login" PROVE Opening
  <2> SUFFICES ASSUME NEW i \in 1..n, Segment(i) PROVE FALSE
    BY <1>1 DEF Opening
  <2>1. n \in i..n
    BY <1>2
  <2> QED
    BY <1>1, <1>2, <1>4, <2>1 DEF Segment
<1>5. ASSUME Top.kind = "register" PROVE Opening
  <2>1. n - 1 \in 1..n /\ stack[n - 1].kind = "login"
    BY <1>1, <1>2, <1>5 DEF RegistersFit
  <2> SUFFICES ASSUME NEW i \in 1..n, Segment(i) PROVE stack[i].kind = "register"
    BY <1>1 DEF Opening
  <2>2. n - 1 \notin i..n
    BY <1>1, <2>1 DEF Segment
  <2>3. i = n
    BY <1>2, <2>2
  <2> QED
    BY <1>2, <1>5, <2>3
<1> QED
  BY <1>3, <1>4, <1>5

\* On other screens than those of the accounts nothing is under way, and they are the
\* user's.
LEMMA QuietScreen ==
  ASSUME TypeInv, up = "running", Orderly, Top.kind \notin {"login", "register", "mypage"}
  PROVE  /\ calls = {} /\ Announced /\ OfUser /\ PagesFit
         /\ Top.uid = currentUser /\ currentUser \in Users
         /\ \A i \in 1..Len(main) : main[i].kind \notin Done
<1>1. ~Opening
  BY OpeningHere DEF Orderly
<1>2. \A id : ~OfPage(id)
  BY DEF OfPage
<1>3. calls = {}
  BY <1>1, <1>2 DEF Orderly, CallsFit, CallFits
<1>4. \A i \in 1..Len(main) : main[i].kind \notin Done
  BY <1>1, <1>2 DEF Orderly, DoneFit, DoneFits
<1>5. ~Deleting
  BY <1>4 DEF Deleting, Done
<1>6. Announced /\ OfUser /\ PagesFit
  BY <1>1, <1>5 DEF Orderly, Settles
<1>7. Top.uid = currentUser /\ currentUser \in Users
  <2>1. PICK n : n = Len(stack)
    OBVIOUS
  <2>2. n \in Nat \ {0} /\ Top = stack[n] /\ n \in 1..n /\ \A j \in n..n : j = n
    BY <2>1, TopFits
  <2>3. Segment(n)
    BY <2>1, <2>2 DEF Segment
  <2> QED
    BY <1>6, <2>1, <2>2, <2>3 DEF OfUser
<1> QED
  BY <1>3, <1>4, <1>6, <1>7

\* When no call or completion is left.
LEMMA OrderlyQuiet ==
  ASSUME TypeInv', calls' = {}, \A i \in 1..Len(main') : main'[i].kind \notin Done,
         OfUser', PagesFit', Announced' \/ Opening', PlusesFit', RegistersFit'
  PROVE  Orderly'
<1>1. OneCall' /\ CallsFit' /\ DoneFit'
  BY DEF OneCall, CallsFit, DoneFit
<1> QED
  BY <1>1 DEF Orderly, Settles

LEMMA MainSame == ASSUME TypeInv, main' = main PROVE MainKeeps
<1>1. \A i \in 1..Len(main) : i + 0 = i
  OBVIOUS
<1> QED
  BY <1>1 DEF MainKeeps

\* The user leaves a screen that waits for nothing, and not the login screen.
LEMMA OrderlyBack ==
  ASSUME TypeInv, TypeInv', Orderly, Back, ~strayed' PROVE Orderly'
<1>1. PICK n : n = Len(stack)
  OBVIOUS
<1>2. /\ up = "running" /\ n > 1 /\ stack' = SubSeq(stack, 1, n - 1)
      /\ Top.kind # "login" /\ ~Waiting(Top.id)
      /\ UNCHANGED <<currentUser, session, calls, main>>
  BY <1>1 DEF Back, authVars
<1>3. n \in Nat \ {0} /\ Top = stack[n]
  BY <1>1, <1>2, TopFits
<1>4. Len(stack') = n - 1 /\ \A i \in 1..(n - 1) : stack'[i] = stack[i]
  BY <1>1, <1>2, <1>3 DEF TypeInv, AppTyped
<1>5. \A i \in 1..(n - 1) : i \in 1..n
  BY <1>3
<1>6. \A i \in 1..(n - 1) : Segment(i)' => Segment(i)
  <2> SUFFICES ASSUME NEW i \in 1..(n - 1), Segment(i)', NEW j \in i..n PROVE stack[j].kind # "login"
    BY <1>1 DEF Segment
  <2>1. CASE j = n
    BY <1>2, <1>3, <2>1
  <2>2. CASE j # n
    <3>1. j \in i..(n - 1) /\ j \in 1..(n - 1)
      BY <1>3, <2>2
    <3> QED
      BY <1>4, <3>1 DEF Segment
  <2> QED
    BY <2>1, <2>2
<1>7. Opening => Opening'
  BY <1>1, <1>4, <1>5, <1>6 DEF Opening
<1>8. OfUser => OfUser'
  BY <1>1, <1>2, <1>4, <1>5, <1>6 DEF OfUser
<1>9. PagesFit => PagesFit'
  BY <1>1, <1>2, <1>4, <1>5, <1>6 DEF PagesFit
<1>10. PlusesFit'
  BY <1>1, <1>4, <1>5 DEF PlusesFit, Orderly
<1>11. RegistersFit'
  <2> SUFFICES ASSUME NEW i \in 1..(n - 1), stack'[i].kind = "register"
               PROVE  i - 1 \in 1..(n - 1) /\ stack'[i - 1].kind = "login"
    BY <1>4 DEF RegistersFit
  <2>1. i - 1 \in 1..n /\ stack[i - 1].kind = "login"
    BY <1>1, <1>4, <1>5 DEF RegistersFit, Orderly
  <2>2. i - 1 \in 1..(n - 1)
    BY <1>3, <2>1
  <2> QED
    BY <1>4, <2>1, <2>2
<1>12. \A id : ~(Waiting(id) /\ OfPage(id))
  BY <1>2 DEF OfPage
<1> QED
  BY <1>2, <1>7, <1>8, <1>9, <1>10, <1>11, <1>12, MainSame, OrderlyKept

\* The buttons: a registration above a login screen, or a screen of the current user.
LEMMA OrderlyButton ==
  ASSUME TypeInv, TypeInv', Orderly, NEW g \in Goes, ButtonClicked(g[1], g[2]) PROVE Orderly'
<1>1. PICK s : /\ Comes(s) /\ stack' = Append(stack, s) /\ s.kind = g[2] /\ Loads(s)
               /\ s.uid = IF s.kind = "register" THEN NoUser ELSE currentUser
               /\ s.session = IF s.kind = "mypage" THEN session ELSE 0
  BY ButtonAsks
<1>2. Atop(s)
  BY <1>1, ComesAtop
<1>3. up = "running" /\ Top.kind = g[1] /\ UNCHANGED <<currentUser, session, calls, main>>
  BY DEF ButtonClicked, InFront, authVars
<1>4. /\ g[2] \in {"register", "mypage", "plus", "calendar", "home", "diary"}
      /\ g[1] \in {"login", "home", "calendar"}
      /\ (g[1] = "login") = (g[2] = "register")
  BY DEF Goes
<1>5. s.kind # "login" /\ Top.kind \notin {"plus", "image"}
  BY <1>1, <1>3, <1>4
<1>6. CASE g[1] = "login"
  <2>1. PlusesFit' /\ RegistersFit'
    BY <1>1, <1>2, <1>3, <1>4, <1>5, <1>6, KindsAtop DEF Orderly
  <2>2. (Opening => Opening') /\ (OfUser => OfUser') /\ (PagesFit => PagesFit')
    BY <1>1, <1>2, <1>3, <1>4, <1>5, <1>6, ScreenAtop
  <2>3. \A id : ~OfPage(id)
    BY <1>3, <1>6 DEF OfPage
  <2> QED
    BY <1>3, <2>1, <2>2, <2>3, MainSame, OrderlyKept
<1>7. CASE g[1] # "login"
  <2>1. /\ calls = {} /\ Announced /\ OfUser /\ PagesFit
        /\ currentUser \in Users
        /\ \A i \in 1..Len(main) : main[i].kind \notin Done
    BY <1>3, <1>4, <1>7, QuietScreen
  <2>2. s.kind # "register" /\ s.uid = currentUser
    BY <1>1, <1>4, <1>7
  <2>3. OfUser' /\ PagesFit'
    BY <1>1, <1>2, <1>3, <1>5, <2>1, <2>2, ScreenAtop
  <2>4. PlusesFit' /\ RegistersFit'
    BY <1>1, <1>2, <1>3, <1>5, <2>1, <2>2, KindsAtop DEF Orderly
  <2>5. Announced'
    BY <1>3, <2>1, AnnouncedIs, AnnouncedNext
  <2> QED
    BY <1>3, <2>1, <2>3, <2>4, <2>5, OrderlyQuiet
<1> QED
  BY <1>6, <1>7

\* Logging out leaves nobody logged in below the new login screen.
LEMMA OrderlyLogout ==
  ASSUME TypeInv, TypeInv', Orderly, LogoutClicked PROVE Orderly'
<1>1. up = "running" /\ Top.kind = "mypage" /\ UNCHANGED calls
  BY DEF LogoutClicked, InFront
<1>2. PICK s : s = Screen("login", FreshId)
  OBVIOUS
<1>3. stack' = Append(stack, s)
  BY <1>2 DEF LogoutClicked
<1>4. Atop(s) /\ s.kind = "login"
  BY <1>2, <1>3, PlainComes, ComesAtop DEF Kinds
<1>5. Opening' /\ OfUser' /\ PagesFit'
  BY <1>4, LoginAtop
<1>6. PlusesFit' /\ RegistersFit'
  BY <1>1, <1>4, KindsAtop DEF Orderly
<1>7. ~Opening
  BY <1>1, OpeningHere DEF Orderly
<1>8. currentUser' = NoUser
  BY LogoutQueues
<1>9. /\ Len(main) \in Nat /\ \A i \in 1..Len(main) : i \in 1..Len(main') /\ main'[i] = main[i]
      /\ \A i \in 1..Len(main') : main'[i].kind \in Done => i \in 1..Len(main)
  <2>1. CASE main' = main
    BY <2>1, Elements
  <2>2. CASE /\ Queued([kind |-> "notify", id |-> 0, user |-> currentUser', session |-> session'])
             /\ Len(main') = Len(main) + 1
    <3>1. PICK n, b : n = Len(main) /\ b = n + 1
      OBVIOUS
    <3>2. /\ n \in Nat /\ Len(main') = b /\ \A i \in 1..n : main'[i] = main[i]
          /\ main'[b].kind = "notify"
      BY <2>2, <3>1, Elements DEF Queued
    <3>3. \A i \in 1..b : i \in 1..n \/ i = b
      BY <3>1, <3>2
    <3>4. \A i \in 1..n : i \in 1..b
      BY <3>1, <3>2
    <3> QED
      BY <3>1, <3>2, <3>3, <3>4 DEF Done
  <2> QED
    BY <2>1, <2>2, LogoutQueues
<1>10. OneCall'
  <2>1. \A c, e \in calls' : c = e
    BY <1>1 DEF Orderly, OneCall
  <2>2. ASSUME NEW i \in 1..Len(main'), main'[i].kind \in Done
        PROVE  calls' = {} /\ \A j \in 1..Len(main') : main'[j].kind \in Done => j = i
    BY <1>1, <1>9, <2>2 DEF Orderly, OneCall
  <2> QED
    BY <2>1, <2>2 DEF OneCall
<1>11. CallsFit'
  <2> SUFFICES ASSUME NEW c \in calls PROVE CallFits(c)'
    BY <1>1 DEF CallsFit
  <2>1. c.kind = "delete"
    BY <1>7 DEF Orderly, CallsFit, CallFits
  <2> QED
    BY <1>5, <1>8, <2>1 DEF CallFits
<1>12. DoneFit'
  <2> SUFFICES ASSUME NEW i \in 1..Len(main'), main'[i].kind \in Done PROVE DoneFits(i)'
    BY DEF DoneFit
  <2>1. i \in 1..Len(main) /\ main'[i] = main[i]
    BY <1>9
  <2>2. main[i].kind = "delete"
    BY <1>7, <2>1 DEF Orderly, DoneFit, DoneFits
  <2> QED
    BY <1>5, <1>8, <2>1, <2>2 DEF DoneFits
<1> QED
  BY <1>5, <1>6, <1>10, <1>11, <1>12 DEF Orderly, Settles

\* A call is made when nothing of an earlier one waits.
LEMMA OrderlyCall ==
  ASSUME TypeInv, TypeInv', up = "running", Orderly, ~hurried',
         NEW kind \in Done, NEW user, NEW number, Call(kind, user, number),
         kind = "delete" => OfUser /\ OfPage(Top.id) /\ number = session,
         kind # "delete" => Opening
  PROVE  Orderly'
<1>1. /\ calls = {} /\ \A b \in Range(main) : b.kind = "token"
      /\ calls' = {[kind |-> kind, id |-> Top.id, user |-> user, session |-> number]}
      /\ UNCHANGED <<stack, currentUser, session, main>>
  BY DEF Call, authVars
<1>2. \A i \in 1..Len(main) : main[i].kind = "token"
  BY <1>1 DEF Range, TypeInv, AppTyped
<1>3. Announced /\ Announced' /\ ~Deleting /\ ~Deleting'
  BY <1>1, <1>2, AnnouncedIs, AnnouncedNext DEF Deleting
<1>4. SameScreens
  BY <1>1 DEF SameScreens
<1>5. /\ Opening => Opening'
      /\ OfUser => OfUser'
      /\ PagesFit => PagesFit'
      /\ PlusesFit' /\ RegistersFit'
      /\ \A id : OfPage(id) => OfPage(id)'
  BY <1>1, <1>4, ScreensSame DEF Orderly
<1>6. OneCall' /\ DoneFit'
  BY <1>1, <1>2 DEF OneCall, DoneFit, Done
<1>7. CallsFit'
  <2> SUFFICES ASSUME NEW c \in calls' PROVE CallFits(c)'
    BY DEF CallsFit
  <2>1. c.kind = kind /\ c.id = Top.id /\ c.session = number
    BY <1>1
  <2>2. CASE kind = "delete"
    BY <1>1, <1>3, <1>5, <2>1, <2>2 DEF CallFits
  <2>3. CASE kind # "delete"
    BY <1>3, <1>5, <2>1, <2>3 DEF CallFits
  <2> QED
    BY <2>2, <2>3
<1>8. Settles'
  BY <1>3, <1>5 DEF Orderly, Settles
<1> QED
  BY <1>5, <1>6, <1>7, <1>8 DEF Orderly

LEMMA OrderlyClick ==
  ASSUME TypeInv, TypeInv', Orderly, ~hurried', LoginButtonClick \/ RegisterButtonClick \/ DeleteUserClicked
  PROVE  Orderly'
<1>1. CASE LoginButtonClick \/ RegisterButtonClick
  <2>1. PICK kind \in {"signIn", "createUser"}, user \in Users : Call(kind, user, 0)
    BY <1>1 DEF LoginButtonClick, RegisterButtonClick
  <2>2. up = "running" /\ Top.kind \in {"login", "register"}
    BY <1>1 DEF LoginButtonClick, RegisterButtonClick, InFront
  <2>3. Opening
    BY <2>2, OpeningHere DEF Orderly
  <2>4. kind \in Done /\ kind # "delete"
    BY <2>1 DEF Done
  <2> QED
    BY <2>1, <2>2, <2>3, <2>4, OrderlyCall
<1>2. CASE DeleteUserClicked
  <2>1. up = "running" /\ Top.kind = "mypage" /\ Call("delete", Top.uid, Top.session)
    BY <1>2 DEF DeleteUserClicked, InFront
  <2>2. \A b \in Range(main) : b.kind = "token"
    BY <2>1 DEF Call
  <2>3. \A i \in 1..Len(main) : main[i].kind = "token"
    BY <2>2 DEF Range, TypeInv, AppTyped
  <2>4. OfUser /\ PagesFit
    BY <2>3 DEF Orderly, Settles, Deleting
  <2>5. Top.session = session
    <3>1. PICK n : n = Len(stack)
      OBVIOUS
    <3>2. n \in Nat \ {0} /\ Top = stack[n] /\ n \in 1..n /\ \A j \in n..n : j = n
      BY <2>1, <3>1, TopFits
    <3>3. Segment(n)
      BY <2>1, <3>1, <3>2 DEF Segment
    <3> QED
      BY <2>1, <2>4, <3>1, <3>2, <3>3 DEF PagesFit
  <2>6. OfPage(Top.id)
    BY <2>1 DEF OfPage
  <2>7. "delete" \in Done
    BY DEF Done
  <2>8. PICK u, m : u = Top.uid /\ m = Top.session
    OBVIOUS
  <2> QED
    BY <2>1, <2>4, <2>5, <2>6, <2>7, <2>8, OrderlyCall
<1> QED
  BY <1>1, <1>2

\* A call that succeeds leaves its completion, behind an announcement if the user
\* changes.
LEMMA Succeeds ==
  ASSUME TypeInv, NEW c \in calls, CallSucceeds(c)
  PROVE  /\ up = "running" /\ UNCHANGED <<up, stack, strayed, hurried>> /\ calls' = calls \ {c}
         /\ c.kind \in Done /\ c.user \in Users
         /\ Len(main) \in Nat /\ \A i \in 1..Len(main) : main'[i] = main[i]
         /\ main'[Len(main')] = [kind |-> c.kind, id |-> c.id, user |-> c.user]
         /\ \/ /\ c.kind = "delete" /\ c.session # session /\ UNCHANGED <<currentUser, session>>
               /\ Len(main') = Len(main) + 1
            \/ /\ c.kind = "delete" => c.session = session
               /\ currentUser' = IF c.kind = "delete" THEN NoUser ELSE c.user
               /\ Len(main') = Len(main) + 2 /\ main'[Len(main) + 1].kind = "notify"
<1>1. PICK comp, n, b : comp = Completion(c) /\ n = Len(main) /\ b = [kind |-> c.kind, id |-> c.id, user |-> c.user]
  OBVIOUS
<1>2. /\ comp \in Seq(Blocks) /\ Len(comp) \in {0, 1} /\ Len(comp) = 1 /\ comp[1] = b
      /\ \A k \in Nat : IdsBelow(k) => \A i \in 1..Len(comp) : comp[i].id <= k
      /\ c.kind \in Done /\ c.user \in Users /\ n \in Nat /\ main \in Seq(Blocks)
  BY <1>1, CompletionFits, Elements DEF TypeInv, AppTyped
<1>3. up = "running" /\ UNCHANGED <<up, stack, strayed, hurried>> /\ calls' = calls \ {c} /\ calls' \subseteq calls
  BY DEF CallSucceeds
<1>4. ASSUME NEW user \in Uids, UpdateCurrentUser(user, comp)
      PROVE  /\ currentUser' = user
             /\ \A i \in 1..n : main'[i] = main[i]
             /\ Len(main') = n + 2 /\ main'[n + 1].kind = "notify" /\ main'[Len(main')] = b
  <2>1. /\ currentUser' = user
        /\ Len(main') = Len(main) + 1 + Len(comp)
        /\ \A i \in 1..Len(main) : main'[i] = main[i]
        /\ main'[Len(main) + 1] = [kind |-> "notify", id |-> 0, user |-> user, session |-> session + 1]
        /\ Len(comp) = 1 => main'[Len(main) + 2] = comp[1]
    BY <1>2, <1>3, <1>4, UpdateFits
  <2>2. Len(main') = n + 2 /\ main'[n + 2] = b
    BY <1>1, <1>2, <2>1
  <2> QED
    BY <1>1, <2>1, <2>2
<1>5. CASE c.kind = "delete" /\ c.session # session
  <2>1. main' = main \o comp /\ UNCHANGED <<currentUser, session>>
    BY <1>1, <1>5 DEF CallSucceeds, authVars
  <2>2. comp \in Seq(Blocks) /\ main \in Seq(Blocks)
    BY <1>2
  <2>3. /\ Len(main') = Len(main) + Len(comp)
        /\ \A i \in 1..Len(main) : main'[i] = main[i]
        /\ \A i \in 1..Len(comp) : main'[Len(main) + i] = comp[i]
    BY ONLY <2>1, <2>2, Joined
  <2>4. Len(main') = n + 1 /\ main'[n + 1] = b
    BY <1>1, <1>2, <2>3
  <2> QED
    BY <1>1, <1>2, <1>3, <1>5, <2>1, <2>3, <2>4
<1>6. CASE c.kind = "delete" /\ c.session = session
  <2>1. UpdateCurrentUser(NoUser, comp)
    BY <1>1, <1>6 DEF CallSucceeds
  <2> QED
    BY <1>1, <1>2, <1>3, <1>4, <1>6, <2>1 DEF Uids
<1>7. CASE c.kind # "delete"
  <2>1. UpdateCurrentUser(c.user, comp)
    BY <1>1, <1>7 DEF CallSucceeds
  <2> QED
    BY <1>1, <1>2, <1>3, <1>4, <1>7, <2>1 DEF Uids
<1> QED
  BY <1>5, <1>6, <1>7

LEMMA OrderlySucceeds ==
  ASSUME TypeInv, TypeInv', Orderly, NEW c \in calls, CallSucceeds(c) PROVE Orderly'
<1>1. PICK n, b : n = Len(main) /\ b = Len(main')
  OBVIOUS
<1>2. /\ up = "running" /\ stack' = stack /\ calls' = calls \ {c} /\ c.kind \in Done
      /\ n \in Nat /\ \A i \in 1..n : main'[i] = main[i]
      /\ main'[b] = [kind |-> c.kind, id |-> c.id, user |-> c.user]
  BY <1>1, Succeeds
<1>3. \/ /\ c.kind = "delete" /\ c.session # session /\ UNCHANGED <<currentUser, session>>
         /\ b = n + 1
      \/ /\ c.kind = "delete" => c.session = session
         /\ currentUser' = IF c.kind = "delete" THEN NoUser ELSE c.user
         /\ b = n + 2 /\ main'[n + 1].kind = "notify"
  BY <1>1, Succeeds
<1>4. calls = {c} /\ calls' = {} /\ \A i \in 1..n : main[i].kind \notin Done
  <2>1. calls = {c}
    BY DEF Orderly, OneCall
  <2> QED
    BY <1>1, <1>2, <2>1 DEF Orderly, OneCall
<1>5. b \in 1..b /\ \A i \in 1..b : main'[i].kind \in Done => i = b
  <2>1. \A i \in 1..b : i \in 1..n \/ i = n + 1 \/ i = b
    BY <1>2, <1>3
  <2> QED
    BY <1>2, <1>3, <1>4, <2>1 DEF Done
<1>6. PlusesFit' /\ RegistersFit' /\ (Opening => Opening') /\ \A id : OfPage(id) => OfPage(id)'
  BY <1>2 DEF PlusesFit, RegistersFit, Opening, Segment, OfPage, Top, Orderly
<1>7. OneCall' /\ CallsFit'
  BY <1>1, <1>4, <1>5 DEF OneCall, CallsFit
<1>8. CallFits(c)
  BY DEF Orderly, CallsFit
<1>9. CASE c.kind = "delete"
  <2>1. Deleting'
    BY <1>1, <1>2, <1>5, <1>9 DEF Deleting
  <2>2. currentUser' = NoUser /\ (Opening' \/ OfPage(c.id)')
    BY <1>3, <1>6, <1>8, <1>9 DEF CallFits
  <2>3. DoneFits(b)'
    BY <1>2, <1>9, <2>2 DEF DoneFits
  <2>4. DoneFit'
    BY <1>1, <1>5, <2>3 DEF DoneFit
  <2> QED
    BY <1>6, <1>7, <2>1, <2>4 DEF Orderly, Settles
<1>10. CASE c.kind # "delete"
  <2>1. Opening' /\ OfUser' /\ PagesFit'
    BY <1>6, <1>8, <1>10, OpeningIsOfUser DEF CallFits, Opening, OfUser, PagesFit
  <2>2. ASSUME NEW i \in 1..b, main'[i].kind = "notify" PROVE i < b
    <3>1. b \in Nat /\ i # b
      BY <1>2, <1>3, <1>10, <2>2 DEF Done
    <3> QED
      BY <3>1
  <2>3. DoneFits(b)'
    BY <1>1, <1>2, <1>3, <1>10, <2>1, <2>2 DEF DoneFits
  <2>4. DoneFit'
    BY <1>1, <1>5, <2>3 DEF DoneFit
  <2> QED
    BY <1>6, <1>7, <2>1, <2>4 DEF Orderly, Settles
<1> QED
  BY <1>9, <1>10

\* The completions. The block at the head is the only one of its kind, and no call
\* is under way.
LEMMA OneDone ==
  ASSUME TypeInv, Orderly, MainQueue, Head(main).kind \in Done
  PROVE  /\ up = "running" /\ calls' = {} /\ UNCHANGED <<currentUser, session, strayed, hurried>>
         /\ main[1] = Head(main) /\ 1 \in 1..Len(main) /\ DoneFits(1)
         /\ \A i \in 1..Len(main') : main'[i].kind \notin Done
<1>1. /\ main # <<>> /\ main' = Tail(main) /\ up = "running"
      /\ UNCHANGED <<currentUser, session, calls, strayed, hurried>>
  BY DoneBlock
<1>2. /\ Head(main) = main[1] /\ 1 \in 1..Len(main)
      /\ \A i \in 1..Len(main') : i + 1 \in 1..Len(main) /\ main'[i] = main[i + 1]
  BY <1>1, NextBlock
<1>3. calls = {} /\ \A j \in 1..Len(main) : main[j].kind \in Done => j = 1
  BY <1>2 DEF Orderly, OneCall
<1>4. ASSUME NEW i \in 1..Len(main'), main'[i].kind \in Done PROVE FALSE
  <2>1. i + 1 = 1
    BY <1>2, <1>3, <1>4
  <2> QED
    BY <2>1
<1>5. DoneFits(1)
  BY <1>2 DEF Orderly, DoneFit
<1> QED
  BY <1>1, <1>2, <1>3, <1>4, <1>5

\* A completion of signIn or createUser: the home screen of the user it names, who is
\* the current user, announced and with no screen yet.
LEMMA OrderlySignedIn ==
  ASSUME TypeInv, TypeInv', Orderly, MainQueue, Head(main).kind \in {"signIn", "createUser"} PROVE Orderly'
<1>1. /\ up = "running" /\ calls' = {} /\ UNCHANGED <<currentUser, session>>
      /\ main[1] = Head(main) /\ 1 \in 1..Len(main) /\ DoneFits(1)
      /\ \A i \in 1..Len(main') : main'[i].kind \notin Done
  BY OneDone DEF Done
<1>2. /\ Head(main).user \in Users
      /\ Head(main).kind = "signIn" => SignedIn(Head(main))
      /\ Head(main).kind = "createUser" => Registered(Head(main))
      /\ main' = Tail(main) /\ main # <<>>
  BY DoneBlock DEF Done
<1>3. /\ Opening /\ currentUser \in Users
      /\ \A j \in 1..Len(main) : main[j].kind = "notify" => j < 1
  BY <1>1, <1>2 DEF DoneFits
<1>4. Announced'
  <2>1. \A i \in 1..Len(main') : i + 1 \in 1..Len(main) /\ main'[i] = main[i + 1]
    BY <1>2, NextBlock
  <2>2. ASSUME NEW i \in 1..Len(main'), main'[i].kind = "notify" PROVE FALSE
    <3>1. i + 1 < 1
      BY <1>3, <2>1, <2>2
    <3> QED
      BY <3>1
  <2> QED
    BY <2>2, AnnouncedNext
<1>5. OfUser /\ PagesFit /\ Top.kind \in {"login", "register"}
  BY <1>1, <1>3, OpeningIsOfUser, OpeningHere DEF Orderly
<1>6. CASE stack' = stack
  <2>1. SameScreens
    BY <1>6 DEF SameScreens
  <2>2. OfUser' /\ PagesFit' /\ PlusesFit' /\ RegistersFit'
    BY <1>1, <1>5, <2>1, ScreensSame DEF Orderly
  <2> QED
    BY <1>1, <1>4, <2>2, OrderlyQuiet
<1>7. CASE stack' = Append(stack, Screen("home", FreshId))
  <2>1. PICK s : s = Screen("home", FreshId)
    OBVIOUS
  <2>2. Comes(s) /\ s.kind = "home" /\ s.uid = currentUser
    BY <1>7, <2>1, PlainComes DEF Kinds
  <2>3. Atop(s) /\ s.kind # "login" /\ s.kind # "mypage" /\ s.kind # "plus" /\ s.kind # "register"
    BY <2>2, ComesAtop
  <2>4. OfUser' /\ PagesFit'
    BY <1>1, <1>3, <1>5, <2>2, <2>3, ScreenAtop
  <2>5. PlusesFit' /\ RegistersFit'
    BY <1>1, <1>5, <2>3, KindsAtop DEF Orderly
  <2> QED
    BY <1>1, <1>4, <2>4, <2>5, OrderlyQuiet
<1>8. stack' = stack \/ stack' = Append(stack, Screen("home", FreshId))
  BY <1>2 DEF SignedIn, Registered, Push
<1> QED
  BY <1>6, <1>7, <1>8

\* The completion of a deletion: the login screen, with nobody logged in.
LEMMA OrderlyDeleted ==
  ASSUME TypeInv, TypeInv', Orderly, MainQueue, Head(main).kind = "delete" PROVE Orderly'
<1>1. /\ up = "running" /\ calls' = {} /\ UNCHANGED <<currentUser, session>>
      /\ main[1] = Head(main) /\ DoneFits(1)
      /\ \A i \in 1..Len(main') : main'[i].kind \notin Done
  BY OneDone DEF Done
<1>2. Deleted(Head(main)) /\ main' = Tail(main) /\ main # <<>>
      /\ UNCHANGED posts /\ CallersStay
  BY DoneBlock DEF Done
<1>3. currentUser = NoUser /\ (Opening \/ OfPage(main[1].id))
  BY <1>1 DEF DoneFits
<1>4. Top.kind \notin {"plus", "image"}
  BY <1>1, <1>3, OpeningHere DEF Orderly, OfPage
<1>5. CASE ~OnStack(main[1].id)
  <2>1. stack' = stack
    BY <1>1, <1>2, <1>5 DEF Deleted, TypeInv, AppTyped
  <2>2. SameScreens
    BY <2>1 DEF SameScreens
  <2>3. Opening
    <3>1. ASSUME OfPage(main[1].id) PROVE FALSE
      <4>1. PICK n : n = Len(stack)
        OBVIOUS
      <4>2. n \in 1..Len(stack) /\ stack[n].id = main[1].id /\ stack \in Seq(Screens)
        BY <1>1, <3>1, <4>1, TopFits DEF OfPage, TypeInv, AppTyped
      <4>3. stack[n] \in Range(stack)
        BY <4>2 DEF Range
      <4> QED
        BY <1>5, <4>2, <4>3 DEF OnStack, Ids
    <3> QED
      BY <1>3, <3>1
  <2>4. OfUser /\ PagesFit
    BY <2>3, OpeningIsOfUser
  <2>5. OfUser' /\ PagesFit' /\ Opening' /\ PlusesFit' /\ RegistersFit'
    BY <1>1, <2>2, <2>3, <2>4, ScreensSame DEF Orderly
  <2> QED
    BY <1>1, <2>5, OrderlyQuiet
<1>6. CASE OnStack(main[1].id)
  <2>1. PICK f : f = FreshId
    OBVIOUS
  <2>2. stack' = stack \o LoginScreens(NoUser, f) /\ stack \in Seq(Screens) /\ f \in Nat
    BY <1>1, <1>2, <1>3, <1>6, <2>1, FreshIdIsNew DEF Deleted, TypeInv, AppTyped
  <2>3. PICK L : L = LoginScreens(NoUser, f)
    OBVIOUS
  <2>4. L \in Seq(Screens) /\ Len(L) = 1 /\ L[1] = NewScreen("login", f, NoUser)
    BY <2>2, <2>3, LoginScreensFit, Counters DEF Uids
  <2>5. stack' = stack \o L /\ L \in Seq(Screens) /\ stack \in Seq(Screens)
    BY <2>2, <2>3, <2>4
  <2>6. /\ Len(stack') = Len(stack) + Len(L) /\ Len(stack) \in Nat
        /\ \A i \in 1..Len(stack) : stack'[i] = stack[i]
        /\ \A i \in 1..Len(L) : stack'[Len(stack) + i] = L[i]
    BY ONLY <2>5, Joined
  <2>7. PICK s : s = NewScreen("login", f, NoUser)
    OBVIOUS
  <2>8. Atop(s)
    BY <2>4, <2>6, <2>7 DEF Atop
  <2>9. s.kind = "login"
    BY <2>7 DEF NewScreen
  <2>10. Opening' /\ OfUser' /\ PagesFit'
    BY <2>8, <2>9, LoginAtop
  <2>11. PlusesFit' /\ RegistersFit'
    BY <1>1, <1>4, <2>8, <2>9, KindsAtop DEF Orderly
  <2> QED
    BY <1>1, <2>10, <2>11, OrderlyQuiet
<1> QED
  BY <1>5, <1>6

\* The result of a save comes up above the writing screen or another result of it.
LEMMA SavedAbove ==
  ASSUME TypeInv, up = "running", Orderly, NEW p \in posts, OnStack(p.id)
  PROVE  Top.kind \in {"plus", "image"}
<1>1. PICK n : n = Len(stack)
  OBVIOUS
<1>2. n \in Nat \ {0} /\ n \in 1..n /\ Top = stack[n]
  BY <1>1, TopFits
<1>3. PICK i \in 1..n : stack[i].id = p.id
  BY <1>1 DEF OnStack, Ids, Range, TypeInv, AppTyped
<1>4. stack[i].kind = "plus"
  BY <1>1, <1>3 DEF TypeInv, IdsFit
<1>5. CASE i = n
  BY <1>2, <1>4, <1>5
<1>6. CASE i < n
  BY <1>1, <1>2, <1>4, <1>6 DEF Orderly, PlusesFit
<1> QED
  BY <1>2, <1>5, <1>6

\* A late analysis shows its result to the user who saved.
LEMMA OrderlyAnalysis ==
  ASSUME TypeInv, TypeInv', Orderly, NEW p \in posts, AnalysisAnswered(p) PROVE Orderly'
<1>1. /\ up = "running" /\ UNCHANGED <<currentUser, session, calls, main>>
      /\ stack' = stack \/ (OnStack(p.id) /\ stack' = Append(stack, Image(p)))
  BY DEF AnalysisAnswered, authVars, Push
<1>2. CASE stack' = stack
  BY <1>1, <1>2, MainSame, OrderlyStays DEF SameScreens
<1>3. CASE OnStack(p.id) /\ stack' = Append(stack, Image(p))
  <2>1. Top.kind \in {"plus", "image"}
    BY <1>1, <1>3, SavedAbove
  <2>2. /\ calls = {} /\ Announced /\ OfUser /\ PagesFit
        /\ currentUser \in Users
        /\ \A k \in 1..Len(main) : main[k].kind \notin Done
    BY <1>1, <2>1, QuietScreen
  <2>3. PICK s : s = Image(p)
    OBVIOUS
  <2>4. Comes(s) /\ s.kind = "image" /\ s.uid = currentUser
    BY <1>3, <2>3, ImageComes
  <2>5. Atop(s) /\ s.kind # "login" /\ s.kind # "mypage" /\ s.kind # "plus" /\ s.kind # "register"
    BY <2>4, ComesAtop
  <2>6. OfUser' /\ PagesFit'
    BY <1>1, <2>2, <2>4, <2>5, ScreenAtop
  <2>7. PlusesFit' /\ RegistersFit'
    BY <1>1, <2>4, <2>5, KindsAtop DEF Orderly
  <2>8. Announced'
    BY <1>1, <2>2, AnnouncedIs, AnnouncedNext
  <2> QED
    BY <1>1, <2>2, <2>6, <2>7, <2>8, OrderlyQuiet
<1> QED
  BY <1>1, <1>2, <1>3

\* A launched app shows the current user's home screen, or the login screen.
LEMMA LaunchedOrderly == Launched => Orderly
<1> SUFFICES ASSUME Launched PROVE Orderly
  OBVIOUS
<1>1. PICK n : n = Len(stack)
  OBVIOUS
<1>2. /\ n \in {1, 2} /\ stack[1].kind = "login"
      /\ n = 2 => stack[2].kind = "home" /\ stack[2].uid = currentUser /\ currentUser \in Users
      /\ calls = {} /\ main = <<>>
  BY <1>1 DEF Launched, LaunchScreens
<1>3. \A i \in 1..n : i = 1 \/ (i = 2 /\ n = 2)
  BY <1>2
<1>4. Announced /\ \A i \in 1..Len(main) : FALSE
  BY <1>2 DEF Announced, Range
<1>5. OneCall /\ CallsFit /\ DoneFit
  BY <1>2, <1>4 DEF OneCall, CallsFit, DoneFit
<1>6. ~Segment(1)
  <2>1. 1 \in 1..n
    BY <1>2
  <2> QED
    BY <1>1, <1>2, <2>1 DEF Segment
<1>7. OfUser /\ PagesFit
  BY <1>1, <1>2, <1>3, <1>6 DEF OfUser, PagesFit
<1>8. PlusesFit /\ RegistersFit
  BY <1>1, <1>2, <1>3 DEF PlusesFit, RegistersFit
<1> QED
  BY <1>4, <1>5, <1>7, <1>8 DEF Orderly, Settles

\* Straying and hurrying are only forgotten by a launch.
LEMMA HonestBefore ==
  ASSUME TypeInv, Next, up' = "running", ~strayed', ~hurried' PROVE Launch \/ (up = "running" /\ ~strayed /\ ~hurried)
<1>1. CASE User
  <2>1. CASE \E g \in Goes : ButtonClicked(g[1], g[2])
    BY <2>1 DEF ButtonClicked, InFront
  <2>2. CASE Back
    BY <2>2 DEF Back
  <2>3. CASE LoginButtonClick \/ RegisterButtonClick \/ DeleteUserClicked
    BY <2>3 DEF LoginButtonClick, RegisterButtonClick, DeleteUserClicked, Call
  <2>4. CASE LogoutClicked
    BY <2>4 DEF LogoutClicked, InFront
  <2>5. CASE SaveButtonClicked \/ SaveOnCalendarDiary
    BY <2>5 DEF SaveButtonClicked, SaveOnCalendarDiary, InFront
  <2> QED
    BY <1>1, <2>1, <2>2, <2>3, <2>4, <2>5 DEF User
<1>2. CASE Services
  BY <1>2 DEF Services, CallSucceeds, CallFails, AnalysisAnswered, AnalysisFails, Midnight
<1>3. CASE Client
  BY <1>3 DEF Client, Retry, TokenIsLookedUp, TokenIsRefreshed, OnReady, ConnectionLost, ReadTimesOut, MainQueue
<1>4. CASE Server
  BY <1>4 DEF Server, ServeAuth, ServePut, ServeGet
<1>5. CASE Die
  BY <1>5 DEF Die
<1> QED
  BY <1>1, <1>2, <1>3, <1>4, <1>5 DEF Next

LEMMA MainToken ==
  ASSUME TypeInv, main' = Append(main, [kind |-> "token", id |-> 0]) PROVE MainKeeps
<1>1. PICK n, b : n = Len(main) /\ b = n + 1
  OBVIOUS
<1>2. /\ n \in Nat /\ Len(main') = b /\ main'[b].kind = "token" /\ \A i \in 1..n : main'[i] = main[i]
  BY <1>1, Elements DEF TypeInv, AppTyped
<1>3. \A i \in 1..b : main'[i].kind # "token" => i + 0 \in 1..n /\ main'[i] = main[i + 0]
  <2>1. \A i \in 1..b : i = b \/ (i \in 1..n /\ i + 0 = i)
    BY <1>1, <1>2
  <2> QED
    BY <1>2, <2>1
<1>4. \A i \in 1..n : i \in 1..b
  BY <1>1, <1>2
<1> QED
  BY <1>1, <1>2, <1>3, <1>4 DEF MainKeeps

LEMMA MainRuns ==
  ASSUME TypeInv, main # <<>>, main' = Tail(main), Head(main).kind \notin Done PROVE MainKeeps
<1>1. /\ Head(main) = main[1] /\ Len(main) \in Nat \ {0} /\ Len(main') = Len(main) - 1
      /\ \A i \in 1..Len(main') : i + 1 \in 1..Len(main) /\ main'[i] = main[i + 1]
  BY NextBlock
<1>2. ASSUME NEW i \in 1..Len(main), main[i].kind \in Done PROVE \E j \in 1..Len(main') : main'[j] = main[i]
  <2>1. i # 1
    BY <1>1, <1>2
  <2>2. PICK j : j = i - 1
    OBVIOUS
  <2>3. j \in 1..Len(main') /\ j + 1 = i
    BY <1>1, <2>1, <2>2
  <2> QED
    BY <1>1, <2>3
<1> QED
  BY <1>1, <1>2 DEF MainKeeps

\* Steps that do not move the screens, the calls or the user.
LEMMA OrderlyElse ==
  ASSUME TypeInv, TypeInv', OneToken, up = "running", Orderly,
         \/ \E c \in calls : CallFails(c)
         \/ SaveButtonClicked \/ SaveOnCalendarDiary \/ \E p \in posts : AnalysisFails(p)
         \/ Midnight \/ Client \/ Server \/ UNCHANGED vars,
         ~(MainQueue /\ Head(main).kind \in Done)
  PROVE  Orderly'
<1>1. ASSUME UNCHANGED <<stack, currentUser, session>>, calls' \subseteq calls, MainKeeps PROVE Orderly'
  <2>1. SameScreens
    BY <1>1 DEF SameScreens
  <2> QED
    BY <1>1, <2>1, OrderlyStays
<1>2. CASE UNCHANGED <<stack, currentUser, session, main>> /\ calls' \subseteq calls
  BY <1>1, <1>2, MainSame
<1>3. CASE \E c \in calls : CallFails(c)
  BY <1>2, <1>3 DEF CallFails, authVars
<1>4. CASE SaveButtonClicked \/ SaveOnCalendarDiary \/ (\E p \in posts : AnalysisFails(p)) \/ Midnight
  BY <1>2, <1>4 DEF SaveButtonClicked, SaveOnCalendarDiary, AnalysisFails, Midnight, authVars
<1>5. CASE Retry \/ OnReady \/ ConnectionLost \/ ReadTimesOut \/ ServeAuth \/ ServePut
  BY <1>2, <1>5 DEF Retry, OnReady, ConnectionLost, ReadTimesOut, ServeAuth, ServePut, authVars
<1>6. CASE TokenIsLookedUp \/ TokenIsRefreshed
  <2>1. /\ UNCHANGED <<stack, currentUser, session, calls>>
        /\ main' = main \/ main' = Append(main, [kind |-> "token", id |-> 0])
    BY <1>6 DEF TokenIsLookedUp, TokenIsRefreshed, authVars
  <2> QED
    BY <1>1, <2>1, MainSame, MainToken
<1>7. CASE MainQueue
  <2>1. /\ main # <<>> /\ main' = Tail(main) /\ UNCHANGED <<currentUser, session, calls>>
        /\ Head(main).kind \notin Done /\ Head(main) \in Blocks
    BY <1>7, NextBlock DEF MainQueue, authVars
  <2>2. Head(main).kind \in {"token", "notify"}
    BY <2>1 DEF Blocks
  <2>3. stack' = stack
    BY <1>7, <2>2 DEF MainQueue
  <2> QED
    BY <1>1, <2>1, <2>3, MainRuns
<1>8. CASE ServeGet
  <2>1. /\ wire # <<>> /\ UNCHANGED <<currentUser, session, calls, main>>
    BY <1>8 DEF ServeGet, authVars
  <2>2. PICK k \in DOMAIN reads : ReadAnswered(reads[k])
    BY <1>8 DEF ServeGet
  <2>3. k \in 1..Len(reads) /\ reads[k] \in ReadSet
    BY <2>2, Elements DEF TypeInv, ClientTyped
  <2>4. PICK r : r = reads[k]
    OBVIOUS
  <2>5. \A i \in 1..Len(stack) : stack[i].id = r.id => stack[i].kind = r.for
    BY <2>3, <2>4 DEF TypeInv, IdsFit
  <2>6. /\ ScreensStay /\ Len(stack') = Len(stack)
        /\ \A i \in 1..Len(stack) : stack'[i].session = stack[i].session
    BY <2>2, <2>3, <2>4, <2>5, AnswerFits
  <2>7. SameScreens
    BY <2>6 DEF SameScreens, ScreensStay
  <2> QED
    BY <2>1, <2>7, MainSame, OrderlyStays
<1>9. CASE UNCHANGED vars
  BY <1>2, <1>9 DEF vars, authVars
<1> QED
  BY <1>3, <1>4, <1>5, <1>6, <1>7, <1>8, <1>9 DEF Client, Server

LEMMA OrderlyStep ==
  ASSUME TypeInv, TypeInv', OneToken, up = "running", Orderly, ~strayed', ~hurried', up' = "running",
         [Next]_vars, ~Launch
  PROVE  Orderly'
<1>1. CASE \E g \in Goes : ButtonClicked(g[1], g[2])
  BY <1>1, OrderlyButton
<1>2. CASE Back
  BY <1>2, OrderlyBack
<1>3. CASE LoginButtonClick \/ RegisterButtonClick \/ DeleteUserClicked
  BY <1>3, OrderlyClick
<1>4. CASE LogoutClicked
  BY <1>4, OrderlyLogout
<1>5. CASE \E c \in calls : CallSucceeds(c)
  BY <1>5, OrderlySucceeds
<1>6. CASE \E p \in posts : AnalysisAnswered(p)
  BY <1>6, OrderlyAnalysis
<1>7. CASE MainQueue /\ Head(main).kind \in Done
  BY <1>7, OrderlySignedIn, OrderlyDeleted DEF Done
<1>8. CASE Die
  BY <1>8 DEF Die
<1>9. CASE /\ \/ \E c \in calls : CallFails(c)
              \/ SaveButtonClicked \/ SaveOnCalendarDiary \/ \E p \in posts : AnalysisFails(p)
              \/ Midnight \/ Client \/ Server \/ UNCHANGED vars
           /\ ~(MainQueue /\ Head(main).kind \in Done)
  BY <1>9, OrderlyElse
<1> QED
  BY <1>1, <1>2, <1>3, <1>4, <1>5, <1>6, <1>7, <1>8, <1>9 DEF Next, User, Services

LEMMA HonestStep == ASSUME TypeInv, TypeInv', OneToken, Honest, [Next]_vars PROVE Honest'
<1> SUFFICES ASSUME up' = "running", ~strayed', ~hurried' PROVE Orderly'
  BY DEF Honest
<1>1. CASE Launch
  <2>1. Launched'
    BY <1>1, LaunchLaunches
  <2> QED
    BY <2>1, LaunchedOrderly, PTL
<1>2. CASE ~Launch
  <2>1. up = "running" /\ ~strayed /\ ~hurried
    <3>1. CASE Next
      BY <1>2, <3>1, HonestBefore
    <3>2. CASE UNCHANGED vars
      BY <3>2 DEF vars
    <3> QED
      BY <3>1, <3>2
  <2>2. Orderly
    BY <2>1 DEF Honest
  <2> QED
    BY <1>2, <2>1, <2>2, OrderlyStep
<1> QED
  BY <1>1, <1>2

\* The screen in front, when nothing is under way.
LEMMA HonestIsScreens == TypeInv /\ Honest => ScreensActForTheirUser
<1> SUFFICES ASSUME TypeInv, Honest, up = "running", Settled, ~strayed, ~hurried,
                    Top.kind \in {"mypage", "plus", "image", "calendar", "diary"}
             PROVE  Top.uid = currentUser
  BY DEF ScreensActForTheirUser
<1>1. \A i \in 1..Len(main) : main[i].kind = "token"
  BY DEF Settled, Range, TypeInv, AppTyped
<1>2. OfUser
  BY <1>1 DEF Honest, Orderly, Settles, Deleting
<1>3. PICK n : n = Len(stack)
  OBVIOUS
<1>4. n \in Nat \ {0} /\ Top = stack[n] /\ n \in 1..n /\ \A j \in n..n : j = n
  BY <1>3, TopFits
<1>5. Segment(n)
  BY <1>3, <1>4 DEF Segment
<1> QED
  BY <1>2, <1>3, <1>4, <1>5 DEF OfUser

\* For any users and screens: of a user who makes one call at a time, waits for it
\* and does not go back from the login screen, the screen in front is the current
\* user's when nothing is under way (each keeps the uid of its viewDidLoad).
THEOREM ScreensAreTheUsers == Spec => []ScreensActForTheirUser
<1>1. Init => TypeInv /\ OneToken /\ Honest
  <2> SUFFICES ASSUME Init PROVE TypeInv /\ OneToken /\ Honest
    OBVIOUS
  <2>1. TypeInv /\ Launched
    BY InitTypes, InitLaunches
  <2>2. OneToken
    BY DEF Init, OneToken
  <2> QED
    BY <2>1, <2>2, LaunchedOrderly DEF Honest
<1>2. TypeInv /\ OneToken /\ Honest /\ [Next]_vars => TypeInv' /\ OneToken' /\ Honest'
  BY TypeInvStep, OneTokenStep, HonestStep
<1> QED
  BY <1>1, <1>2, HonestIsScreens, PTL DEF Spec

-----------------------------------------------------------------------------
(* Which writes are not the user's own                                     *)

\* A write that is not the current user's own is one of those who strayed or
\* hurried, or ends the record of a deleted account.
OthersFit(p) == p.own \/ strayed \/ hurried \/ (p.path = "Users" /\ p.value = None)
Others == \A p \in Puts : Known(p) => OthersFit(p)

\* One write is made at a time.
\* What is appended comes last.
LEMMA LastAppended ==
  ASSUME NEW S, NEW queue \in Seq(S), NEW x \in S
  PROVE  Len(queue) + 1 \in DOMAIN Append(queue, x) /\ Append(queue, x)[Len(queue) + 1] = x
  OBVIOUS

\* A step appends one write at most.
LEMMA OneWrite ==
  ASSUME TypeInv, NEW p, NEW q, Written(p), Written(q) PROVE p = q
<1>1. puts \in Seq(Puts)
  BY DEF TypeInv, ClientTyped
<1>2. p \in Puts /\ q \in Puts /\ puts' = Append(puts, p) /\ puts' = Append(puts, q)
  BY DEF Written
<1>3. Append(puts, p)[Len(puts) + 1] = p
  BY ONLY <1>1, <1>2, LastAppended
<1>4. Append(puts, q)[Len(puts) + 1] = q
  BY ONLY <1>1, <1>2, LastAppended
<1> QED
  BY ONLY <1>2, <1>3, <1>4

LEMMA MadeIs ==
  ASSUME TypeInv, NEW p, Made(p),
         NEW path, NEW uid \in Users, NEW day, NEW value, Put(path, uid, day, value),
         \/ path = "diary" /\ day \in Days /\ value \in Nat
         \/ path = "Users" /\ day = None /\ value \in Users \cup {None}
  PROVE  p.path = path /\ p.uid = uid /\ p.value = value /\ p.own = (uid = currentUser /\ Announced)
<1>1. PICK q : /\ Written(q)
               /\ q.path = path /\ q.uid = uid /\ q.day = day /\ q.value = value
               /\ q.session = session /\ q.own = (uid = currentUser /\ Announced)
  BY Writes
<1>2. p = q
  BY <1>1, OneWrite DEF Made
<1> QED
  BY <1>1, <1>2

\* The steps that write.
LEMMA WhoWrites ==
  ASSUME TypeInv, TypeInv', [Next]_vars, NEW p, Made(p)
  PROVE  \/ SaveButtonClicked \/ SaveOnCalendarDiary
         \/ MainQueue /\ Head(main).kind \in {"createUser", "delete"}
<1>1. Len(puts') = Len(puts) + 1 /\ Len(puts) \in Nat /\ puts' # puts
  BY Elements DEF Made, Written, TypeInv, ClientTyped
<1>2. ~(UNCHANGED vars)
  BY <1>1 DEF vars, clientVars
<1>3. CASE User
  <2>1. CASE \E g \in Goes : ButtonClicked(g[1], g[2])
    BY <1>1, <2>1 DEF ButtonClicked
  <2>2. CASE Back \/ LogoutClicked
    BY <1>1, <2>2 DEF Back, LogoutClicked, clientVars
  <2>3. CASE LoginButtonClick \/ RegisterButtonClick \/ DeleteUserClicked
    BY <1>1, <2>3 DEF LoginButtonClick, RegisterButtonClick, DeleteUserClicked, Call, clientVars
  <2> QED
    BY <1>3, <2>1, <2>2, <2>3 DEF User
<1>4. CASE Services
  BY <1>1, <1>4 DEF Services, CallSucceeds, CallFails, AnalysisAnswered, AnalysisFails, Midnight, clientVars
<1>5. CASE Retry \/ TokenIsLookedUp \/ TokenIsRefreshed \/ OnReady \/ ConnectionLost \/ ReadTimesOut
  BY <1>1, <1>5 DEF Retry, TokenIsLookedUp, TokenIsRefreshed, OnReady, ConnectionLost, Disconnect, ReadTimesOut
<1>6. CASE ServeAuth \/ ServeGet
  BY <1>1, <1>6 DEF ServeAuth, ServeGet
<1>7. CASE ServePut
  <2>1. PICK i \in DOMAIN puts : puts' = RemoveAt(puts, i)
    BY <1>7 DEF ServePut
  <2>2. i \in 1..Len(puts) /\ puts \in Seq(Puts)
    BY <2>1 DEF TypeInv, ClientTyped
  <2>3. Len(puts') = Len(puts) - 1
    BY <2>1, <2>2, Removed
  <2> QED
    BY <1>1, <2>3
<1>8. CASE Die
  <2>1. Len(puts') = 0
    BY <1>8 DEF Die
  <2> QED
    BY <1>1, <2>1
<1>9. CASE Launch
  BY <1>1, <1>9 DEF Launch
<1>10. CASE MainQueue
  <2>1. main # <<>> /\ Head(main) \in Blocks
    BY <1>10, NextBlock DEF MainQueue
  <2>2. CASE Head(main).kind = "token"
    BY <1>1, <1>10, <2>2 DEF MainQueue, TokenArrives
  <2>3. CASE Head(main).kind = "notify"
    BY <1>1, <1>10, <2>3 DEF MainQueue, RefreshAuthToken
  <2>4. CASE Head(main).kind = "signIn"
    BY <1>1, <1>10, <2>4, DoneBlock DEF SignedIn, Done
  <2> QED
    BY <1>10, <2>1, <2>2, <2>3, <2>4 DEF Blocks, Done
<1> QED
  BY <1>2, <1>3, <1>4, <1>5, <1>6, <1>7, <1>8, <1>9, <1>10 DEF Next, Client, Server

LEMMA NewFits ==
  ASSUME TypeInv, TypeInv', Honest, [Next]_vars, NEW p, Made(p) PROVE OthersFit(p)'
<1>1. CASE SaveButtonClicked \/ SaveOnCalendarDiary
  <2>1. up = "running" /\ Top.kind \in {"plus", "diary"} /\ UNCHANGED <<strayed, hurried>>
    BY <1>1 DEF SaveButtonClicked, SaveOnCalendarDiary, InFront
  <2> SUFFICES ASSUME ~strayed, ~hurried PROVE p.own
    BY <2>1 DEF OthersFit
  <2>2. Top.uid = currentUser /\ currentUser \in Users /\ Announced
    BY <2>1, QuietScreen DEF Honest
  <2>3. PICK d : Put("diary", currentUser, d, used.save + 1) /\ d \in Days
    <3>1. CASE SaveButtonClicked
      <4>1. Top.uid # NoUser
        BY <2>2, SessionAssumption
      <4> QED
        BY <2>2, <3>1, <4>1 DEF SaveButtonClicked, TypeInv, AppTyped
    <3>2. CASE SaveOnCalendarDiary
      <4>1. PICK n : n = Len(stack)
        OBVIOUS
      <4>2. n \in 1..Len(stack) /\ Top = stack[n] /\ Top.kind = "diary"
        BY <2>1, <3>2, <4>1, TopFits DEF SaveOnCalendarDiary, InFront
      <4>3. Top.about \in 1..today /\ today \in Days /\ LastDay \in Nat
        BY <4>2, SessionAssumption DEF TypeInv, AppTyped, ScreensFit
      <4>4. Top.about \in Days
        BY <4>3 DEF Days
      <4> QED
        BY <2>2, <3>2, <4>4 DEF SaveOnCalendarDiary
    <3> QED
      BY <1>1, <3>1, <3>2
  <2>4. PICK u, v : u = currentUser /\ v = used.save + 1
    OBVIOUS
  <2>5. u \in Users /\ v \in Nat /\ Put("diary", u, d, v)
    BY <2>2, <2>3, <2>4, Counters
  <2>6. p.own = (u = currentUser /\ Announced)
    BY <2>3, <2>5, MadeIs
  <2> QED
    BY <2>2, <2>4, <2>6
<1>2. CASE MainQueue /\ Head(main).kind = "createUser"
  <2>1. /\ up = "running" /\ Registered(Head(main)) /\ UNCHANGED <<strayed, hurried>>
        /\ main # <<>> /\ Head(main).kind \in Done
    BY <1>2, DoneBlock DEF Done
  <2> SUFFICES ASSUME ~strayed, ~hurried PROVE p.own
    BY <2>1 DEF OthersFit
  <2>2. DoneFits(1) /\ main[1] = Head(main)
    BY <1>2, <2>1, OneDone DEF Honest
  <2>3. \A j \in 1..Len(main) : main[j].kind = "notify" => j < 1
    BY <1>2, <2>2 DEF DoneFits
  <2>4. Announced
    <3>1. ASSUME NEW j \in 1..Len(main), main[j].kind = "notify" PROVE FALSE
      <4>1. j < 1
        BY <2>3, <3>1
      <4> QED
        BY <4>1
    <3> QED
      BY <3>1, AnnouncedIs
  <2>5. currentUser # NoUser
    <3>1. puts' # puts
      <4>1. Len(puts') = Len(puts) + 1 /\ Len(puts) \in Nat
        BY Elements DEF Made, Written, TypeInv, ClientTyped
      <4> QED
        BY <4>1
    <3> QED
      BY <2>1, <3>1 DEF Registered
  <2>6. PICK u : u = currentUser
    OBVIOUS
  <2>7. u \in Users /\ Put("Users", u, None, u)
    BY <2>1, <2>5, <2>6 DEF Registered, TypeInv, AppTyped, Uids
  <2>8. p.own = (u = currentUser /\ Announced)
    BY <2>7, MadeIs
  <2> QED
    BY <2>4, <2>6, <2>8
<1>3. CASE MainQueue /\ Head(main).kind = "delete"
  <2>1. Deleted(Head(main)) /\ Head(main).user \in Users
    BY <1>3, DoneBlock DEF Done
  <2>2. PICK u : u = Head(main).user
    OBVIOUS
  <2>3. u \in Users /\ Put("Users", u, None, None)
    BY <2>1, <2>2 DEF Deleted
  <2>4. p.path = "Users" /\ p.value = None
    BY <2>3, MadeIs
  <2> QED
    BY <2>4 DEF OthersFit
<1> QED
  BY <1>1, <1>2, <1>3, WhoWrites

\* Straying and hurrying are forgotten by a launch only.
LEMMA Unforgotten ==
  ASSUME [Next]_vars, ~Launch PROVE (strayed => strayed') /\ (hurried => hurried')
<1>1. CASE Back
  <2>1. strayed' = (strayed \/ Top.kind = "login" \/ Waiting(Top.id)) /\ hurried' = hurried
    BY <1>1 DEF Back
  <2> QED
    BY <2>1, Zenon
<1>2. ASSUME NEW kind, NEW user, NEW number, Call(kind, user, number)
      PROVE  (strayed => strayed') /\ (hurried => hurried')
  <2>1. strayed' = strayed /\ hurried' = (hurried \/ calls # {} \/ (\E b \in Range(main) : b.kind # "token"))
    BY <1>2 DEF Call
  <2> QED
    BY <2>1, Zenon
<1>3. CASE \E g \in Goes : ButtonClicked(g[1], g[2])
  BY <1>3 DEF ButtonClicked
<1>4. CASE LogoutClicked
  BY <1>4, Zenon DEF LogoutClicked
<1>5. CASE SaveButtonClicked
  BY <1>5, Zenon DEF SaveButtonClicked
<1>6. CASE SaveOnCalendarDiary
  BY <1>6, Zenon DEF SaveOnCalendarDiary
<1>7. CASE LoginButtonClick \/ RegisterButtonClick \/ DeleteUserClicked
  BY <1>2, <1>7 DEF LoginButtonClick, RegisterButtonClick, DeleteUserClicked
<1>8. CASE Services
  BY <1>8 DEF Services, CallSucceeds, CallFails, AnalysisAnswered, AnalysisFails, Midnight
<1>9. CASE Retry \/ TokenIsLookedUp \/ TokenIsRefreshed
  BY <1>9 DEF Retry, TokenIsLookedUp, TokenIsRefreshed
<1>10. CASE OnReady
  BY <1>10, Zenon DEF OnReady
<1>11. CASE ConnectionLost \/ ReadTimesOut
  BY <1>11 DEF ConnectionLost, ReadTimesOut
<1>12. CASE MainQueue
  BY <1>12, Zenon DEF MainQueue
<1>13. CASE Server
  BY <1>13 DEF Server, ServeAuth, ServePut, ServeGet
<1>14. CASE Die \/ UNCHANGED vars
  BY <1>14 DEF Die, vars
<1> QED
  BY <1>1, <1>3, <1>4, <1>5, <1>6, <1>7, <1>8, <1>9, <1>10, <1>11, <1>12, <1>13, <1>14
     DEF Next, User, Client

LEMMA OthersStep ==
  ASSUME TypeInv, TypeInv', Honest, Others, [Next]_vars PROVE Others'
<1> SUFFICES ASSUME NEW p \in Puts, Known(p)' PROVE OthersFit(p)'
  BY DEF Others
<1>1. Known(p) \/ Made(p)
  BY WritesCome
<1>2. CASE Made(p)
  BY <1>2, NewFits
<1>3. CASE Known(p)
  <2>1. OthersFit(p)
    BY <1>3 DEF Others
  <2>2. CASE Die
    BY <2>2 DEF Die, Known
  <2>3. CASE Launch
    BY <2>3 DEF Launch, Known, TypeInv, NothingLeft, WireFits
  <2>4. CASE ~Die /\ ~Launch
    <3>1. (strayed => strayed') /\ (hurried => hurried')
      BY <2>4, Unforgotten
    <3> QED
      BY <2>1, <3>1 DEF OthersFit
  <2> QED
    BY <2>2, <2>3, <2>4
<1> QED
  BY <1>1, <1>2, <1>3

LEMMA RefusalsFollow ==
  TypeInv /\ Owned /\ OwnTaken /\ Others => RefusalsAreExplained
<1> SUFFICES ASSUME TypeInv, Owned, OwnTaken, Others,
                    wire # <<>>, Head(wire).kind = "put", Head(wire).put.uid # cred
             PROVE  IF Head(wire).put.own THEN Head(wire).put.session # session \/ overtaken
                    ELSE \/ strayed \/ hurried
                         \/ (Head(wire).put.path = "Users" /\ Head(wire).put.value = None)
  BY DEF RefusalsAreExplained
<1>1. PICK p : p = Head(wire).put
  OBVIOUS
<1>2. /\ p \in Puts /\ Head(wire) = wire[1] /\ Len(wire) \in Nat \ {0}
      /\ conn \in {"authenticating", "connected"}
  BY <1>1, NextRequest
<1>3. 1 \in 1..Len(wire) /\ wire[1].kind = "put" /\ wire[1].put = p
  BY <1>1, <1>2
<1>4. Known(p)
  BY <1>3 DEF Known
<1>5. conn = "connected"
  BY <1>2, <1>3 DEF TypeInv, WireFits
<1>6. CASE p.own
  <2>1. ASSUME p.session = session, ~overtaken PROVE FALSE
    <3>1. p.uid = currentUser
      BY <1>2, <1>4, <1>6, <2>1 DEF Owned, OwnFits
    <3>2. CredAt(1, currentUser)
      BY <1>3, <1>5, <1>6, <2>1 DEF OwnTaken
    <3>3. PICK m \in 0..(1 - 1) : LastSaid(m, currentUser)
      BY <3>2 DEF CredAt
    <3>4. m = 0
      OBVIOUS
    <3>5. cred = currentUser
      BY <3>3, <3>4 DEF LastSaid
    <3> QED
      BY <1>1, <3>1, <3>5
  <2> QED
    BY <1>1, <1>6, <2>1
<1>7. CASE ~p.own
  <2>1. OthersFit(p)
    BY <1>2, <1>4 DEF Others
  <2> QED
    BY <1>1, <1>7, <2>1 DEF OthersFit
<1> QED
  BY <1>6, <1>7

\* For any users, screens and failures: a write of the current user of its moment,
\* made when the client had been told of that user, is refused only when the session
\* has changed or a late token overtook a newer one; others only of those who strayed
\* or made two calls at once, and the one that ends a deleted account's record.
THEOREM RefusalsHaveReasons == Spec => []RefusalsAreExplained
<1> DEFINE I == TypeInv /\ OneToken /\ TokenInv /\ TokenSent /\ Owned /\ OwnTaken /\ Honest /\ Others
<1>1. Init => I
  <2> SUFFICES ASSUME Init PROVE I
    OBVIOUS
  <2>1. TypeInv /\ Launched
    BY InitTypes, InitLaunches
  <2>2. /\ main = <<>> /\ session = 1 /\ puts = <<>> /\ wire = <<>> /\ conn \in {"idle", "disconnected"}
        /\ authToken = [user |-> NoUser, session |-> 0] /\ fetch = None
    BY DEF Init
  <2>3. OneToken /\ SessionsFit
    BY <2>2 DEF OneToken, SessionsFit
  <2>4. Announced
    BY <2>1, <2>2, AnnouncedIs
  <2>5. NotesFit /\ TokenIsNew /\ TokenSent
    BY <2>2, <2>4 DEF NotesFit, TokenIsNew, TokenSent, Live
  <2>6. Owned /\ OwnTaken /\ Others
    BY <2>2 DEF Owned, OwnTaken, Others, Known
  <2>7. Honest
    BY <2>1, LaunchedOrderly DEF Honest
  <2> QED
    BY <2>1, <2>3, <2>5, <2>6, <2>7 DEF TokenInv
<1>2. I /\ [Next]_vars => I'
  <2> SUFFICES ASSUME I, [Next]_vars PROVE I'
    OBVIOUS
  <2>1. TypeInv' /\ OneToken' /\ Honest'
    BY TypeInvStep, OneTokenStep, HonestStep
  <2>2. TokenInv' /\ TokenSent'
    BY <2>1, TokenInvStep, TokenSentStep
  <2>3. Owned' /\ OwnTaken' /\ Others'
    BY <2>1, OwnedStep, OwnTakenStep, OthersStep
  <2> QED
    BY <2>1, <2>2, <2>3
<1>3. I => RefusalsAreExplained
  BY RefusalsFollow
<1> HIDE DEF I
<1> QED
  BY <1>1, <1>2, <1>3, PTL DEF Spec


-----------------------------------------------------------------------------
(* Why the app stops                                                       *)

\* A day that has a diary keeps one.
LEMMA DiariesStay ==
  ASSUME TypeInv, [Next]_vars, NEW u \in Users, NEW d \in Days, diaries[u][d] # None
  PROVE  diaries'[u][d] # None
<1>1. CASE ServePut
  <2>1. PICK p : p = Head(wire).put
    OBVIOUS
  <2>2. p \in Puts
    BY <1>1, <2>1, NextRequest DEF ServePut
  <2>3. p.path = "diary" => p.uid \in Users /\ p.day \in Days /\ p.value \in Nat
    BY <2>2 DEF Puts
  <2>4. diaries' = IF cred = p.uid /\ p.path = "diary"
                   THEN [diaries EXCEPT ![p.uid][p.day] = p.value] ELSE diaries
    BY <1>1, <2>1 DEF ServePut
  <2>5. diaries \in [Users -> [Days -> Nat \cup {None}]]
    BY DEF TypeInv, ServerTyped
  <2>6. CASE cred = p.uid /\ p.path = "diary"
    <3>1. p.value # None
      BY <2>3, <2>6, SessionAssumption
    <3> QED
      BY <2>3, <2>4, <2>5, <2>6, <3>1
  <2> QED
    BY <2>4, <2>6
<1>2. CASE ~ServePut
  <2>1. diaries' = diaries
    <3>1. CASE \E g \in Goes : ButtonClicked(g[1], g[2])
      BY <3>1 DEF ButtonClicked, serverVars
    <3>2. CASE Back \/ LogoutClicked \/ SaveButtonClicked \/ SaveOnCalendarDiary
      BY <3>2 DEF Back, LogoutClicked, SaveButtonClicked, SaveOnCalendarDiary, serverVars
    <3>3. CASE LoginButtonClick \/ RegisterButtonClick \/ DeleteUserClicked
      BY <3>3 DEF LoginButtonClick, RegisterButtonClick, DeleteUserClicked, Call, serverVars
    <3>4. CASE Services
      BY <3>4 DEF Services, CallSucceeds, CallFails, AnalysisAnswered, AnalysisFails, Midnight, serverVars
    <3>5. CASE Client
      BY <3>5 DEF Client, Retry, TokenIsLookedUp, TokenIsRefreshed, OnReady, ConnectionLost, ReadTimesOut,
                  MainQueue, serverVars
    <3>6. CASE ServeAuth \/ ServeGet
      BY <3>6 DEF ServeAuth, ServeGet, serverVars
    <3>7. CASE Die \/ Launch \/ UNCHANGED vars
      BY <3>7 DEF Die, Launch, vars, serverVars
    <3> QED
      BY <1>2, <3>1, <3>2, <3>3, <3>4, <3>5, <3>6, <3>7 DEF Next, User, Server
  <2> QED
    BY <2>1
<1> QED
  BY <1>1, <1>2

\* The number of a user's diaries never falls.
LEMMA UsageGrows ==
  ASSUME TypeInv, [Next]_vars, NEW u \in Users
  PROVE  DiaryUsage(u) \in Nat /\ DiaryUsage(u)' \in Nat /\ DiaryUsage(u) <= DiaryUsage(u)'
<1>1. DaysWithDiary(u) \subseteq DaysWithDiary(u)'
  BY DiariesStay DEF DaysWithDiary
<1>2. DaysWithDiary(u)' \subseteq Days
  BY DEF DaysWithDiary
<1>3. LastDay \in Int /\ 1 \in Int
  BY SessionAssumption
<1>4. IsFiniteSet(Days)
  BY <1>3, FS_Interval DEF Days
<1>5. IsFiniteSet(DaysWithDiary(u)')
  BY <1>2, <1>4, FS_Subset
<1>6. IsFiniteSet(DaysWithDiary(u)) /\ Cardinality(DaysWithDiary(u)) <= Cardinality(DaysWithDiary(u)')
  BY <1>1, <1>5, FS_Subset
<1>7. Cardinality(DaysWithDiary(u)) \in Nat /\ Cardinality(DaysWithDiary(u)') \in Nat
  BY <1>5, <1>6, FS_CardinalityType
<1> QED
  BY <1>6, <1>7 DEF DiaryUsage

\* A user has more diaries than setTreeLevel knows levels for.
BeyondLevels == \E u \in Users : DiaryUsage(u) > MostDiaries

LEMMA BeyondStays == ASSUME TypeInv, [Next]_vars, BeyondLevels PROVE BeyondLevels'
<1>1. PICK u \in Users : DiaryUsage(u) > MostDiaries
  BY DEF BeyondLevels
<1>2. DiaryUsage(u) \in Nat /\ DiaryUsage(u)' \in Nat /\ DiaryUsage(u) <= DiaryUsage(u)'
  BY UsageGrows
<1>3. DiaryUsage(u)' > MostDiaries
  BY <1>1, <1>2, SessionAssumption
<1> QED
  BY <1>3 DEF BeyondLevels

\* The address of the analysis is a fact of the build.
LEMMA AddressStays == ASSUME [Next]_vars PROVE address' = address
<1>1. CASE \E g \in Goes : ButtonClicked(g[1], g[2])
  BY <1>1 DEF ButtonClicked
<1>2. CASE Back \/ LogoutClicked \/ SaveButtonClicked \/ SaveOnCalendarDiary
  BY <1>2 DEF Back, LogoutClicked, SaveButtonClicked, SaveOnCalendarDiary
<1>3. CASE LoginButtonClick \/ RegisterButtonClick \/ DeleteUserClicked
  BY <1>3 DEF LoginButtonClick, RegisterButtonClick, DeleteUserClicked, Call
<1>4. CASE Services
  BY <1>4 DEF Services, CallSucceeds, CallFails, AnalysisAnswered, AnalysisFails, Midnight
<1>5. CASE Client
  BY <1>5 DEF Client, Retry, TokenIsLookedUp, TokenIsRefreshed, OnReady, ConnectionLost, ReadTimesOut, MainQueue
<1>6. CASE Server
  BY <1>6 DEF Server, ServeAuth, ServePut, ServeGet
<1>7. CASE Die \/ Launch \/ UNCHANGED vars
  BY <1>7 DEF Die, Launch, vars
<1> QED
  BY <1>1, <1>2, <1>3, <1>4, <1>5, <1>6, <1>7 DEF Next, User

\* What a step that stops the app leaves as the cause.
Stopped ==
  /\ up = "running"
  /\ \/ cause' \in {"no user", "index", "answer"}
     \/ cause' = "address" /\ ~address
     \/ cause' = "level" /\ BeyondLevels

LEMMA LoadsStop ==
  ASSUME NEW s, Loads(s), up = "running"
  PROVE  /\ cause' = cause \/ (Stopped /\ cause' = "no user")
         /\ s.kind \in {"login", "register", "plus"} \/ s.uid # NoUser => cause' = cause
BY DEF Loads, Trap, NoTrap, Stopped

LEMMA MainQueueStops ==
  ASSUME TypeInv, MainQueue
  PROVE  cause' = cause \/ (Stopped /\ Head(main).kind \in {"signIn", "createUser"})
<1>1. CASE Head(main).kind \in {"token", "notify"}
  BY <1>1 DEF MainQueue, NoTrap
<1>2. CASE Head(main).kind = "signIn"
  <2>1. SignedIn(Head(main)) /\ up = "running"
    BY <1>2, DoneBlock DEF Done
  <2>2. cause' = cause \/ Loads(Screen("home", FreshId))
    BY <2>1 DEF SignedIn, NoTrap, Push
  <2> QED
    BY <1>2, <2>1, <2>2, LoadsStop
<1>3. CASE Head(main).kind = "createUser"
  <2>1. Registered(Head(main)) /\ up = "running"
    BY <1>3, DoneBlock DEF Done
  <2>2. cause' = cause \/ Loads(Screen("home", FreshId))
    BY <2>1 DEF Registered, NoTrap
  <2> QED
    BY <1>3, <2>1, <2>2, LoadsStop
<1>4. CASE Head(main).kind = "delete"
  <2>1. Deleted(Head(main))
    BY <1>4, DoneBlock DEF Done
  <2> QED
    BY <2>1 DEF Deleted, NoTrap
<1>5. Head(main).kind \in {"token", "notify"} \cup Done
  <2>1. Head(main) \in Blocks
    BY NextBlock DEF MainQueue
  <2> QED
    BY <2>1 DEF Blocks
<1> QED
  BY <1>1, <1>2, <1>3, <1>4, <1>5 DEF Done

LEMMA ServeGetStops ==
  ASSUME TypeInv, ServeGet
  PROVE  cause' = cause \/ (Stopped /\ cause' = "level")
<1>1. PICK i \in 1..Len(reads) : ReadAnswered(reads[i])
  <2>1. DOMAIN reads = 1..Len(reads)
    BY DEF TypeInv, ClientTyped
  <2> QED
    BY <2>1 DEF ServeGet
<1>2. PICK r : r = reads[i]
  OBVIOUS
<1>3. ReadAnswered(r) /\ r.uid \in Users /\ up = "running"
  BY <1>1, <1>2, Elements DEF ReadSet, ServeGet
<1>4. cause' = cause \/ (cause' = "level" /\ DiaryUsage(r.uid) > MostDiaries)
  BY <1>3 DEF ReadAnswered, NoTrap, Trap
<1> QED
  BY <1>3, <1>4 DEF Stopped, BeyondLevels

\* The steps that stop the app.
LEMMA WhoStops ==
  ASSUME TypeInv, [Next]_vars, cause' # cause
  PROVE  \/ Launch
         \/ /\ Stopped
            /\ \/ cause' # "no user"
               \/ (\E g \in Goes : ButtonClicked(g[1], g[2])) \/ SaveButtonClicked
               \/ \E p \in posts : AnalysisAnswered(p)
               \/ MainQueue /\ Head(main).kind \in {"signIn", "createUser"}
<1>1. CASE \E g \in Goes : ButtonClicked(g[1], g[2])
  <2>1. PICK g \in Goes : ButtonClicked(g[1], g[2])
    BY <1>1
  <2>2. up = "running" /\ \E s : Loads(s)
    BY <2>1, ButtonAsks DEF ButtonClicked, InFront
  <2> QED
    BY <1>1, <2>2, LoadsStop
<1>2. CASE SaveButtonClicked
  <2>1. up = "running" /\ (cause' \in {cause, "no user"} \/ (cause' = "address" /\ ~address))
    BY <1>2 DEF SaveButtonClicked, InFront, Trap, NoTrap
  <2> QED
    BY <1>2, <2>1 DEF Stopped
<1>3. CASE Back \/ LogoutClicked \/ SaveOnCalendarDiary
  BY <1>3 DEF Back, LogoutClicked, SaveOnCalendarDiary
<1>4. CASE LoginButtonClick \/ RegisterButtonClick \/ DeleteUserClicked
  BY <1>4 DEF LoginButtonClick, RegisterButtonClick, DeleteUserClicked, Call
<1>5. CASE \E p \in posts : AnalysisAnswered(p)
  <2>1. PICK p \in posts : AnalysisAnswered(p)
    BY <1>5
  <2>2. up = "running" /\ (cause' \in {cause, "index"} \/ \E s : Loads(s))
    BY <2>1 DEF AnalysisAnswered, Push, NoTrap, Trap
  <2> QED
    BY <1>5, <2>2, LoadsStop DEF Stopped
<1>6. CASE \E p \in posts : AnalysisFails(p)
  BY <1>6 DEF AnalysisFails, NoTrap, Trap, Stopped
<1>7. CASE Midnight \/ \E c \in calls : CallSucceeds(c) \/ CallFails(c)
  BY <1>7 DEF Midnight, CallSucceeds, CallFails
<1>8. CASE Retry \/ TokenIsLookedUp \/ TokenIsRefreshed \/ OnReady \/ ConnectionLost \/ ReadTimesOut
  BY <1>8 DEF Retry, TokenIsLookedUp, TokenIsRefreshed, OnReady, ConnectionLost, ReadTimesOut
<1>9. CASE MainQueue
  BY <1>9, MainQueueStops
<1>10. CASE ServeGet
  BY <1>10, ServeGetStops
<1>11. CASE ServeAuth \/ ServePut
  BY <1>11 DEF ServeAuth, ServePut
<1>12. CASE Die \/ UNCHANGED vars
  BY <1>12 DEF Die, vars
<1> QED
  BY <1>1, <1>2, <1>3, <1>4, <1>5, <1>6, <1>7, <1>8, <1>9, <1>10, <1>11, <1>12
     DEF Next, User, Services, Client, Server

\* Users who wait for their calls are never without a uid where one is unwrapped.
LEMMA OrderlyNeverMissesUser ==
  ASSUME TypeInv, up = "running", Orderly, [Next]_vars, cause' # cause PROVE cause' # "no user"
<1>1. SUFFICES ASSUME cause' = "no user" PROVE FALSE
  OBVIOUS
<1>2. \/ (\E g \in Goes : ButtonClicked(g[1], g[2])) \/ SaveButtonClicked
      \/ \E p \in posts : AnalysisAnswered(p)
      \/ MainQueue /\ Head(main).kind \in {"signIn", "createUser"}
  <2>1. ~Launch
    BY DEF Launch
  <2> QED
    BY <1>1, <2>1, WhoStops
<1>3. NoUser \notin Users
  BY SessionAssumption
<1>4. CASE \E g \in Goes : ButtonClicked(g[1], g[2])
  <2>1. PICK g \in Goes : ButtonClicked(g[1], g[2])
    BY <1>4
  <2>2. PICK s : Loads(s) /\ s.kind = g[2] /\ s.uid = IF s.kind = "register" THEN NoUser ELSE currentUser
    BY <2>1, ButtonAsks
  <2>3. Top.kind = g[1] /\ (g[2] = "register" \/ g[1] \in {"home", "calendar"})
    BY <2>1 DEF ButtonClicked, InFront, Goes
  <2>4. CASE g[2] = "register"
    BY <2>2, <2>4, LoadsStop
  <2>5. CASE g[2] # "register"
    <3>1. currentUser \in Users
      BY <2>3, <2>5, QuietScreen
    <3> QED
      BY <1>3, <2>2, <2>5, <3>1, LoadsStop
  <2> QED
    BY <2>4, <2>5
<1>5. CASE SaveButtonClicked
  <2>1. PICK n : n = Len(stack)
    OBVIOUS
  <2>2. n \in 1..n /\ Top = stack[n] /\ Top.kind = "plus"
    <3>1. Top.kind = "plus"
      BY <1>5 DEF SaveButtonClicked, InFront
    <3>2. n \in Nat \ {0} /\ Top = stack[n]
      BY <2>1, TopFits
    <3> QED
      BY <3>1, <3>2
  <2>3. Top.uid \in Users
    BY <2>1, <2>2 DEF Orderly, PlusesFit
  <2>4. Top.uid # NoUser
    BY <1>3, <2>3
  <2>5. NoTrap \/ Trap("address")
    BY <1>5, <2>4, Zenon DEF SaveButtonClicked
  <2>6. cause' = cause \/ cause' = "address"
    BY <2>5 DEF NoTrap, Trap
  <2> QED
    BY <1>1, <2>6
<1>6. CASE \E p \in posts : AnalysisAnswered(p)
  <2>1. PICK p \in posts : AnalysisAnswered(p)
    BY <1>6
  <2>2. OnStack(p.id) /\ Push(Image(p))
    BY <1>1, <2>1 DEF AnalysisAnswered, NoTrap, Trap
  <2>3. PICK s : s = Image(p)
    OBVIOUS
  <2>4. Loads(s) /\ stack' = Append(stack, s)
    BY <2>2, <2>3 DEF Push
  <2>5. s.uid = currentUser
    BY <2>3, <2>4, ImageComes
  <2>6. currentUser \in Users
    BY <2>2, SavedAbove, QuietScreen
  <2> QED
    BY <1>3, <2>4, <2>5, <2>6, LoadsStop
<1>7. CASE MainQueue /\ Head(main).kind \in {"signIn", "createUser"}
  <2>1. PICK b : b = Head(main)
    OBVIOUS
  <2>2. b.user \in Users /\ b.kind # "delete" /\ (SignedIn(b) \/ Registered(b))
    BY <1>7, <2>1, DoneBlock DEF Done
  <2>3. currentUser = b.user
    BY <1>7, <2>1, <2>2, OneDone DEF Done, DoneFits
  <2>4. PICK s : s = Screen("home", FreshId)
    OBVIOUS
  <2>5. Loads(s) /\ stack' = Append(stack, s)
    BY <2>2, <2>4 DEF SignedIn, Registered, NoTrap, Push
  <2>6. s.uid = currentUser
    BY <2>4, <2>5, PlainComes DEF Kinds
  <2> QED
    BY <1>3, <2>2, <2>3, <2>5, <2>6, LoadsStop
<1> QED
  BY <1>2, <1>4, <1>5, <1>6, <1>7

LEMMA TrapsStep ==
  ASSUME TypeInv, Honest, TrapsAreExplained, [Next]_vars PROVE TrapsAreExplained'
<1>1. address' = address
  BY AddressStays
<1>2. BeyondLevels => BeyondLevels'
  BY BeyondStays
<1>3. CASE Launch
  <2>1. cause' = None
    BY <1>3 DEF Launch
  <2>2. None \notin {"no user", "level", "address"}
    BY CauseAssumption DEF Causes
  <2> QED
    BY <2>1, <2>2 DEF TrapsAreExplained
<1>4. CASE ~Launch
  <2>1. (strayed => strayed') /\ (hurried => hurried')
    BY <1>4, Unforgotten
  <2>2. cause' # cause => Stopped
    BY <1>4, WhoStops
  <2>3. cause' = "no user" => strayed' \/ hurried'
    <3>1. CASE cause' = cause
      BY <2>1, <3>1 DEF TrapsAreExplained
    <3>2. CASE cause' # cause
      <4>1. up = "running"
        BY <2>2, <3>2 DEF Stopped
      <4>2. Orderly => cause' # "no user"
        BY <3>2, <4>1, OrderlyNeverMissesUser
      <4> QED
        BY <2>1, <4>1, <4>2 DEF Honest
    <3> QED
      BY <3>1, <3>2
  <2>4. cause' = "level" => BeyondLevels'
    BY <1>2, <2>2 DEF TrapsAreExplained, Stopped, BeyondLevels
  <2>5. cause' = "address" => ~address'
    BY <1>1, <2>2 DEF TrapsAreExplained, Stopped
  <2> QED
    BY <2>3, <2>4, <2>5 DEF TrapsAreExplained, BeyondLevels
<1> QED
  BY <1>3, <1>4

\* For any users, screens, failures and launches: a uid that is nil is only unwrapped
\* for users who went back from the login screen or made two calls at once, a level
\* that is nil only beyond the last bound of setTreeLevel, and the address of the
\* analysis only where the build has none.
THEOREM TrapsHaveReasons == Spec => []TrapsAreExplained
<1> DEFINE I == TypeInv /\ OneToken /\ Honest /\ TrapsAreExplained
<1>1. Init => I
  <2> SUFFICES ASSUME Init PROVE I
    OBVIOUS
  <2>1. TypeInv /\ Launched
    BY InitTypes, InitLaunches
  <2>2. OneToken
    BY DEF Init, OneToken
  <2>3. Honest
    BY <2>1, LaunchedOrderly DEF Honest
  <2>4. cause = None
    BY DEF Init
  <2>5. None \notin {"no user", "level", "address"}
    BY CauseAssumption DEF Causes
  <2> QED
    BY <2>1, <2>2, <2>3, <2>4, <2>5 DEF TrapsAreExplained
<1>2. I /\ [Next]_vars => I'
  <2> SUFFICES ASSUME I, [Next]_vars PROVE I'
    OBVIOUS
  <2>1. TypeInv' /\ OneToken'
    BY TypeInvStep, OneTokenStep
  <2>2. Honest' /\ TrapsAreExplained'
    BY <2>1, HonestStep, TrapsStep
  <2> QED
    BY <2>1, <2>2
<1>3. I => TrapsAreExplained
  OBVIOUS
<1> HIDE DEF I
<1> QED
  BY <1>1, <1>2, <1>3, PTL DEF Spec

-----------------------------------------------------------------------------
(* What a diary leaves the queue for                                       *)

\* A write leaves the queue when the server deals with it, or with the process.
LEMMA PutsLeave ==
  ASSUME TypeInv, [Next]_vars, NEW k \in 1..Len(puts), puts[k] \notin Range(puts')
  PROVE  \/ ServePut /\ Head(wire).put = puts[k]
         \/ up' = "dead"
<1>0. /\ puts \in Seq(Puts) /\ Len(puts) \in Nat
      /\ puts' # puts
  <2>1. puts[k] \in Range(puts)
    BY DEF Range, TypeInv, ClientTyped
  <2> QED
    BY <2>1 DEF TypeInv, ClientTyped
<1>1. ~Asks
  <2> SUFFICES ASSUME Asks PROVE FALSE
    OBVIOUS
  <2>1. PICK p : Made(p)
    BY <1>0 DEF Asks
  <2>2. p \in Puts /\ puts' = Append(puts, p)
    BY <2>1 DEF Made, Written
  <2>3. puts'[k] = puts[k] /\ k \in DOMAIN puts'
    BY <1>0, <2>2
  <2> QED
    BY <2>3 DEF Range
<1>2. ~(User \/ Services \/ (MainQueue /\ Head(main).kind \in Done))
  BY <1>1, AppAsks
<1>3. ~(MainQueue /\ Head(main).kind \notin Done)
  <2>1. MainQueue => main # <<>>
    BY DEF MainQueue
  <2>2. MainQueue /\ Head(main).kind \notin Done => Head(main).kind \in {"token", "notify"}
    BY <2>1, NextBlock DEF Blocks
  <2> QED
    BY <1>0, <2>2 DEF MainQueue, TokenArrives, RefreshAuthToken
<1>4. ~(Retry \/ TokenIsLookedUp \/ TokenIsRefreshed \/ OnReady \/ ConnectionLost \/ ReadTimesOut)
  BY <1>0 DEF Retry, TokenIsLookedUp, TokenIsRefreshed, OnReady, ConnectionLost, Disconnect, ReadTimesOut
<1>5. ~(ServeAuth \/ ServeGet)
  BY <1>0 DEF ServeAuth, ServeGet
<1>6. ~(Launch \/ UNCHANGED vars)
  BY <1>0 DEF Launch, vars, clientVars
<1>7. ASSUME ServePut PROVE Head(wire).put = puts[k]
  <2>1. PICK i \in 1..Len(puts) : puts[i] = Head(wire).put /\ puts' = RemoveAt(puts, i)
    BY <1>0, <1>7 DEF ServePut
  <2>2. /\ puts' \in Seq(Puts) /\ Len(puts') = Len(puts) - 1
        /\ \A j \in 1..Len(puts') : puts'[j] = IF j < i THEN puts[j] ELSE puts[j + 1]
    BY <1>0, <2>1, Removed
  <2>3. ASSUME k < i PROVE FALSE
    <3>1. k \in 1..Len(puts') /\ puts'[k] = puts[k]
      BY <1>0, <2>2, <2>3
    <3> QED
      BY <2>2, <3>1 DEF Range
  <2>4. ASSUME k > i PROVE FALSE
    <3>1. k - 1 \in 1..Len(puts') /\ puts'[k - 1] = puts[k]
      BY <1>0, <2>2, <2>4
    <3> QED
      BY <2>2, <3>1 DEF Range
  <2> QED
    BY <2>1, <2>3, <2>4
<1>8. CASE Die
  BY <1>8 DEF Die
<1> QED
  BY <1>2, <1>3, <1>4, <1>5, <1>6, <1>7, <1>8 DEF Next, Client, Server

LEMMA DiariesLeave ==
  ASSUME TypeInv, [Next]_vars, NEW p \in Range(puts), p.path = "diary", p \notin Range(puts')
  PROVE  \/ diaries'[p.uid][p.day] = p.value
         \/ cred # p.uid /\ wire # <<>> /\ Head(wire) = PutRequest(p)
         \/ up' = "dead"
<1>1. PICK k \in 1..Len(puts) : p = puts[k]
  BY DEF Range, TypeInv, ClientTyped
<1>2. SUFFICES ASSUME ServePut, Head(wire).put = p
               PROVE  \/ diaries'[p.uid][p.day] = p.value
                      \/ cred # p.uid /\ wire # <<>> /\ Head(wire) = PutRequest(p)
  BY <1>1, PutsLeave
<1>3. p \in Puts /\ wire # <<>> /\ Head(wire).kind = "put" /\ Head(wire) \in Requests
  BY <1>1, <1>2, Elements, NextRequest DEF ServePut
<1>4. p.uid \in Users /\ p.day \in Days
  BY <1>3 DEF Puts
<1>5. Head(wire) = PutRequest(p)
  BY <1>2, <1>3 DEF Requests, PutRequest
<1>6. CASE cred = p.uid
  <2>1. diaries' = [diaries EXCEPT ![p.uid][p.day] = p.value]
    BY <1>2, <1>6 DEF ServePut
  <2>2. diaries \in [Users -> [Days -> Nat \cup {None}]]
    BY DEF TypeInv, ServerTyped
  <2> QED
    BY <1>4, <2>1, <2>2
<1> QED
  BY <1>3, <1>5, <1>6

\* For any users, failures and launches: a diary leaves the queue of writes only
\* when the database has it, when it was refused, or with the process.
THEOREM DiariesAreNotDropped == Spec => DiariesLeaveTheQueueStored
<1>1. TypeInv /\ [Next]_vars =>
        [\A p \in Range(puts) : p.path = "diary" /\ p \notin Range(puts') =>
            \/ diaries'[p.uid][p.day] = p.value
            \/ cred # p.uid /\ wire # <<>> /\ Head(wire) = PutRequest(p)
            \/ up' = "dead"]_vars
  BY DiariesLeave
<1>2. Init => TypeInv /\ OneToken
  <2>1. ASSUME Init PROVE OneToken
    <3>1. main = <<>>
      BY <2>1 DEF Init
    <3> QED
      BY <3>1 DEF OneToken
  <2> QED
    BY <2>1, InitTypes
<1>3. TypeInv /\ OneToken /\ [Next]_vars => TypeInv' /\ OneToken'
  BY TypeInvStep, OneTokenStep
<1> QED
  BY <1>1, <1>2, <1>3, PTL DEF Spec, DiariesLeaveTheQueueStored

-----------------------------------------------------------------------------
(* How the stack of screens and the counters change                        *)

\* A screen stays what it is, whatever its read brings.
SameScreen(i) ==
  /\ stack'[i].id = stack[i].id /\ stack'[i].kind = stack[i].kind /\ stack'[i].uid = stack[i].uid
  /\ stack'[i].about = stack[i].about /\ stack'[i].asOf = stack[i].asOf

\* Screens are left, or read.
ScreensRemain ==
  /\ Len(stack') \in Nat /\ Len(stack') <= Len(stack)
  /\ \A i \in 1..Len(stack') : SameScreen(i)
  /\ ServeGet \/ \A i \in 1..Len(stack') : stack'[i] = stack[i]

\* The login screen comes up, and the home screen if there is a user.
LoginComes ==
  /\ Len(stack') \in Nat /\ Len(stack') >= Len(stack)
  /\ \A i \in 1..Len(stack) : stack'[i] = stack[i]
  /\ \A i \in 1..Len(stack') : i > Len(stack) => stack'[i].kind \in {"login", "home"} /\ stack'[i].found = None

\* A screen is pushed.
ScreenComes(s) ==
  /\ Comes(s)
  /\ s.kind = "calendar" => s.asOf = used.save
  /\ s.kind = "image" => \E p \in posts : AnalysisAnswered(p) /\ s.about = p.save /\ s.uid = currentUser

ScreenForms == ScreensRemain \/ LoginComes \/ \E s : ScreenComes(s)

LEMMA SameRemains == ASSUME TypeInv, stack' = stack PROVE ScreensRemain
  BY Elements DEF ScreensRemain, SameScreen

LEMMA PlainScreenComes ==
  ASSUME TypeInv, NEW kind \in {"login", "home"}, stack' = Append(stack, Screen(kind, FreshId))
  PROVE  ScreenForms
<1>1. PICK s : s = Screen(kind, FreshId)
  OBVIOUS
<1>2. stack' = Append(stack, s) /\ kind \in Kinds /\ kind \notin {"diary", "image"}
  BY <1>1 DEF Kinds
<1>3. Comes(s) /\ s.kind = kind
  BY <1>1, <1>2, PlainComes
<1>4. ScreenComes(s)
  BY <1>3 DEF ScreenComes
<1> QED
  BY <1>4 DEF ScreenForms

LEMMA ReadRemains == ASSUME TypeInv, ServeGet PROVE ScreensRemain
<1>1. PICK k \in 1..Len(reads) : ReadAnswered(reads[k])
  <2>1. DOMAIN reads = 1..Len(reads)
    BY DEF TypeInv, ClientTyped
  <2> QED
    BY <2>1 DEF ServeGet
<1>2. PICK r : r = reads[k]
  OBVIOUS
<1>3. r \in ReadSet /\ ReadAnswered(r) /\ up = "running"
  BY <1>1, <1>2, Elements DEF ServeGet
<1>4. \A i \in 1..Len(stack) : stack[i].id = r.id => stack[i].kind = r.for
  BY <1>1, <1>2 DEF TypeInv, IdsFit
<1>5. /\ ScreensStay /\ Len(stack') = Len(stack)
      /\ \A i \in 1..Len(stack) : stack'[i].about = stack[i].about /\ stack'[i].asOf = stack[i].asOf
  BY <1>3, <1>4, AnswerFits
<1>6. \A i \in 1..Len(stack') : SameScreen(i)
  BY <1>5 DEF ScreensStay, SameScreen
<1> QED
  BY <1>5, <1>6 DEF ScreensRemain, ScreensStay

LEMMA LoginScreensCome == ASSUME TypeInv, (MainQueue /\ Head(main).kind = "delete") \/ Launch PROVE ScreenForms
<1>1. CASE MainQueue /\ Head(main).kind = "delete"
  <2>1. Deleted(Head(main)) /\ posts' = posts /\ reads' = reads /\ CallersStay
    BY <1>1, DoneBlock DEF Done, Deleted
  <2>2. CASE OnStack(Head(main).id)
    <3>1. stack' = stack \o LoginScreens(currentUser, FreshId) /\ posts' \subseteq posts
      BY <2>1, <2>2 DEF Deleted
    <3>2. /\ stack' \in Seq(Screens)
          /\ Len(stack') = Len(stack) + Len(LoginScreens(currentUser, FreshId))
          /\ \A i \in 1..Len(stack) : stack'[i] = stack[i]
          /\ \A i \in 1..Len(stack') : i > Len(stack) =>
                stack'[i].kind \in {"login", "home"} /\ stack'[i].found = None
      BY <2>1, <3>1, IdsOfLogin
    <3>3. Len(LoginScreens(currentUser, FreshId)) \in {1, 2}
      <4>1. PICK f : f = FreshId
        OBVIOUS
      <4>2. f \in Nat /\ currentUser \in Uids /\ session \in Nat /\ used.save \in Nat
        BY <4>1, FreshIdIsNew, Counters DEF TypeInv, AppTyped
      <4> QED
        BY <4>1, <4>2, LoginScreensFit
    <3>4. Len(stack') \in Nat /\ Len(stack) \in Nat
      BY <3>2, Elements
    <3> QED
      BY <3>2, <3>3, <3>4 DEF ScreenForms, LoginComes
  <2>3. CASE ~OnStack(Head(main).id)
    <3>1. stack' = stack
      BY <2>1, <2>3 DEF Deleted, TypeInv, AppTyped
    <3> QED
      BY <3>1, SameRemains DEF ScreenForms
  <2> QED
    BY <2>2, <2>3
<1>2. CASE Launch
  <2>1. Launched'
    BY <1>2, LaunchLaunches
  <2>2. Len(stack) = 0
    BY <1>2 DEF Launch, TypeInv, NothingLeft
  <2>3. PICK L : L = stack'
    OBVIOUS
  <2>4. /\ L \in Seq(Screens) /\ Len(L) \in {1, 2}
        /\ L[1].kind = "login" /\ L[1].found = None
        /\ Len(L) = 2 => L[2].kind = "home" /\ L[2].found = None
    BY <2>1, <2>3 DEF Launched, LaunchScreens
  <2>5. \A i \in 1..Len(L) : L[i].kind \in {"login", "home"} /\ L[i].found = None
    BY <2>4
  <2> QED
    BY <2>2, <2>3, <2>4, <2>5 DEF ScreenForms, LoginComes
<1> QED
  BY <1>1, <1>2

LEMMA ScreensStep == ASSUME TypeInv, [Next]_vars PROVE ScreenForms
<1>1. CASE stack' = stack
  BY <1>1, SameRemains DEF ScreenForms
<1>2. CASE \E g \in Goes : ButtonClicked(g[1], g[2])
  <2>1. PICK g \in Goes : ButtonClicked(g[1], g[2])
    BY <1>2
  <2>2. PICK s : Comes(s) /\ s.kind # "image" /\ s.asOf = IF s.kind = "calendar" THEN used.save ELSE 0
    BY <2>1, ButtonAsks
  <2>3. ScreenComes(s)
    BY <2>2 DEF ScreenComes
  <2> QED
    BY <2>3 DEF ScreenForms
<1>3. CASE Back
  <2>1. PICK n : n = Len(stack)
    OBVIOUS
  <2>2. /\ n \in Nat /\ n > 1 /\ Len(stack') = n - 1
        /\ \A i \in 1..Len(stack') : i \in 1..n /\ stack'[i] = stack[i]
    BY <1>3, <2>1 DEF Back, TypeInv, AppTyped
  <2> QED
    BY <2>1, <2>2 DEF ScreenForms, ScreensRemain, SameScreen
<1>4. CASE LogoutClicked
  <2>1. stack' = Append(stack, Screen("login", FreshId))
    BY <1>4 DEF LogoutClicked
  <2> QED
    BY <2>1, PlainScreenComes
<1>5. CASE \E p \in posts : AnalysisAnswered(p)
  <2>1. PICK p \in posts : AnalysisAnswered(p)
    BY <1>5
  <2>2. CASE Push(Image(p))
    <3>1. PICK s : s = Image(p)
      OBVIOUS
    <3>2. stack' = Append(stack, s)
      BY <2>2, <3>1 DEF Push
    <3>3. Comes(s) /\ s.kind = "image" /\ s.about = p.save /\ s.uid = currentUser
      BY <3>1, <3>2, ImageComes
    <3>4. ScreenComes(s)
      BY <2>1, <3>3 DEF ScreenComes
    <3> QED
      BY <3>4 DEF ScreenForms
  <2>3. CASE stack' = stack
    BY <1>1, <2>3
  <2> QED
    BY <2>1, <2>2, <2>3 DEF AnalysisAnswered
<1>6. CASE MainQueue /\ Head(main).kind \in {"signIn", "createUser"}
  <2>1. SignedIn(Head(main)) \/ Registered(Head(main))
    BY <1>6, DoneBlock DEF Done
  <2>2. stack' = stack \/ stack' = Append(stack, Screen("home", FreshId))
    BY <2>1 DEF SignedIn, Registered, Push
  <2> QED
    BY <1>1, <2>2, PlainScreenComes
<1>7. CASE MainQueue /\ Head(main).kind = "delete"
  BY <1>7, LoginScreensCome
<1>8. CASE MainQueue /\ Head(main).kind \notin Done
  <2>1. main # <<>> /\ Head(main).kind \in {"token", "notify"}
    BY <1>8, NextBlock DEF MainQueue, Blocks
  <2>2. stack' = stack
    BY <1>8, <2>1 DEF MainQueue
  <2> QED
    BY <1>1, <2>2
<1>9. CASE ServeGet
  BY <1>9, ReadRemains DEF ScreenForms
<1>10. CASE Die
  <2>1. stack' = <<>>
    BY <1>10 DEF Die
  <2> QED
    BY <2>1, Elements DEF ScreenForms, ScreensRemain
<1>11. CASE Launch
  BY <1>11, LoginScreensCome
<1>12. CASE LoginButtonClick \/ RegisterButtonClick \/ DeleteUserClicked \/ SaveButtonClicked \/ SaveOnCalendarDiary
  BY <1>1, <1>12 DEF LoginButtonClick, RegisterButtonClick, DeleteUserClicked, Call, SaveButtonClicked,
                     SaveOnCalendarDiary
<1>13. CASE Midnight \/ (\E c \in calls : CallSucceeds(c) \/ CallFails(c)) \/ (\E p \in posts : AnalysisFails(p))
  BY <1>1, <1>13 DEF Midnight, CallSucceeds, CallFails, AnalysisFails
<1>14. CASE Retry \/ TokenIsLookedUp \/ TokenIsRefreshed \/ OnReady \/ ConnectionLost \/ ReadTimesOut
  BY <1>1, <1>14 DEF Retry, TokenIsLookedUp, TokenIsRefreshed, OnReady, ConnectionLost, ReadTimesOut
<1>15. CASE ServeAuth \/ ServePut \/ UNCHANGED vars
  BY <1>1, <1>15 DEF ServeAuth, ServePut, vars
<1> QED
  BY <1>2, <1>3, <1>4, <1>5, <1>6, <1>7, <1>8, <1>9, <1>10, <1>11, <1>12, <1>13, <1>14, <1>15
     DEF Next, User, Services, Client, Server, Done

\* Saves are counted; a post carries the number of its save.
Posted ==
  \/ used'.save = used.save /\ posts' \subseteq posts
  \/ used'.save = used.save + 1 /\ posts' = posts
  \/ used'.save = used.save + 1 /\ \E x : x.save = used.save + 1 /\ posts' = posts \cup {x}

LEMMA SavesStep == ASSUME TypeInv, [Next]_vars PROVE used.save \in Nat /\ used'.save \in Nat /\ Posted
<1>0. used.save \in Nat /\ used \in [Events -> Nat] /\ Events = {"call", "push", "back", "save", "midnight", "fault", "death"}
  BY Counters DEF TypeInv, AppTyped, Events
<1>1. ASSUME NEW what \in Events, Spend(what), what # "save" PROVE used'.save = used.save
  BY <1>0, <1>1, Spends
<1>2. Spend("save") => used'.save = used.save + 1
  BY <1>0, Spends
<1>3. Posted
  <2>1. CASE \E g \in Goes : ButtonClicked(g[1], g[2])
    <3>1. Spend("push") /\ posts' = posts
      BY <2>1 DEF ButtonClicked
    <3> QED
      BY <1>0, <1>1, <3>1 DEF Posted
  <2>2. CASE Back \/ LogoutClicked
    <3>1. (Spend("back") \/ Spend("push")) /\ posts' = posts
      BY <2>2 DEF Back, LogoutClicked
    <3> QED
      BY <1>0, <1>1, <3>1 DEF Posted
  <2>3. CASE LoginButtonClick \/ RegisterButtonClick \/ DeleteUserClicked
    <3>1. Spend("call") /\ posts' = posts
      BY <2>3 DEF LoginButtonClick, RegisterButtonClick, DeleteUserClicked, Call
    <3> QED
      BY <1>0, <1>1, <3>1 DEF Posted
  <2>4. CASE SaveButtonClicked
    <3>1. PICK x : x = [id |-> Top.id, save |-> used.save + 1]
      OBVIOUS
    <3>2. Spend("save") /\ (posts' = posts \/ posts' = posts \cup {x})
      BY <2>4, <3>1 DEF SaveButtonClicked
    <3>3. x.save = used.save + 1
      BY <3>1
    <3> QED
      BY <1>2, <3>2, <3>3 DEF Posted
  <2>5. CASE SaveOnCalendarDiary
    <3>1. Spend("save") /\ posts' = posts
      BY <2>5 DEF SaveOnCalendarDiary
    <3> QED
      BY <1>2, <3>1 DEF Posted
  <2>6. CASE \E p \in posts : AnalysisAnswered(p)
    <3>1. (used' = used \/ Spend("fault")) /\ posts' \subseteq posts
      BY <2>6 DEF AnalysisAnswered
    <3> QED
      BY <1>0, <1>1, <3>1 DEF Posted
  <2>7. CASE \E p \in posts : AnalysisFails(p)
    <3>1. Spend("fault") /\ posts' \subseteq posts
      BY <2>7 DEF AnalysisFails
    <3> QED
      BY <1>0, <1>1, <3>1 DEF Posted
  <2>8. CASE Midnight \/ \E c \in calls : CallSucceeds(c) \/ CallFails(c)
    <3>1. (used' = used \/ Spend("fault") \/ Spend("midnight")) /\ posts' = posts
      BY <2>8 DEF Midnight, CallSucceeds, CallFails
    <3> QED
      BY <1>0, <1>1, <3>1 DEF Posted
  <2>9. CASE Client
    <3>1. (used' = used \/ Spend("fault")) /\ posts' = posts
      BY <2>9 DEF Client, Retry, TokenIsLookedUp, TokenIsRefreshed, OnReady, ConnectionLost, ReadTimesOut, MainQueue
    <3> QED
      BY <1>0, <1>1, <3>1 DEF Posted
  <2>10. CASE Server \/ Launch \/ UNCHANGED vars
    BY <2>10 DEF Server, ServeAuth, ServePut, ServeGet, Launch, vars, Posted
  <2>11. CASE Die
    <3>1. (used' = used \/ Spend("death")) /\ posts' \subseteq posts
      BY <2>11 DEF Die
    <3> QED
      BY <1>0, <1>1, <3>1 DEF Posted
  <2> QED
    BY <2>1, <2>2, <2>3, <2>4, <2>5, <2>6, <2>7, <2>8, <2>9, <2>10, <2>11 DEF Next, User, Services
<1> QED
  BY <1>0, <1>3 DEF Posted

-----------------------------------------------------------------------------
(* Results of saves                                                        *)

\* Posts are of different saves; a result answers one that is posted no longer,
\* and no two results the same.
PostsFit ==
  /\ \A p \in posts : p.save \in 1..used.save
  /\ \A p, q \in posts : p.save = q.save => p = q
AboutsFit ==
  /\ \A i \in 1..Len(stack) : stack[i].kind = "image" =>
       stack[i].about \in 1..used.save /\ \A p \in posts : p.save # stack[i].about
  /\ \A i, j \in 1..Len(stack) :
       stack[i].kind = "image" /\ stack[j].kind = "image" /\ stack[i].about = stack[j].about => i = j

\* It is above the writing screen, of its user.
AbovePlus ==
  \A i \in 1..Len(stack) : stack[i].kind = "image" =>
    \E j \in 1..(i - 1) : stack[j].kind = "plus" /\ (stack[j].uid = stack[i].uid \/ hurried \/ strayed)

ResultsFit == PostsFit /\ AboutsFit /\ AbovePlus

LEMMA PostsFitStep == ASSUME TypeInv, PostsFit, [Next]_vars PROVE PostsFit'
<1>1. used.save \in Nat /\ Posted
  BY SavesStep
<1>2. CASE posts' \subseteq posts /\ used'.save >= used.save /\ used'.save \in Nat
  BY <1>1, <1>2 DEF PostsFit
<1>3. CASE used'.save = used.save + 1 /\ \E x : x.save = used.save + 1 /\ posts' = posts \cup {x}
  <2>1. PICK x : x.save = used.save + 1 /\ posts' = posts \cup {x}
    BY <1>3
  <2>2. \A p \in posts : p.save \in 1..used.save /\ p.save # x.save
    BY <1>1, <2>1 DEF PostsFit
  <2> QED
    BY <1>1, <1>3, <2>1, <2>2 DEF PostsFit
<1> QED
  BY <1>1, <1>2, <1>3 DEF Posted

LEMMA ResultsStay ==
  ASSUME TypeInv, PostsFit, AboutsFit, [Next]_vars,
         NEW i \in 1..Len(stack), stack[i].kind = "image"
  PROVE  stack[i].about \in 1..used'.save /\ \A p \in posts' : p.save # stack[i].about
<1>1. used.save \in Nat /\ Posted
  BY SavesStep
<1>2. stack[i].about \in 1..used.save /\ \A p \in posts : p.save # stack[i].about
  BY DEF AboutsFit
<1> QED
  BY <1>1, <1>2 DEF Posted

LEMMA AboutsFitStep == ASSUME TypeInv, PostsFit, AboutsFit, [Next]_vars PROVE AboutsFit'
<1>1. \A i \in 1..Len(stack) : stack[i].kind = "image" =>
         stack[i].about \in 1..used'.save /\ \A p \in posts' : p.save # stack[i].about
  BY ResultsStay
<1>2. \A i, j \in 1..Len(stack) :
         stack[i].kind = "image" /\ stack[j].kind = "image" /\ stack[i].about = stack[j].about => i = j
  BY DEF AboutsFit
<1>3. Len(stack) \in Nat
  BY Elements
<1>4. CASE ScreensRemain
  <2>1. \A i \in 1..Len(stack') : i \in 1..Len(stack) /\ stack'[i].kind = stack[i].kind /\ stack'[i].about = stack[i].about
    BY <1>3, <1>4 DEF ScreensRemain, SameScreen
  <2> QED
    BY <1>1, <1>2, <2>1 DEF AboutsFit
<1>5. CASE LoginComes
  <2>1. \A i \in 1..Len(stack') : stack'[i].kind = "image" => i \in 1..Len(stack) /\ stack'[i] = stack[i]
    BY <1>3, <1>5 DEF LoginComes
  <2> QED
    BY <1>1, <1>2, <2>1 DEF AboutsFit
<1>6. CASE \E s : ScreenComes(s)
  <2>1. PICK s : ScreenComes(s)
    BY <1>6
  <2>2. PICK n : n = Len(stack)
    OBVIOUS
  <2>3. /\ n \in Nat /\ Len(stack') = n + 1 /\ stack'[n + 1] = s
        /\ \A i \in 1..n : stack'[i] = stack[i]
    BY <2>1, <2>2 DEF ScreenComes, Comes, TypeInv, AppTyped
  <2>4. \A i \in 1..(n + 1) : i \in 1..n \/ i = n + 1
    BY <2>3
  <2>5. CASE s.kind # "image"
    <3>1. \A i \in 1..Len(stack') : stack'[i].kind = "image" => i \in 1..Len(stack) /\ stack'[i] = stack[i]
      BY <2>2, <2>3, <2>4, <2>5
    <3> QED
      BY <1>1, <1>2, <3>1 DEF AboutsFit
  <2>6. CASE s.kind = "image"
    <3>1. PICK p \in posts : AnalysisAnswered(p) /\ s.about = p.save
      BY <2>1, <2>6 DEF ScreenComes
    <3>2. posts' = posts \ {p} /\ p.save \in 1..used.save /\ \A q \in posts : q.save = p.save => q = p
      BY <3>1 DEF AnalysisAnswered, PostsFit
    <3>3. s.about \in 1..used'.save /\ \A q \in posts' : q.save # s.about
      BY <3>1, <3>2, SavesStep DEF Posted
    <3>4. \A i \in 1..n : stack[i].kind = "image" => stack[i].about # s.about
      BY <2>2, <3>1 DEF AboutsFit
    <3>5. \A i \in 1..(n + 1) : stack'[i].kind = "image" =>
             stack'[i].about \in 1..used'.save /\ \A q \in posts' : q.save # stack'[i].about
      BY <1>1, <2>2, <2>3, <2>4, <3>3
    <3>6. \A i, j \in 1..(n + 1) :
             stack'[i].kind = "image" /\ stack'[j].kind = "image" /\ stack'[i].about = stack'[j].about => i = j
      BY <1>2, <2>2, <2>3, <2>4, <3>4
    <3> QED
      BY <2>3, <3>5, <3>6 DEF AboutsFit
  <2> QED
    BY <2>5, <2>6
<1> QED
  BY <1>4, <1>5, <1>6, ScreensStep DEF ScreenForms

\* The result of a save comes up for the user of its writing screen, unless the
\* user has strayed or hurried.
LEMMA ResultsBelongToTheirUser ==
  ASSUME TypeInv, Honest, NEW p \in posts, AnalysisAnswered(p), OnStack(p.id)
  PROVE  \E j \in 1..Len(stack) : stack[j].kind = "plus" /\ (stack[j].uid = currentUser \/ hurried \/ strayed)
<1>1. up = "running"
  BY DEF AnalysisAnswered
<1>2. PICK n : n = Len(stack)
  OBVIOUS
<1>3. PICK j \in 1..n : stack[j].id = p.id
  BY <1>2 DEF OnStack, Ids, Range, TypeInv, AppTyped
<1>4. stack[j].kind = "plus"
  BY <1>2, <1>3 DEF TypeInv, IdsFit
<1>5. ASSUME ~hurried, ~strayed PROVE stack[j].uid = currentUser
  <2>1. Orderly
    BY <1>1, <1>5 DEF Honest
  <2>2. Top.kind \in {"plus", "image"}
    BY <1>1, <2>1, SavedAbove
  <2>3. OfUser
    BY <1>1, <2>1, <2>2, QuietScreen
  <2>4. Segment(j)
    <3> SUFFICES ASSUME NEW k \in j..n PROVE stack[k].kind # "login"
      BY <1>2 DEF Segment
    <3>1. n \in Nat /\ k \in 1..n
      BY <1>2, <1>3, Elements
    <3>2. CASE k = j
      BY <1>4, <3>2
    <3>3. CASE j < k
      <4>1. stack[k].kind = "image"
        BY <1>2, <1>4, <2>1, <3>1, <3>3 DEF Orderly, PlusesFit
      <4> QED
        BY <4>1
    <3> QED
      BY <3>2, <3>3
  <2> QED
    BY <1>2, <1>4, <2>3, <2>4 DEF OfUser
<1> QED
  BY <1>2, <1>4, <1>5

LEMMA AbovePlusStep == ASSUME TypeInv, Honest, AbovePlus, [Next]_vars PROVE AbovePlus'
<1>1. Len(stack) \in Nat
  BY Elements
<1>2. CASE Launch
  <2>1. Len(stack) = 0 /\ ScreenForms
    BY <1>2, ScreensStep DEF Launch, TypeInv, NothingLeft
  <2>2. Launched'
    BY <1>2, LaunchLaunches
  <2>3. PICK L : L = stack'
    OBVIOUS
  <2>4. Len(L) \in {1, 2} /\ L[1].kind = "login" /\ (Len(L) = 2 => L[2].kind = "home")
    BY <2>2, <2>3 DEF Launched, LaunchScreens
  <2>5. \A i \in 1..Len(L) : L[i].kind # "image"
    BY <2>4
  <2> QED
    BY <2>3, <2>5 DEF AbovePlus
<1>3. CASE ~Launch
  <2>1. (strayed => strayed') /\ (hurried => hurried')
    BY <1>3, Unforgotten
  <2>2. \A i \in 1..Len(stack) : stack[i].kind = "image" =>
          \E j \in 1..(i - 1) : stack[j].kind = "plus" /\ (stack[j].uid = stack[i].uid \/ hurried' \/ strayed')
    BY <2>1 DEF AbovePlus
  <2>3. CASE ScreensRemain
    <3>1. \A i \in 1..Len(stack') : i \in 1..Len(stack) /\ stack'[i].kind = stack[i].kind /\ stack'[i].uid = stack[i].uid
      BY <1>1, <2>3 DEF ScreensRemain, SameScreen
    <3>2. \A i \in 1..Len(stack') : \A j \in 1..(i - 1) : j \in 1..Len(stack')
      BY <2>3 DEF ScreensRemain
    <3> QED
      BY <2>2, <3>1, <3>2, SMTT(60) DEF AbovePlus
  <2>4. CASE LoginComes
    <3>1. \A i \in 1..Len(stack') : stack'[i].kind = "image" => i \in 1..Len(stack)
      BY <1>1, <2>4 DEF LoginComes
    <3>2. \A i \in 1..Len(stack) : stack'[i] = stack[i] /\ \A j \in 1..(i - 1) : stack'[j] = stack[j]
      BY <1>1, <2>4 DEF LoginComes
    <3> QED
      BY <2>2, <3>1, <3>2, SMTT(60) DEF AbovePlus
  <2>5. CASE \E s : ScreenComes(s)
    <3>1. PICK s : ScreenComes(s)
      BY <2>5
    <3>2. PICK n : n = Len(stack)
      OBVIOUS
    <3>3. /\ n \in Nat /\ Len(stack') = n + 1 /\ stack'[n + 1] = s
          /\ \A i \in 1..n : stack'[i] = stack[i]
      BY <3>1, <3>2 DEF ScreenComes, Comes, TypeInv, AppTyped
    <3>4. \A i \in 1..(n + 1) : i \in 1..n \/ i = n + 1
      BY <3>3
    <3>5. ASSUME NEW i \in 1..n, stack'[i].kind = "image"
          PROVE  \E j \in 1..(i - 1) : stack'[j].kind = "plus" /\ (stack'[j].uid = stack'[i].uid \/ hurried' \/ strayed')
      <4>1. stack'[i] = stack[i] /\ \A j \in 1..(i - 1) : stack'[j] = stack[j]
        BY <3>3
      <4> QED
        BY <2>2, <3>2, <3>5, <4>1
    <3>6. ASSUME s.kind = "image"
          PROVE  \E j \in 1..n : stack'[j].kind = "plus" /\ (stack'[j].uid = s.uid \/ hurried' \/ strayed')
      <4>1. PICK p \in posts : AnalysisAnswered(p) /\ s.uid = currentUser
        BY <3>1, <3>6 DEF ScreenComes
      <4>2. OnStack(p.id)
        <5>1. ~OnStack(p.id) => stack' = stack
          BY <4>1 DEF AnalysisAnswered
        <5> QED
          BY <3>2, <3>3, <5>1
      <4>3. PICK j \in 1..n : stack[j].kind = "plus" /\ (stack[j].uid = currentUser \/ hurried \/ strayed)
        BY <3>2, <4>1, <4>2, ResultsBelongToTheirUser
      <4> QED
        BY <2>1, <3>3, <4>1, <4>3
    <3>7. n + 1 - 1 = n
      BY <3>3
    <3> QED
      BY <3>3, <3>4, <3>5, <3>6, <3>7 DEF AbovePlus
  <2> QED
    BY <2>3, <2>4, <2>5, ScreensStep DEF ScreenForms
<1> QED
  BY <1>2, <1>3

\* For any users, saves, screens and failures: however late an analysis is and
\* however often Save was pressed, a result is above the writing screen it belongs to,
\* once for each save.
THEOREM ResultsAnswerTheirSaves == Spec => []ResultsAnswerTheirSave
<1> DEFINE I == TypeInv /\ OneToken /\ Honest /\ ResultsFit
<1>1. Init => I
  <2> SUFFICES ASSUME Init PROVE I
    OBVIOUS
  <2>1. TypeInv /\ Launched
    BY InitTypes, InitLaunches
  <2>2. OneToken /\ posts = {}
    BY DEF Init, OneToken
  <2>3. Honest
    BY <2>1, LaunchedOrderly DEF Honest
  <2>4. Len(stack) \in {1, 2} /\ stack[1].kind = "login" /\ (Len(stack) = 2 => stack[2].kind = "home")
    BY <2>1 DEF Launched, LaunchScreens
  <2>5. \A i \in 1..Len(stack) : stack[i].kind # "image"
    BY <2>4
  <2>6. ResultsFit
    BY <2>2, <2>5 DEF ResultsFit, PostsFit, AboutsFit, AbovePlus
  <2> QED
    BY <2>1, <2>2, <2>3, <2>6
<1>2. I /\ [Next]_vars => I'
  <2> SUFFICES ASSUME I, [Next]_vars PROVE I'
    OBVIOUS
  <2>1. TypeInv' /\ OneToken'
    BY TypeInvStep, OneTokenStep
  <2>2. Honest'
    BY <2>1, HonestStep
  <2>3. ResultsFit'
    BY PostsFitStep, AboutsFitStep, AbovePlusStep DEF ResultsFit
  <2> QED
    BY <2>1, <2>2, <2>3
<1>3. I => ResultsAnswerTheirSave
  BY SMTT(30) DEF ResultsFit, AboutsFit, AbovePlus, ResultsAnswerTheirSave, TypeInv, AppTyped
<1> HIDE DEF I
<1> QED
  BY <1>1, <1>2, <1>3, PTL DEF Spec

-----------------------------------------------------------------------------
(* What a step does to the queues and the wire                             *)

\* All outstanding requests are sent again, behind credentials only.
Replayed(first) ==
  /\ first \in Seq(Requests) /\ \A m \in 1..Len(first) : first[m].kind = "auth"
  /\ Resent(first)

\* The server deals with the request in front.
Served ==
  /\ wire # <<>> /\ wire' = Tail(wire) /\ conn' = conn
  /\ \/ Head(wire).kind = "auth" /\ UNCHANGED <<puts, reads>>
     \/ /\ Head(wire).kind = "put" /\ reads' = reads
        /\ \E i \in 1..Len(puts) : /\ puts[i] = Head(wire).put /\ puts' = RemoveAt(puts, i)
                                  /\ \A j \in 1..(i - 1) : puts[j] # Head(wire).put
     \/ /\ Head(wire).kind = "get" /\ puts' = puts
        /\ \E i \in 1..Len(reads) : reads[i].id = Head(wire).id /\ reads' = RemoveAt(reads, i)

Connected == conn' = "connected" => conn = "connected"

ClientForms ==
  \/ Connected /\ UNCHANGED <<puts, reads, wire>>
  \/ Connected /\ \E p : Made(p)
  \/ Connected /\ puts' = puts /\ \E s : Asked(s)
  \/ UNCHANGED <<puts, reads>> /\ \E first : Replayed(first)
  \/ wire' = <<>> /\ conn' # "connected" /\ (puts' = puts \/ puts' = <<>>)
  \/ Served
  \/ Connected /\ UNCHANGED <<puts, reads>> /\ \E q \in Requests : q.kind = "auth" /\ wire' = Append(wire, q)
  \/ conn # "connected" /\ conn' = conn /\ UNCHANGED <<puts, wire>>

LEMMA AsksForms == ASSUME TypeInv, Asks PROVE ClientForms
<1>1. Connected
  BY DEF Asks, Opened, Connected
<1> QED
  BY <1>1 DEF Asks, ClientForms

LEMMA OnReadyForms == ASSUME TypeInv, OnReady PROVE ClientForms
<1>1. wire = <<>> /\ UNCHANGED <<puts, reads>> /\ conn = "connecting"
  BY DEF OnReady, TypeInv, WireFits
<1>2. CASE RestoreState(<<>>)
  <2>1. PICK first : first = <<>>
    OBVIOUS
  <2>2. first \in Seq(Requests) /\ Len(first) = 0 /\ RestoreState(first)
    BY <1>2, <2>1
  <2>3. Resent(first)
    BY <2>2, Restores
  <2>4. Replayed(first)
    BY <2>2, <2>3 DEF Replayed
  <2> QED
    BY <1>1, <2>4 DEF ClientForms
<1>3. CASE conn' = "authenticating" /\ wire' = <<AuthRequest(authToken.user)>>
  <2>1. PICK u, q : u = authToken.user /\ q = AuthRequest(u)
    OBVIOUS
  <2>2. u \in Uids
    BY <2>1 DEF TypeInv, ClientTyped, Tokens
  <2>3. q \in Requests /\ q.kind = "auth"
    BY <2>1, <2>2, RequestTypes
  <2>4. wire' = Append(wire, q)
    BY <1>1, <1>3, <2>1
  <2>5. Connected
    BY <1>3 DEF Connected
  <2> QED
    BY <1>1, <2>3, <2>4, <2>5 DEF ClientForms
<1> QED
  BY <1>2, <1>3 DEF OnReady

LEMMA ServeAuthForms == ASSUME TypeInv, ServeAuth PROVE ClientForms
<1>1. wire # <<>> /\ UNCHANGED <<puts, reads>> /\ Head(wire).kind = "auth"
  BY DEF ServeAuth
<1>2. PICK t : t = Tail(wire)
  OBVIOUS
<1>3. t \in Seq(Requests) /\ \A i \in 1..Len(t) : i + 1 \in 1..Len(wire) /\ t[i] = wire[i + 1]
  BY <1>1, <1>2, NextRequest
<1>4. CASE wire' = t /\ conn' = conn
  <2>1. Served
    BY <1>1, <1>2, <1>4 DEF Served
  <2> QED
    BY <2>1 DEF ClientForms
<1>5. CASE conn = "authenticating" /\ RestoreState(t)
  <2>1. \A m \in 1..Len(wire) : wire[m].kind = "auth"
    BY <1>5 DEF TypeInv, WireFits
  <2>2. \A i \in 1..Len(t) : t[i].kind = "auth"
    BY <1>3, <2>1
  <2>3. Resent(t)
    BY <1>3, <1>5, Restores
  <2>4. Replayed(t)
    BY <1>3, <2>2, <2>3 DEF Replayed
  <2> QED
    BY <1>1, <2>4 DEF ClientForms
<1> QED
  BY <1>2, <1>4, <1>5 DEF ServeAuth

LEMMA NotifyForms ==
  ASSUME TypeInv, MainQueue, Head(main).kind = "notify" PROVE ClientForms
<1>1. RefreshAuthToken(Head(main).user, Head(main).session)
  BY DEF MainQueue
<1>2. PICK u, q : u = Head(main).user /\ q = AuthRequest(u)
  OBVIOUS
<1>3. main # <<>> /\ Head(main) \in Blocks
  BY NextBlock DEF MainQueue
<1>4. u \in Uids
  BY <1>2, <1>3 DEF Blocks, Done
<1>5. q \in Requests /\ q.kind = "auth"
  BY <1>2, <1>4, RequestTypes
<1>6. UNCHANGED <<conn, puts, reads>> /\ (wire' = wire \/ wire' = Append(wire, q))
  BY <1>1, <1>2 DEF RefreshAuthToken
<1>7. Connected
  BY <1>6 DEF Connected
<1> QED
  BY <1>5, <1>6, <1>7 DEF ClientForms

LEMMA ClientStep == ASSUME TypeInv, [Next]_vars PROVE ClientForms
<1>1. CASE User \/ Services \/ (MainQueue /\ Head(main).kind \in Done)
  BY <1>1, AppAsks, AsksForms
<1>2. CASE MainQueue /\ Head(main).kind \notin Done
  <2>1. main # <<>> /\ Head(main).kind \in {"token", "notify"}
    BY <1>2, NextBlock DEF MainQueue, Blocks
  <2>2. CASE Head(main).kind = "token"
    <3>1. TokenArrives
      BY <1>2, <2>2 DEF MainQueue
    <3> QED
      BY <3>1 DEF TokenArrives, ClientForms, Connected
  <2> QED
    BY <1>2, <2>1, <2>2, NotifyForms
<1>3. CASE OnReady \/ ServeAuth
  BY <1>3, OnReadyForms, ServeAuthForms
<1>4. CASE ConnectionLost \/ Die
  BY <1>4 DEF ConnectionLost, Disconnect, Die, ClientForms
<1>5. CASE Retry \/ TokenIsLookedUp \/ TokenIsRefreshed \/ Launch \/ UNCHANGED vars
  BY <1>5 DEF Retry, TokenIsLookedUp, TokenIsRefreshed, Launch, vars, clientVars, ClientForms, Connected
<1>6. CASE ReadTimesOut
  BY <1>6 DEF ReadTimesOut, ClientForms
<1>7. CASE ServePut
  <2>1. puts \in Seq(Puts)
    BY DEF TypeInv, ClientTyped
  <2>2. PICK i \in DOMAIN puts : /\ puts[i] = Head(wire).put /\ puts' = RemoveAt(puts, i)
                                 /\ \A j \in 1..(i - 1) : puts[j] # Head(wire).put
    BY <1>7 DEF ServePut
  <2>3. i \in 1..Len(puts)
    BY <2>1, <2>2
  <2>4. wire # <<>> /\ wire' = Tail(wire) /\ conn' = conn /\ Head(wire).kind = "put" /\ reads' = reads
    BY <1>7 DEF ServePut
  <2>5. Served
    BY <2>2, <2>3, <2>4 DEF Served
  <2> QED
    BY <2>5 DEF ClientForms
<1>8. CASE ServeGet
  <2>1. reads \in Seq(ReadSet)
    BY DEF TypeInv, ClientTyped
  <2>2. PICK i \in DOMAIN reads : reads[i].id = Head(wire).id /\ reads' = RemoveAt(reads, i)
    BY <1>8 DEF ServeGet
  <2>3. i \in 1..Len(reads)
    BY <2>1, <2>2
  <2>4. wire # <<>> /\ wire' = Tail(wire) /\ conn' = conn /\ Head(wire).kind = "get" /\ puts' = puts
    BY <1>8 DEF ServeGet
  <2>5. Served
    BY <2>2, <2>3, <2>4 DEF Served
  <2> QED
    BY <2>5 DEF ClientForms
<1> QED
  BY <1>1, <1>2, <1>3, <1>4, <1>5, <1>6, <1>7, <1>8 DEF Next, Client, Server

-----------------------------------------------------------------------------
(* Reads behind writes                                                     *)

\* A screen that reads, and the last save its read must have seen.
Reading(s) == s.kind \in {"image", "calendar"}
Limit(s) == IF s.kind = "image" THEN s.about ELSE s.asOf

\* The write p is on the wire before place m.
Ahead(m, p) == \E l \in 1..(m - 1) : wire[l].kind = "put" /\ wire[l].put = p

\* The diaries in the queue are of different saves.
SavedFit ==
  /\ \A j \in 1..Len(puts) : puts[j].path = "diary" => puts[j].value \in 1..used.save
  /\ \A j, k \in 1..Len(puts) :
       puts[j].path = "diary" /\ puts[k].path = "diary" /\ puts[j].value = puts[k].value => j = k

LimitsFit == \A i \in 1..Len(stack) : Reading(stack[i]) => Limit(stack[i]) \in 0..used.save

\* A read on the wire is outstanding, and sent once.
GetsFit ==
  /\ \A m \in 1..Len(wire) : wire[m].kind = "get" => \E k \in 1..Len(reads) : reads[k].id = wire[m].id
  /\ \A l, m \in 1..Len(wire) : wire[l].kind = "get" /\ wire[m].kind = "get" /\ wire[l].id = wire[m].id => l = m

\* While connected, the diaries in the queue have been sent.
Sending ==
  conn = "connected" => \A j \in 1..Len(puts) : puts[j].path = "diary" => Ahead(Len(wire) + 1, puts[j])

\* A read on the wire is behind the diaries that were saved before it.
Ordered ==
  \A m \in 1..Len(wire), i \in 1..Len(stack), j \in 1..Len(puts) :
    /\ wire[m].kind = "get" /\ wire[m].id = stack[i].id /\ Reading(stack[i])
    /\ puts[j].path = "diary" /\ puts[j].value <= Limit(stack[i])
    => Ahead(m, puts[j])

\* A screen that has read waits for no diary that was saved before.
Seen ==
  \A i \in 1..Len(stack), j \in 1..Len(puts) :
    Reading(stack[i]) /\ stack[i].found # None /\ puts[j].path = "diary" => puts[j].value > Limit(stack[i])

QueueInv == SavedFit /\ LimitsFit /\ GetsFit /\ Sending /\ Ordered /\ Seen

LEMMA RemovalFrom ==
  ASSUME NEW S, NEW s \in Seq(S), NEW i \in 1..Len(s), NEW t, t = RemoveAt(s, i), NEW k \in 1..Len(t)
  PROVE  \E j \in 1..Len(s) : j # i /\ t[k] = s[j]
<1>1. /\ Len(t) = Len(s) - 1 /\ Len(s) \in Nat
      /\ \A m \in 1..Len(t) : t[m] = IF m < i THEN s[m] ELSE s[m + 1]
  BY Removed
<1>2. PICK j : j = IF k < i THEN k ELSE k + 1
  OBVIOUS
<1>3. j \in 1..Len(s) /\ j # i
  BY <1>1, <1>2
<1>4. t[k] = s[j]
  BY <1>1, <1>2
<1> QED
  BY <1>3, <1>4

LEMMA RemovalKeeps ==
  ASSUME NEW S, NEW s \in Seq(S), NEW i \in 1..Len(s), NEW t, t = RemoveAt(s, i),
         NEW j \in 1..Len(s), j # i
  PROVE  \E k \in 1..Len(t) : t[k] = s[j]
<1>1. /\ Len(t) = Len(s) - 1 /\ Len(s) \in Nat
      /\ \A m \in 1..Len(t) : t[m] = IF m < i THEN s[m] ELSE s[m + 1]
  BY Removed
<1>2. PICK k : k = IF j < i THEN j ELSE j - 1
  OBVIOUS
<1>3. k \in 1..Len(t) /\ (k < i => k = j) /\ (~(k < i) => k + 1 = j)
  BY <1>1, <1>2
<1>4. t[k] = s[j]
  BY <1>1, <1>3
<1> QED
  BY <1>3, <1>4

LEMMA RemovalApart ==
  ASSUME NEW S, NEW s \in Seq(S), NEW i \in 1..Len(s), NEW t, t = RemoveAt(s, i),
         NEW k \in 1..Len(t), NEW l \in 1..Len(t), k # l
  PROVE  \E j, h \in 1..Len(s) : j # h /\ t[k] = s[j] /\ t[l] = s[h]
<1>1. /\ Len(t) = Len(s) - 1 /\ Len(s) \in Nat
      /\ \A m \in 1..Len(t) : t[m] = IF m < i THEN s[m] ELSE s[m + 1]
  BY Removed
<1>2. PICK j, h : j = (IF k < i THEN k ELSE k + 1) /\ h = (IF l < i THEN l ELSE l + 1)
  OBVIOUS
<1>3. Len(t) \in Nat /\ i \in Nat /\ k \in Nat /\ l \in Nat
  BY <1>1
<1>4. j \in 1..Len(s) /\ h \in 1..Len(s) /\ j # h
  BY <1>1, <1>2, <1>3
<1>5. t[k] = s[j]
  BY <1>1, <1>2
<1>6. t[l] = s[h]
  BY <1>1, <1>2
<1> QED
  BY <1>4, <1>5, <1>6

\* Diaries in the queue were there before, or are of the save of this step.
LEMMA DiariesCome ==
  ASSUME TypeInv, [Next]_vars, NEW k \in 1..Len(puts'), puts'[k].path = "diary"
  PROVE  \/ \E j \in 1..Len(puts) : puts'[k] = puts[j]
         \/ \E p : Made(p) /\ puts'[k] = p /\ p.path = "diary" /\ p.value = used.save + 1 /\ k = Len(puts) + 1
<1>1. puts \in Seq(Puts) /\ Len(puts) \in Nat
  BY DEF TypeInv, ClientTyped
<1>2. CASE puts' = puts
  BY <1>2
<1>3. CASE \E p : Made(p)
  <2>1. PICK p : Made(p)
    BY <1>3
  <2>2. p \in Puts /\ puts' = Append(puts, p) /\ (p.path = "diary" => p.value = used.save + 1)
    BY <2>1 DEF Made, Written
  <2>3. Len(puts') = Len(puts) + 1 /\ puts'[Len(puts) + 1] = p /\ \A j \in 1..Len(puts) : puts'[j] = puts[j]
    BY <1>1, <2>2
  <2>4. CASE k \in 1..Len(puts)
    BY <2>3, <2>4
  <2>5. CASE k = Len(puts) + 1
    BY <2>1, <2>2, <2>3, <2>5
  <2> QED
    BY <1>1, <2>3, <2>4, <2>5
<1>4. CASE puts' = <<>>
  BY <1>4
<1>5. CASE \E i \in 1..Len(puts) : puts' = RemoveAt(puts, i)
  <2>1. PICK i \in 1..Len(puts) : puts' = RemoveAt(puts, i)
    BY <1>5
  <2>2. PICK t : t = puts'
    OBVIOUS
  <2>3. t = RemoveAt(puts, i) /\ k \in 1..Len(t)
    BY <2>1, <2>2
  <2>4. \E j \in 1..Len(puts) : j # i /\ t[k] = puts[j]
    BY <1>1, <2>3, RemovalFrom
  <2> QED
    BY <2>2, <2>4
<1> QED
  BY <1>2, <1>3, <1>4, <1>5, ClientStep DEF ClientForms, Served

LEMMA SavedFitStep == ASSUME TypeInv, SavedFit, [Next]_vars PROVE SavedFit'
<1>0. used.save \in Nat /\ used'.save \in Nat /\ used.save <= used'.save
  BY SavesStep DEF Posted
<1>1. \A k \in 1..Len(puts') : puts'[k].path = "diary" => puts'[k].value \in 1..used'.save
  <2> SUFFICES ASSUME NEW k \in 1..Len(puts'), puts'[k].path = "diary" PROVE puts'[k].value \in 1..used'.save
    OBVIOUS
  <2>1. CASE \E j \in 1..Len(puts) : puts'[k] = puts[j]
    BY <1>0, <2>1 DEF SavedFit
  <2>2. CASE \E p : Made(p) /\ puts'[k] = p /\ p.path = "diary" /\ p.value = used.save + 1
    BY <1>0, <2>2 DEF Made
  <2> QED
    BY <2>1, <2>2, DiariesCome
<1>2. ASSUME NEW k \in 1..Len(puts'), NEW l \in 1..Len(puts'), k # l,
             puts'[k].path = "diary", puts'[l].path = "diary", puts'[k].value = puts'[l].value
      PROVE  FALSE
  <2>1. puts \in Seq(Puts) /\ Len(puts) \in Nat
    BY DEF TypeInv, ClientTyped
  <2>2. CASE puts' = puts
    BY <1>2, <2>2 DEF SavedFit
  <2>3. CASE \E p : Made(p)
    <3>1. PICK p : Made(p)
      BY <2>3
    <3>2. p \in Puts /\ puts' = Append(puts, p) /\ (p.path = "diary" => p.value = used.save + 1)
      BY <3>1 DEF Made, Written
    <3>3. Len(puts') = Len(puts) + 1 /\ puts'[Len(puts) + 1] = p /\ \A j \in 1..Len(puts) : puts'[j] = puts[j]
      BY <2>1, <3>2
    <3>4. \A j \in 1..Len(puts) : puts[j].path = "diary" => puts[j].value # used.save + 1
      BY <1>0 DEF SavedFit
    <3>5. \A j \in 1..Len(puts') : j \in 1..Len(puts) \/ j = Len(puts) + 1
      BY <2>1, <3>3
    <3> QED
      BY <1>2, <3>2, <3>3, <3>4, <3>5 DEF SavedFit
  <2>4. CASE puts' = <<>>
    BY <1>2, <2>4
  <2>5. CASE \E i \in 1..Len(puts) : puts' = RemoveAt(puts, i)
    <3>1. PICK i \in 1..Len(puts) : puts' = RemoveAt(puts, i)
      BY <2>5
    <3>2. PICK t, q : t = puts' /\ q = puts
      OBVIOUS
    <3>3. q \in Seq(Puts) /\ i \in 1..Len(q) /\ t = RemoveAt(q, i) /\ k \in 1..Len(t) /\ l \in 1..Len(t)
      BY <2>1, <3>1, <3>2
    <3>4. PICK j, h \in 1..Len(q) : j # h /\ t[k] = q[j] /\ t[l] = q[h]
      BY <1>2, <3>3, RemovalApart, SMTT(30)
    <3> QED
      BY <1>2, <3>2, <3>4 DEF SavedFit
  <2> QED
    BY <2>2, <2>3, <2>4, <2>5, ClientStep DEF ClientForms, Served
<1> QED
  BY <1>1, <1>2 DEF SavedFit

LEMMA LimitsFitStep == ASSUME TypeInv, PostsFit, LimitsFit, [Next]_vars PROVE LimitsFit'
<1>0. used.save \in Nat /\ used'.save \in Nat /\ used.save <= used'.save /\ Len(stack) \in Nat
  BY SavesStep, Elements DEF Posted
<1> SUFFICES ASSUME NEW i \in 1..Len(stack'), Reading(stack'[i]) PROVE Limit(stack'[i]) \in 0..used'.save
  BY DEF LimitsFit, Reading, Limit
<1>1. CASE i \in 1..Len(stack) /\ SameScreen(i)
  BY <1>0, <1>1 DEF LimitsFit, SameScreen, Reading, Limit
<1>2. CASE ScreensRemain
  BY <1>0, <1>1, <1>2 DEF ScreensRemain
<1>3. CASE LoginComes
  <2>1. i \in 1..Len(stack) /\ stack'[i] = stack[i]
    BY <1>0, <1>3 DEF LoginComes, Reading
  <2> QED
    BY <1>1, <2>1 DEF SameScreen
<1>4. CASE \E s : ScreenComes(s)
  <2>1. PICK s : ScreenComes(s)
    BY <1>4
  <2>2. /\ Len(stack') = Len(stack) + 1 /\ stack'[Len(stack) + 1] = s
        /\ \A j \in 1..Len(stack) : stack'[j] = stack[j]
    BY <2>1 DEF ScreenComes, Comes, TypeInv, AppTyped
  <2>3. CASE i \in 1..Len(stack)
    BY <1>1, <2>2, <2>3 DEF SameScreen
  <2>4. CASE i = Len(stack) + 1
    <3>1. stack'[i] = s
      BY <2>2, <2>4
    <3>2. CASE s.kind = "calendar"
      <4>1. s.asOf = used.save
        BY <2>1, <3>2 DEF ScreenComes
      <4> QED
        BY <1>0, <3>1, <3>2, <4>1 DEF Limit
    <3>3. CASE s.kind = "image"
      <4>1. s.about \in 1..used.save
        BY <2>1, <3>3 DEF ScreenComes, PostsFit
      <4> QED
        BY <1>0, <3>1, <3>3, <4>1 DEF Limit
    <3> QED
      BY <3>1, <3>2, <3>3 DEF Reading
  <2> QED
    BY <1>0, <2>2, <2>3, <2>4
<1> QED
  BY <1>2, <1>3, <1>4, ScreensStep DEF ScreenForms

\* A request joins the wire, or none does.
LEMMA WireJoins ==
  ASSUME TypeInv, NEW q, wire' = Append(wire, q)
  PROVE  /\ Len(wire) \in Nat /\ Len(wire') = Len(wire) + 1 /\ wire'[Len(wire) + 1] = q
         /\ \A m \in 1..Len(wire) : m \in 1..Len(wire') /\ wire'[m] = wire[m]
         /\ \A m \in 1..Len(wire') : m \in 1..Len(wire) \/ m = Len(wire) + 1
<1>1. wire \in Seq(Requests)
  BY DEF TypeInv, ClientTyped
<1> QED
  BY <1>1

LEMMA GetsFitJoin ==
  ASSUME TypeInv, GetsFit, NEW q, wire' = wire \/ wire' = Append(wire, q),
         \A k \in 1..Len(reads) : k \in 1..Len(reads') /\ reads'[k] = reads[k],
         q.kind = "get" => /\ \E k \in 1..Len(reads') : reads'[k].id = q.id
                           /\ \A k \in 1..Len(reads) : reads[k].id # q.id
  PROVE  GetsFit'
<1>1. \A m \in 1..Len(wire) : wire[m].kind = "get" => \E k \in 1..Len(reads') : reads'[k].id = wire[m].id
  BY DEF GetsFit
<1>2. CASE wire' = wire
  BY <1>1, <1>2 DEF GetsFit
<1>3. CASE wire' = Append(wire, q)
  <2>1. \A m \in 1..Len(wire) : wire[m].kind = "get" /\ q.kind = "get" => wire[m].id # q.id
    BY DEF GetsFit
  <2>2. /\ wire'[Len(wire) + 1] = q
        /\ \A m \in 1..Len(wire) : wire'[m] = wire[m]
        /\ \A m \in 1..Len(wire') : m \in 1..Len(wire) \/ m = Len(wire) + 1
    BY <1>3, WireJoins
  <2>3. ASSUME NEW m \in 1..Len(wire'), wire'[m].kind = "get"
        PROVE  \E k \in 1..Len(reads') : reads'[k].id = wire'[m].id
    BY <1>1, <2>2, <2>3
  <2>4. ASSUME NEW l \in 1..Len(wire'), NEW m \in 1..Len(wire'),
               wire'[l].kind = "get", wire'[m].kind = "get", wire'[l].id = wire'[m].id
        PROVE  l = m
    BY <2>1, <2>2, <2>4, SMTT(60) DEF GetsFit
  <2> QED
    BY <2>3, <2>4 DEF GetsFit
<1> QED
  BY <1>2, <1>3

LEMMA GetsFitReplayed ==
  ASSUME TypeInv, NEW first, Replayed(first), UNCHANGED <<puts, reads>> PROVE GetsFit'
<1>1. first \in Seq(Requests) /\ Resent(first) /\ \A m \in 1..Len(first) : first[m].kind = "auth"
  BY DEF Replayed
<1>2. ASSUME NEW m \in 1..Len(wire'), wire'[m].kind = "get"
      PROVE  \E k \in 1..Len(reads) : m = Len(first) + Len(puts) + k /\ wire'[m].id = reads[k].id
  BY <1>1, <1>2, ResentComes
<1>3. \A j, k \in 1..Len(reads) : reads[j].id = reads[k].id => j = k
  BY DEF TypeInv, IdsFit
<1>4. ASSUME NEW l \in 1..Len(wire'), NEW m \in 1..Len(wire'),
             wire'[l].kind = "get", wire'[m].kind = "get", wire'[l].id = wire'[m].id
      PROVE  l = m
  <2>1. PICK j \in 1..Len(reads) : l = Len(first) + Len(puts) + j /\ wire'[l].id = reads[j].id
    BY <1>2, <1>4
  <2>2. PICK k \in 1..Len(reads) : m = Len(first) + Len(puts) + k /\ wire'[m].id = reads[k].id
    BY <1>2, <1>4
  <2>3. j = k
    BY <1>3, <1>4, <2>1, <2>2
  <2> QED
    BY <2>1, <2>2, <2>3
<1> QED
  BY <1>2, <1>4 DEF GetsFit

LEMMA ServedShifts ==
  ASSUME TypeInv, Served
  PROVE  /\ Len(wire) \in Nat \ {0} /\ Len(wire') = Len(wire) - 1 /\ Head(wire) = wire[1]
         /\ \A m \in 1..Len(wire') : m + 1 \in 1..Len(wire) /\ wire'[m] = wire[m + 1]
  BY NextRequest DEF Served

LEMMA GetsFitServed == ASSUME TypeInv, GetsFit, Served PROVE GetsFit'
<1>1. /\ Len(wire) \in Nat \ {0} /\ Head(wire) = wire[1]
      /\ \A m \in 1..Len(wire') : m + 1 \in 1..Len(wire) /\ wire'[m] = wire[m + 1]
  BY ServedShifts
<1>2. ASSUME NEW l \in 1..Len(wire'), NEW m \in 1..Len(wire'),
             wire'[l].kind = "get", wire'[m].kind = "get", wire'[l].id = wire'[m].id
      PROVE  l = m
  <2>1. PICK a, b : a = l + 1 /\ b = m + 1
    OBVIOUS
  <2>2. a \in 1..Len(wire) /\ b \in 1..Len(wire) /\ wire'[l] = wire[a] /\ wire'[m] = wire[b]
    BY <1>1, <2>1
  <2>3. a = b
    BY <1>2, <2>2 DEF GetsFit
  <2> QED
    BY <2>1, <2>3
<1>3. ASSUME NEW m \in 1..Len(wire'), wire'[m].kind = "get"
      PROVE  \E k \in 1..Len(reads') : reads'[k].id = wire'[m].id
  <2>1. PICK n : n = m + 1
    OBVIOUS
  <2>2. n \in 1..Len(wire) /\ n # 1 /\ 1 \in 1..Len(wire) /\ wire'[m] = wire[n] /\ wire[n].kind = "get"
    BY <1>1, <1>3, <2>1
  <2>3. PICK k \in 1..Len(reads) : reads[k].id = wire[n].id
    BY <2>2 DEF GetsFit
  <2>4. CASE reads' = reads
    BY <2>2, <2>3, <2>4
  <2>5. CASE Head(wire).kind = "get" /\ \E i \in 1..Len(reads) : reads[i].id = Head(wire).id /\ reads' = RemoveAt(reads, i)
    <3>1. PICK i \in 1..Len(reads) : reads[i].id = Head(wire).id /\ reads' = RemoveAt(reads, i)
      BY <2>5
    <3>2. wire[1].id # wire[n].id
      BY <1>1, <2>2, <2>5 DEF GetsFit
    <3>3. k # i
      BY <1>1, <2>3, <3>1, <3>2
    <3>4. PICK t, q : t = reads' /\ q = reads
      OBVIOUS
    <3>5. q \in Seq(ReadSet) /\ i \in 1..Len(q) /\ t = RemoveAt(q, i) /\ k \in 1..Len(q)
      BY <3>1, <3>4 DEF TypeInv, ClientTyped
    <3>6. \E j \in 1..Len(t) : t[j] = q[k]
      BY <3>3, <3>5, RemovalKeeps
    <3> QED
      BY <2>2, <2>3, <3>4, <3>6
  <2> QED
    BY <2>4, <2>5 DEF Served
<1> QED
  BY <1>2, <1>3 DEF GetsFit

LEMMA GetsFitStep == ASSUME TypeInv, GetsFit, [Next]_vars PROVE GetsFit'
<1>1. reads \in Seq(ReadSet) /\ Len(reads) \in Nat
  BY DEF TypeInv, ClientTyped
<1>2. CASE UNCHANGED <<reads, wire>>
  BY <1>2 DEF GetsFit
<1>3. CASE \E p : Made(p)
  <2>1. PICK p : Made(p)
    BY <1>3
  <2>2. PICK q : q = PutRequest(p)
    OBVIOUS
  <2>3. q.kind = "put" /\ reads' = reads /\ (wire' = wire \/ wire' = Append(wire, q))
    BY <2>1, <2>2, RequestTypes DEF Made, Written
  <2> QED
    BY <2>3, GetsFitJoin
<1>4. CASE \E s : Asked(s)
  <2>1. PICK s : Asked(s)
    BY <1>4
  <2>2. PICK r, q : r = [id |-> s.id, uid |-> s.uid, for |-> s.kind] /\ q = GetRequest(r)
    OBVIOUS
  <2>3. r \in ReadSet /\ r.id = s.id
    BY <2>1, <2>2 DEF Asked, Comes, ReadComes, ReadSet, Screens
  <2>4. q.kind = "get" /\ q.id = r.id
    BY <2>2, <2>3, RequestTypes
  <2>5. reads' = Append(reads, r) /\ (wire' = wire \/ wire' = Append(wire, q))
    BY <2>1, <2>2 DEF Asked, ReadComes
  <2>6. \A k \in 1..Len(reads) : reads[k].id # q.id
    BY <2>1, <2>3, <2>4, FreshIdIsNew DEF Asked, Comes
  <2>7. \A k \in 1..Len(reads) : k \in 1..Len(reads') /\ reads'[k] = reads[k]
    BY <1>1, <2>3, <2>5
  <2>8. Len(reads) + 1 \in 1..Len(reads') /\ reads'[Len(reads) + 1] = r
    BY <1>1, <2>3, <2>5
  <2>9. \E k \in 1..Len(reads') : reads'[k].id = q.id
    BY <2>4, <2>8
  <2> QED
    BY <2>5, <2>6, <2>7, <2>9, GetsFitJoin
<1>5. CASE wire' = <<>>
  BY <1>5 DEF GetsFit
<1>6. CASE UNCHANGED <<puts, reads>> /\ \E q \in Requests : q.kind = "auth" /\ wire' = Append(wire, q)
  BY <1>1, <1>6, GetsFitJoin
<1>7. CASE conn # "connected" /\ wire' = wire
  <2>1. \A m \in 1..Len(wire) : wire[m].kind # "get"
    BY <1>7 DEF TypeInv, WireFits
  <2> QED
    BY <1>7, <2>1 DEF GetsFit
<1> QED
  BY <1>2, <1>3, <1>4, <1>5, <1>6, <1>7, GetsFitReplayed, GetsFitServed, ClientStep DEF ClientForms

LEMMA AheadGrows ==
  ASSUME NEW n \in Nat, \A l \in 1..n : wire'[l] = wire[l],
         NEW m \in 1..(n + 1), NEW b \in Nat, m <= b, NEW p, Ahead(m, p)
  PROVE  Ahead(b, p)'
<1>1. PICK l \in 1..(m - 1) : wire[l].kind = "put" /\ wire[l].put = p
  BY DEF Ahead
<1>2. l \in 1..n /\ l \in 1..(b - 1)
  BY <1>1
<1> QED
  BY <1>1, <1>2 DEF Ahead

LEMMA AheadShifts ==
  ASSUME NEW n \in Nat, \A l \in 1..n : wire'[l] = wire[l + 1],
         NEW m \in 1..(n + 1), NEW p, Ahead(m + 1, p), wire[1].kind = "put" => wire[1].put # p
  PROVE  Ahead(m, p)'
<1>1. PICK l \in 1..m : wire[l].kind = "put" /\ wire[l].put = p
  BY DEF Ahead
<1>2. l # 1
  BY <1>1
<1>3. PICK k : k = l - 1
  OBVIOUS
<1>4. k \in 1..n /\ k \in 1..(m - 1) /\ l = k + 1
  BY <1>2, <1>3
<1>5. wire'[k].kind = "put" /\ wire'[k].put = p
  BY <1>1, <1>4
<1> QED
  BY <1>4, <1>5 DEF Ahead

LEMMA AheadReplayed ==
  ASSUME TypeInv, NEW first, Replayed(first), NEW j \in 1..Len(puts),
         NEW m \in Nat, m > Len(first) + Len(puts), NEW p, p = puts[j]
  PROVE  Ahead(m, p)'
<1>1. p \in Puts /\ Len(puts) \in Nat /\ Len(first) \in Nat
  BY Elements DEF Replayed
<1>2. PICK l : l = Len(first) + j
  OBVIOUS
<1>3. wire'[l] = PutRequest(p) /\ l \in 1..(m - 1)
  BY <1>1, <1>2 DEF Replayed, Resent
<1>4. wire'[l].kind = "put" /\ wire'[l].put = p
  BY <1>1, <1>3, RequestTypes
<1> QED
  BY <1>3, <1>4 DEF Ahead

\* When the server deals with a request, the diaries left in the queue are others.
LEMMA ServedOthers ==
  ASSUME TypeInv, SavedFit, Served, NEW k \in 1..Len(puts'), puts'[k].path = "diary"
  PROVE  \E j \in 1..Len(puts) : puts'[k] = puts[j] /\ (wire[1].kind = "put" => wire[1].put # puts[j])
<1>1. Head(wire) = wire[1]
  BY ServedShifts
<1>2. CASE puts' = puts /\ Head(wire).kind # "put"
  BY <1>1, <1>2
<1>3. CASE \E i \in 1..Len(puts) : puts[i] = Head(wire).put /\ puts' = RemoveAt(puts, i)
  <2>1. PICK i \in 1..Len(puts) : puts[i] = Head(wire).put /\ puts' = RemoveAt(puts, i)
    BY <1>3
  <2>2. PICK t, q : t = puts' /\ q = puts
    OBVIOUS
  <2>3. q \in Seq(Puts) /\ i \in 1..Len(q) /\ t = RemoveAt(q, i) /\ k \in 1..Len(t)
    BY <2>1, <2>2 DEF TypeInv, ClientTyped
  <2>4. PICK j \in 1..Len(q) : j # i /\ t[k] = q[j]
    BY ONLY <2>3, RemovalFrom, SMTT(60)
  <2>5. j \in 1..Len(puts) /\ puts'[k] = puts[j] /\ puts[j].path = "diary"
    BY <2>2, <2>4
  <2>6. ASSUME puts[j] = puts[i] PROVE FALSE
    <3>1. puts[i].path = "diary" /\ puts[i].value = puts[j].value
      BY <2>5, <2>6
    <3>2. i = j
      BY <2>5, <3>1 DEF SavedFit
    <3> QED
      BY <2>4, <3>2
  <2> QED
    BY <1>1, <2>1, <2>5, <2>6
<1> QED
  BY <1>2, <1>3 DEF Served

LEMMA SendingStep == ASSUME TypeInv, SavedFit, Sending, [Next]_vars PROVE Sending'
<1> SUFFICES ASSUME conn' = "connected", NEW k \in 1..Len(puts'), puts'[k].path = "diary"
             PROVE  Ahead(Len(wire) + 1, puts[k])'
  BY DEF Sending
<1>0. wire \in Seq(Requests) /\ Len(wire) \in Nat /\ puts \in Seq(Puts) /\ Len(puts) \in Nat
  BY DEF TypeInv, ClientTyped
<1>1. PICK p, n, b : p = puts'[k] /\ n = Len(wire) /\ b = Len(wire') + 1
  OBVIOUS
<1> SUFFICES Ahead(b, p)'
  BY <1>1 DEF Ahead
<1>2. ASSUME conn = "connected", p \in {puts[j] : j \in 1..Len(puts)}, wire' = wire \/ \E q : wire' = Append(wire, q)
      PROVE  Ahead(b, p)'
  <2>1. Ahead(n + 1, p)
    BY <1>1, <1>2 DEF Sending
  <2>2. b \in Nat /\ n + 1 <= b /\ \A l \in 1..n : wire'[l] = wire[l]
    BY <1>0, <1>1, <1>2, WireJoins
  <2>3. n \in Nat /\ n + 1 \in 1..(n + 1)
    BY <1>0, <1>1
  <2> QED
    BY <2>1, <2>2, <2>3, AheadGrows
<1>3. CASE Connected /\ puts' = puts /\ (wire' = wire \/ \E q : wire' = Append(wire, q))
  BY <1>1, <1>2, <1>3 DEF Connected
<1>4. CASE Connected /\ \E m : Made(m)
  <2>1. PICK m : Made(m)
    BY <1>4
  <2>2. m \in Puts /\ puts' = Append(puts, m) /\ conn = "connected" /\ wire' = Append(wire, PutRequest(m))
    BY <1>4, <2>1 DEF Made, Written, Connected
  <2>3. p \in {puts[j] : j \in 1..Len(puts)} \/ p = m
    BY <1>0, <1>1, <2>2
  <2>4. CASE p = m
    <3>1. PICK q : q = PutRequest(m)
      OBVIOUS
    <3>2. q.kind = "put" /\ q.put = m
      BY <2>2, <3>1, RequestTypes
    <3>3. b = n + 2 /\ n \in Nat /\ wire'[n + 1] = q
      BY <1>0, <1>1, <2>2, <3>1, WireJoins
    <3>4. n + 1 \in 1..(b - 1)
      BY <3>3
    <3> QED
      BY <2>4, <3>2, <3>3, <3>4 DEF Ahead
  <2> QED
    BY <1>2, <2>2, <2>3, <2>4
<1>5. CASE UNCHANGED <<puts, reads>> /\ \E first : Replayed(first)
  <2>1. PICK first : Replayed(first)
    BY <1>5
  <2>2. Len(first) \in Nat /\ Len(wire') = Len(first) + Len(puts) + Len(reads) /\ Len(reads) \in Nat
    BY <2>1, Elements DEF Replayed, Resent
  <2>3. b \in Nat /\ b > Len(first) + Len(puts) /\ k \in 1..Len(puts) /\ p = puts[k]
    BY <1>0, <1>1, <1>5, <2>2
  <2> QED
    BY <2>1, <2>3, AheadReplayed
<1>6. CASE Served
  <2>1. PICK j \in 1..Len(puts) : p = puts[j] /\ (wire[1].kind = "put" => wire[1].put # puts[j])
    BY <1>1, <1>6, ServedOthers
  <2>2. conn = "connected"
    BY <1>6 DEF Served
  <2>3. Ahead(n + 1, p)
    BY <1>1, <2>1, <2>2 DEF Sending
  <2>4. n \in Nat \ {0} /\ b = n /\ \A l \in 1..(n - 1) : wire'[l] = wire[l + 1]
    BY <1>1, <1>6, ServedShifts
  <2>5. n - 1 \in Nat /\ b \in 1..((n - 1) + 1)
    BY <2>4
  <2> QED
    BY <2>1, <2>3, <2>4, <2>5, AheadShifts
<1>7. CASE Connected /\ puts' = puts /\ \E s : Asked(s)
  <2>1. PICK s : Asked(s)
    BY <1>7
  <2>2. wire' = wire \/ \E q : wire' = Append(wire, q)
    BY <2>1 DEF Asked
  <2> QED
    BY <1>3, <1>7, <2>2
<1> QED
  BY <1>3, <1>4, <1>5, <1>6, <1>7, ClientStep DEF ClientForms

\* A screen whose read is on the wire was there before.
LEMMA ReaderStays ==
  ASSUME TypeInv, GetsFit, [Next]_vars, NEW m \in 1..Len(wire), wire[m].kind = "get",
         NEW i \in 1..Len(stack'), Reading(stack'[i]), stack'[i].id = wire[m].id
  PROVE  i \in 1..Len(stack) /\ SameScreen(i)
<1>1. PICK k \in 1..Len(reads) : reads[k].id = wire[m].id
  BY DEF GetsFit
<1>2. stack'[i].id # FreshId
  <2>1. PICK f : f = FreshId
    OBVIOUS
  <2>2. f \in Nat /\ reads[k].id \in Nat /\ reads[k].id < f
    BY <2>1, FreshIdIsNew
  <2> QED
    BY <1>1, <2>1, <2>2
<1>3. CASE ScreensRemain
  BY <1>3, Elements DEF ScreensRemain
<1>4. CASE LoginComes
  <2>1. i \in 1..Len(stack) /\ stack'[i] = stack[i]
    BY <1>4, Elements, SMTT(30) DEF LoginComes, Reading
  <2> QED
    BY <2>1 DEF SameScreen
<1>5. CASE \E s : ScreenComes(s)
  <2>1. PICK s : ScreenComes(s)
    BY <1>5
  <2>2. /\ Len(stack) \in Nat /\ Len(stack') = Len(stack) + 1 /\ stack'[Len(stack) + 1] = s
        /\ \A j \in 1..Len(stack) : stack'[j] = stack[j]
    BY <2>1 DEF ScreenComes, Comes, TypeInv, AppTyped
  <2>3. i # Len(stack) + 1
    BY <1>2, <2>1, <2>2 DEF ScreenComes, Comes
  <2> QED
    BY <2>2, <2>3 DEF SameScreen
<1> QED
  BY <1>3, <1>4, <1>5, ScreensStep DEF ScreenForms

\* The order of the wire as it was, for a read that stays on it and the screen
\* as it is now.
LEMMA StillAhead ==
  ASSUME TypeInv, LimitsFit, GetsFit, Ordered, [Next]_vars,
         NEW m \in 1..Len(wire), wire[m].kind = "get",
         NEW i \in 1..Len(stack'), Reading(stack'[i]), stack'[i].id = wire[m].id,
         NEW k \in 1..Len(puts'), puts'[k].path = "diary", puts'[k].value <= Limit(stack'[i])
  PROVE  \E j \in 1..Len(puts) : puts'[k] = puts[j] /\ Ahead(m, puts[j])
<1>1. i \in 1..Len(stack) /\ SameScreen(i)
  BY ReaderStays
<1>2. Reading(stack[i]) /\ Limit(stack'[i]) = Limit(stack[i]) /\ wire[m].id = stack[i].id
  BY <1>1 DEF SameScreen, Reading, Limit
<1>3. Limit(stack[i]) \in 0..used.save /\ used.save \in Nat
  BY <1>1, <1>2, Counters DEF LimitsFit
<1>4. PICK j \in 1..Len(puts) : puts'[k] = puts[j]
  <2>1. puts'[k].value # used.save + 1
    BY <1>2, <1>3
  <2> QED
    BY <2>1, DiariesCome
<1>5. Ahead(m, puts[j])
  BY <1>1, <1>2, <1>4 DEF Ordered
<1> QED
  BY <1>4, <1>5

LEMMA OrderedStep ==
  ASSUME TypeInv, SavedFit, LimitsFit, GetsFit, Sending, Ordered, [Next]_vars PROVE Ordered'
<1>0. wire \in Seq(Requests) /\ Len(wire) \in Nat /\ puts \in Seq(Puts) /\ Len(puts) \in Nat
  BY DEF TypeInv, ClientTyped
<1> SUFFICES ASSUME NEW m \in 1..Len(wire'), NEW i \in 1..Len(stack'), NEW k \in 1..Len(puts'),
                    wire'[m].kind = "get", wire'[m].id = stack'[i].id, Reading(stack'[i]),
                    puts'[k].path = "diary", puts'[k].value <= Limit(stack'[i])
             PROVE  Ahead(m, puts[k])'
  BY DEF Ordered, Reading, Limit
<1>1. PICK p, n : p = puts'[k] /\ n = Len(wire)
  OBVIOUS
<1> SUFFICES Ahead(m, p)'
  BY <1>1 DEF Ahead
<1>2. ASSUME m \in 1..Len(wire), \A l \in 1..Len(wire) : wire'[l] = wire[l] PROVE Ahead(m, p)'
  <2>1. wire[m].kind = "get" /\ stack'[i].id = wire[m].id
    BY <1>2
  <2>2. PICK j \in 1..Len(puts) : p = puts[j] /\ Ahead(m, puts[j])
    BY <1>1, <1>2, <2>1, StillAhead, ZenonT(60)
  <2>3. n \in Nat /\ m \in 1..(n + 1) /\ m \in Nat /\ m <= m /\ \A l \in 1..n : wire'[l] = wire[l]
    BY <1>0, <1>1, <1>2
  <2> QED
    BY <2>2, <2>3, AheadGrows
<1>3. CASE wire' = wire
  BY <1>2, <1>3
<1>4. ASSUME NEW q, wire' = Append(wire, q), q.kind # "get" PROVE Ahead(m, p)'
  BY <1>2, <1>4, WireJoins
<1>5. CASE \E q : Made(q)
  <2>1. PICK q, r : Made(q) /\ r = PutRequest(q)
    BY <1>5
  <2>2. r.kind = "put" /\ (wire' = wire \/ wire' = Append(wire, r))
    BY <2>1, RequestTypes DEF Made, Written
  <2> QED
    BY <1>3, <1>4, <2>2
<1>6. CASE Connected /\ puts' = puts /\ \E s : Asked(s)
  <2>1. PICK s : Asked(s)
    BY <1>6
  <2>2. PICK r : r = GetRequest([id |-> s.id, uid |-> s.uid, for |-> s.kind])
    OBVIOUS
  <2>3. wire' = IF conn = "connected" THEN Append(wire, r) ELSE wire
    BY <2>1, <2>2 DEF Asked
  <2>4. CASE m \in 1..Len(wire)
    BY <1>2, <1>3, <2>3, <2>4, WireJoins
  <2>5. CASE m = Len(wire) + 1 /\ conn = "connected"
    <3>1. Ahead(n + 1, p)
      BY <1>1, <1>6, <2>5 DEF Sending
    <3>2. n \in Nat /\ n + 1 \in 1..(n + 1) /\ m \in Nat /\ n + 1 <= m /\ \A l \in 1..n : wire'[l] = wire[l]
      BY <1>0, <1>1, <2>3, <2>5, WireJoins
    <3> QED
      BY <3>1, <3>2, AheadGrows
  <2> QED
    BY <1>3, <2>3, <2>4, <2>5, WireJoins
<1>7. CASE UNCHANGED <<puts, reads>> /\ \E first : Replayed(first)
  <2>1. PICK first : Replayed(first)
    BY <1>7
  <2>2. first \in Seq(Requests) /\ Resent(first) /\ \A l \in 1..Len(first) : first[l].kind = "auth"
    BY <2>1 DEF Replayed
  <2>3. \E j \in 1..Len(reads) : m = Len(first) + Len(puts) + j
    BY <2>2, ResentComes
  <2>4. m \in Nat /\ m > Len(first) + Len(puts) /\ k \in 1..Len(puts) /\ p = puts[k]
    BY <1>0, <1>1, <1>7, <2>2, <2>3, SMTT(30)
  <2> QED
    BY <2>1, <2>4, AheadReplayed
<1>8. CASE wire' = <<>>
  BY <1>8
<1>9. CASE Served
  <2>1. PICK a : a = m + 1
    OBVIOUS
  <2>2. /\ n \in Nat \ {0} /\ a \in 1..Len(wire) /\ wire'[m] = wire[a]
        /\ \A l \in 1..(n - 1) : wire'[l] = wire[l + 1]
    BY <1>1, <1>9, <2>1, ServedShifts
  <2>3. wire[a].kind = "get" /\ stack'[i].id = wire[a].id
    BY <2>2
  <2>4. PICK j \in 1..Len(puts) : p = puts[j] /\ Ahead(a, puts[j])
    BY <1>1, <2>2, <2>3, StillAhead
  <2>5. wire[1].kind = "put" => wire[1].put # p
    BY <1>1, <1>9, ServedOthers
  <2>6. n - 1 \in Nat /\ m \in 1..((n - 1) + 1) /\ Ahead(m + 1, p)
    BY <1>1, <2>1, <2>2, <2>4
  <2> QED
    BY <2>2, <2>5, <2>6, AheadShifts
<1> QED
  BY <1>3, <1>4, <1>5, <1>6, <1>7, <1>8, <1>9, ClientStep DEF ClientForms

-----------------------------------------------------------------------------
(* What the reads behind a screen have seen                                *)

\* A screen gets what its read has found from the answer to it.
LEMMA FoundStep ==
  ASSUME TypeInv, [Next]_vars, NEW i \in 1..Len(stack'), stack'[i].found # None
  PROVE  /\ i \in 1..Len(stack) /\ SameScreen(i)
         /\ \/ stack'[i].found = stack[i].found
            \/ /\ ServeGet /\ wire[1].kind = "get" /\ wire[1].id = stack[i].id /\ Reading(stack[i])
               /\ stack[i].uid \in Users
               /\ stack[i].kind = "calendar" => stack'[i].found = DaysWithDiary(stack[i].uid)
<1>0. Len(stack) \in Nat
  BY Elements
<1>1. CASE ScreensRemain /\ ~ServeGet
  BY <1>0, <1>1 DEF ScreensRemain
<1>2. CASE ScreensRemain /\ ServeGet
  <2>1. i \in 1..Len(stack) /\ SameScreen(i)
    BY <1>0, <1>2 DEF ScreensRemain
  <2>2. PICK k \in DOMAIN reads : reads[k].id = Head(wire).id /\ ReadAnswered(reads[k])
    BY <1>2 DEF ServeGet
  <2>3. k \in 1..Len(reads)
    BY <2>2 DEF TypeInv, ClientTyped
  <2>4. PICK r : r = reads[k]
    OBVIOUS
  <2>5. r \in ReadSet /\ ReadAnswered(r) /\ up = "running"
    BY <1>2, <2>2, <2>3, <2>4, Elements DEF ServeGet
  <2>6. \A j \in 1..Len(stack) : stack[j].id = r.id => stack[j].kind = r.for /\ stack[j].uid = r.uid
    BY <2>3, <2>4 DEF TypeInv, IdsFit
  <2>7. \/ stack'[i].found = stack[i].found
        \/ /\ stack[i].id = r.id
           /\ \/ stack[i].kind = "calendar" /\ stack'[i].found = DaysWithDiary(r.uid)
              \/ stack[i].kind = "image" /\ stack'[i].found \in Nat
    BY <2>1, <2>5, <2>6, AnswerFits
  <2>8. wire # <<>> /\ Head(wire).kind = "get" /\ Head(wire) = wire[1]
    BY <1>2, NextRequest DEF ServeGet
  <2>9. r.uid \in Users
    BY <2>5 DEF ReadSet
  <2>10. ASSUME stack[i].id = r.id, stack[i].kind \in {"image", "calendar"},
                stack[i].kind = "calendar" => stack'[i].found = DaysWithDiary(r.uid)
         PROVE  /\ ServeGet /\ wire[1].kind = "get" /\ wire[1].id = stack[i].id /\ Reading(stack[i])
                /\ stack[i].uid \in Users
                /\ stack[i].kind = "calendar" => stack'[i].found = DaysWithDiary(stack[i].uid)
    <3>1. stack[i].uid = r.uid
      BY <2>1, <2>6, <2>10
    <3>2. wire[1].kind = "get" /\ wire[1].id = stack[i].id
      BY <2>2, <2>4, <2>8, <2>10
    <3> QED
      BY <1>2, <2>9, <2>10, <3>1, <3>2 DEF Reading
  <2> QED
    BY <2>1, <2>7, <2>10
<1>3. CASE LoginComes
  <2>1. i \in 1..Len(stack) /\ stack'[i] = stack[i]
    BY <1>0, <1>3 DEF LoginComes
  <2> QED
    BY <2>1 DEF SameScreen
<1>4. CASE \E s : ScreenComes(s)
  <2>1. PICK s : ScreenComes(s)
    BY <1>4
  <2>2. /\ Len(stack') = Len(stack) + 1 /\ stack'[Len(stack) + 1] = s /\ s.found = None
        /\ \A j \in 1..Len(stack) : stack'[j] = stack[j]
    BY <2>1 DEF ScreenComes, Comes, TypeInv, AppTyped
  <2>3. i # Len(stack) + 1
    BY <2>2
  <2> QED
    BY <1>0, <2>2, <2>3 DEF SameScreen
<1> QED
  BY <1>1, <1>2, <1>3, <1>4, ScreensStep DEF ScreenForms

LEMMA SeenStep == ASSUME TypeInv, LimitsFit, Ordered, Seen, [Next]_vars PROVE Seen'
<1> SUFFICES ASSUME NEW i \in 1..Len(stack'), NEW k \in 1..Len(puts'),
                    Reading(stack'[i]), stack'[i].found # None, puts'[k].path = "diary"
             PROVE  puts'[k].value > Limit(stack'[i])
  BY DEF Seen, Reading, Limit
<1>1. i \in 1..Len(stack) /\ SameScreen(i)
  BY FoundStep
<1>2. Reading(stack[i]) /\ Limit(stack'[i]) = Limit(stack[i])
  BY <1>1 DEF SameScreen, Reading, Limit
<1>3. Limit(stack[i]) \in 0..used.save /\ used.save \in Nat
  BY <1>1, <1>2, Counters DEF LimitsFit
<1>4. CASE puts'[k].value = used.save + 1
  BY <1>2, <1>3, <1>4
<1>5. CASE \E j \in 1..Len(puts) : puts'[k] = puts[j]
  <2>1. PICK j \in 1..Len(puts) : puts'[k] = puts[j]
    BY <1>5
  <2>2. puts[j].path = "diary" /\ puts[j].value \in Nat
    BY <2>1, Elements DEF Puts
  <2>3. CASE stack'[i].found = stack[i].found
    BY <1>1, <1>2, <2>1, <2>2, <2>3 DEF Seen
  <2>4. CASE ServeGet /\ wire[1].kind = "get" /\ wire[1].id = stack[i].id
    <3>1. 1 \in 1..Len(wire)
      BY <2>4, NextRequest DEF ServeGet
    <3>2. ~Ahead(1, puts[j])
      BY DEF Ahead
    <3>3. ~(puts[j].value <= Limit(stack[i]))
      BY <1>1, <1>2, <2>2, <2>4, <3>1, <3>2 DEF Ordered
    <3>4. PICK v, l : v = puts[j].value /\ l = Limit(stack[i])
      OBVIOUS
    <3>5. v \in Nat /\ l \in Nat /\ ~(v <= l)
      BY <1>3, <2>2, <3>3, <3>4
    <3> QED
      BY <1>2, <2>1, <3>4, <3>5
  <2> QED
    BY <2>3, <2>4, FoundStep
<1> QED
  BY <1>4, <1>5, DiariesCome

\* A calendar misses only later diaries.
MarksFit ==
  \A i \in 1..Len(stack) : stack[i].kind = "calendar" /\ stack[i].found # None =>
    /\ stack[i].uid \in Users
    /\ \A d \in Days : diaries[stack[i].uid][d] # None /\ d \notin stack[i].found =>
                          diaries[stack[i].uid][d] > stack[i].asOf

\* The server stores a diary of the queue, or none.
LEMMA DiariesStep ==
  ASSUME TypeInv, [Next]_vars
  PROVE  \/ diaries' = diaries
         \/ \E j \in 1..Len(puts) : /\ puts[j].path = "diary" /\ puts[j].uid \in Users /\ puts[j].day \in Days
                                    /\ diaries' = [diaries EXCEPT ![puts[j].uid][puts[j].day] = puts[j].value]
<1>1. CASE ServePut
  <2>1. PICK j \in DOMAIN puts : puts[j] = Head(wire).put
    BY <1>1 DEF ServePut
  <2>2. PICK p : p = Head(wire).put
    OBVIOUS
  <2>3. j \in 1..Len(puts) /\ p = puts[j]
    BY <2>1, <2>2 DEF TypeInv, ClientTyped
  <2>4. CASE p.path = "diary" /\ diaries' = [diaries EXCEPT ![p.uid][p.day] = p.value]
    <3>1. p.uid \in Users /\ p.day \in Days
      BY <2>3, <2>4, Elements DEF Puts
    <3> QED
      BY <2>3, <2>4, <3>1
  <2>5. diaries' = IF cred = p.uid /\ p.path = "diary"
                   THEN [diaries EXCEPT ![p.uid][p.day] = p.value] ELSE diaries
    BY <1>1, <2>2 DEF ServePut
  <2> QED
    BY <2>4, <2>5
<1>2. CASE User
  <2>1. CASE \E g \in Goes : ButtonClicked(g[1], g[2])
    BY <2>1 DEF ButtonClicked, serverVars
  <2>2. CASE Back \/ LoginButtonClick \/ RegisterButtonClick \/ DeleteUserClicked \/ LogoutClicked
    BY <2>2 DEF Back, LoginButtonClick, RegisterButtonClick, DeleteUserClicked, LogoutClicked, Call, serverVars
  <2>3. CASE SaveButtonClicked
    BY <2>3 DEF SaveButtonClicked, serverVars
  <2>4. CASE SaveOnCalendarDiary
    BY <2>4 DEF SaveOnCalendarDiary, serverVars
  <2> QED
    BY <1>2, <2>1, <2>2, <2>3, <2>4 DEF User
<1>3. CASE Client
  BY <1>3 DEF Client, Retry, TokenIsLookedUp, TokenIsRefreshed, OnReady, ConnectionLost, ReadTimesOut, MainQueue,
     serverVars
<1>4. CASE Services
  BY <1>4 DEF Services, CallSucceeds, CallFails, AnalysisAnswered, AnalysisFails, Midnight, serverVars
<1>5. CASE ServeAuth \/ ServeGet \/ Die \/ Launch \/ UNCHANGED vars
  BY <1>5 DEF ServeAuth, ServeGet, Die, Launch, vars, serverVars
<1> QED
  BY <1>1, <1>2, <1>3, <1>4, <1>5 DEF Next, Server

LEMMA MarksFitStep == ASSUME TypeInv, Seen, MarksFit, [Next]_vars PROVE MarksFit'
<1> SUFFICES ASSUME NEW i \in 1..Len(stack'), stack'[i].kind = "calendar", stack'[i].found # None
             PROVE  /\ stack'[i].uid \in Users
                    /\ \A d \in Days : diaries'[stack'[i].uid][d] # None /\ d \notin stack'[i].found =>
                                          diaries'[stack'[i].uid][d] > stack'[i].asOf
  BY DEF MarksFit, Days
<1>1. i \in 1..Len(stack) /\ SameScreen(i)
  BY FoundStep
<1>2. PICK u, a, F : u = stack[i].uid /\ a = stack[i].asOf /\ F = stack'[i].found
  OBVIOUS
<1>3. stack'[i].uid = u /\ stack'[i].asOf = a /\ stack[i].kind = "calendar"
  BY <1>1, <1>2 DEF SameScreen
<1> SUFFICES u \in Users /\ \A d \in Days : diaries'[u][d] # None /\ d \notin F => diaries'[u][d] > a
  BY <1>2, <1>3
<1>4. CASE stack'[i].found = stack[i].found
  <2>1. u \in Users /\ \A d \in Days : diaries[u][d] # None /\ d \notin F => diaries[u][d] > a
    BY <1>1, <1>2, <1>3, <1>4 DEF MarksFit
  <2>2. CASE diaries' = diaries
    BY <2>1, <2>2
  <2>3. ASSUME NEW j \in 1..Len(puts), puts[j].path = "diary", puts[j].uid \in Users, puts[j].day \in Days,
               diaries' = [diaries EXCEPT ![puts[j].uid][puts[j].day] = puts[j].value]
        PROVE  \A d \in Days : diaries'[u][d] # None /\ d \notin F => diaries'[u][d] > a
    <3>1. puts[j].value > a
      <4>1. Reading(stack[i]) /\ Limit(stack[i]) = a /\ stack[i].found # None
        BY <1>2, <1>3, <1>4 DEF Reading, Limit
      <4> QED
        BY <1>1, <2>3, <4>1 DEF Seen
    <3>2. PICK p : p = puts[j]
      OBVIOUS
    <3>3. diaries' = [diaries EXCEPT ![p.uid][p.day] = p.value] /\ p.uid \in Users /\ p.day \in Days /\ p.value > a
      BY <2>3, <3>1, <3>2
    <3>4. diaries \in [Users -> [Days -> Nat \cup {None}]]
      BY DEF TypeInv, ServerTyped
    <3>5. \A d \in Days : diaries'[u][d] = diaries[u][d] \/ diaries'[u][d] = p.value
      BY <2>1, <3>3, <3>4
    <3> QED
      BY <2>1, <3>3, <3>5
  <2> QED
    BY <2>1, <2>2, <2>3, DiariesStep
<1>5. CASE ServeGet /\ stack[i].uid \in Users /\ stack'[i].found = DaysWithDiary(stack[i].uid)
  <2>1. diaries' = diaries /\ u \in Users /\ F = DaysWithDiary(u)
    BY <1>2, <1>5 DEF ServeGet, serverVars
  <2>2. \A d \in Days : d \notin F => diaries[u][d] = None
    BY <2>1 DEF DaysWithDiary
  <2> QED
    BY <2>1, <2>2
<1> QED
  BY <1>3, <1>4, <1>5, FoundStep

ReadsInv == PostsFit /\ QueueInv /\ MarksFit

LEMMA ReadsInvInit == Init => TypeInv /\ OneToken /\ ReadsInv
<1> SUFFICES ASSUME Init PROVE TypeInv /\ OneToken /\ ReadsInv
  OBVIOUS
<1>1. TypeInv /\ Launched
  BY InitTypes, InitLaunches
<1>2. main = <<>> /\ posts = {} /\ puts = <<>> /\ wire = <<>>
  BY DEF Init
<1>3. OneToken
  BY <1>2 DEF OneToken
<1>4. Len(stack) \in {1, 2} /\ stack[1].kind = "login" /\ (Len(stack) = 2 => stack[2].kind = "home")
  BY <1>1 DEF Launched, LaunchScreens
<1>5. \A i \in 1..Len(stack) : ~Reading(stack[i]) /\ stack[i].kind # "calendar"
  BY <1>4 DEF Reading
<1>6. PostsFit /\ MarksFit /\ LimitsFit
  BY <1>2, <1>5 DEF PostsFit, MarksFit, LimitsFit
<1>7. SavedFit /\ GetsFit /\ Sending /\ Ordered /\ Seen
  BY <1>2 DEF SavedFit, GetsFit, Sending, Ordered, Seen
<1> QED
  BY <1>1, <1>3, <1>6, <1>7 DEF ReadsInv, QueueInv

LEMMA ReadsInvStep == TypeInv /\ OneToken /\ ReadsInv /\ [Next]_vars => TypeInv' /\ OneToken' /\ ReadsInv'
<1> SUFFICES ASSUME TypeInv, OneToken, ReadsInv, [Next]_vars PROVE TypeInv' /\ OneToken' /\ ReadsInv'
  OBVIOUS
<1>1. PostsFit /\ SavedFit /\ LimitsFit /\ GetsFit /\ Sending /\ Ordered /\ Seen /\ MarksFit
  BY DEF ReadsInv, QueueInv
<1>2. TypeInv' /\ OneToken'
  BY TypeInvStep, OneTokenStep
<1>3. PostsFit' /\ MarksFit' /\ LimitsFit' /\ SavedFit'
  BY <1>1, PostsFitStep, MarksFitStep, LimitsFitStep, SavedFitStep
<1>4. GetsFit' /\ Sending' /\ Ordered' /\ Seen'
  BY <1>1, GetsFitStep, SendingStep, OrderedStep, SeenStep
<1> QED
  BY <1>2, <1>3, <1>4 DEF ReadsInv, QueueInv

\* For any users, saves and failures: the picture of a result counts the diary it
\* answers, which has left the queue of writes when the count is read.
THEOREM PicturesHaveCounted == Spec => []PicturesCountTheirDiary
<1>1. TypeInv /\ ReadsInv => PicturesCountTheirDiary
  <2> SUFFICES ASSUME TypeInv, ReadsInv, NEW s \in Range(stack), s.kind = "image", s.found # None,
                      NEW p \in Range(puts), p.path = "diary", p.value = s.about
               PROVE  FALSE
    BY DEF PicturesCountTheirDiary
  <2>1. PICK i \in 1..Len(stack) : s = stack[i]
    BY DEF Range, TypeInv, AppTyped
  <2>2. PICK j \in 1..Len(puts) : p = puts[j]
    BY DEF Range, TypeInv, ClientTyped
  <2>3. Reading(stack[i]) /\ Limit(stack[i]) = s.about
    BY <2>1 DEF Reading, Limit
  <2>4. p.value > s.about
    BY <2>1, <2>2, <2>3 DEF ReadsInv, QueueInv, Seen
  <2>5. p.value \in Nat
    BY <2>2, Elements DEF Puts
  <2> QED
    BY <2>4, <2>5
<1> QED
  BY <1>1, ReadsInvInit, ReadsInvStep, PTL DEF Spec

\* For any users, saves and failures: a calendar that has read its dates misses
\* only diaries saved after it loaded.
THEOREM MarksMissLaterDiaries == Spec => []MarksMissOnlyLaterDiaries
<1>1. TypeInv /\ ReadsInv => MarksMissOnlyLaterDiaries
  <2> SUFFICES ASSUME TypeInv, ReadsInv, NEW s \in Range(stack), s.kind = "calendar", s.found # None,
                      NEW d \in Days, diaries[s.uid][d] # None, d \notin s.found
               PROVE  diaries[s.uid][d] > s.asOf
    BY DEF MarksMissOnlyLaterDiaries
  <2>1. PICK i \in 1..Len(stack) : s = stack[i]
    BY DEF Range, TypeInv, AppTyped
  <2> QED
    BY <2>1 DEF ReadsInv, MarksFit
<1> QED
  BY <1>1, ReadsInvInit, ReadsInvStep, PTL DEF Spec

-----------------------------------------------------------------------------
(* The server meets the writes in the order of the queue                   *)

\* f says where on the wire w the writes of the queue q are; w has no others.
Along(f, q, w) ==
  /\ f \in [1..Len(q) -> 1..Len(w)]
  /\ \A i, j \in 1..Len(q) : i < j => f[i] < f[j]
  /\ \A i \in 1..Len(q) : w[f[i]].kind = "put" /\ w[f[i]].put = q[i]
  /\ \A m \in 1..Len(w) : w[m].kind = "put" => \E i \in 1..Len(q) : f[i] = m

InStep == conn = "connected" => \E f : Along(f, puts, wire)

\* t is q with x behind it.
Grown(t, q, x) == Len(t) = Len(q) + 1 /\ t[Len(q) + 1] = x /\ \A i \in 1..Len(q) : t[i] = q[i]

\* t is q without its first element.
Rest(t, q) == Len(t) = Len(q) - 1 /\ \A i \in 1..(Len(q) - 1) : t[i] = q[i + 1]

\* The wire v holds k requests, then the queue q, then r requests, which are no writes.
Between(q, v, k, r) ==
  /\ Len(v) = k + Len(q) + r
  /\ \A m \in 1..k : v[m].kind # "put"
  /\ \A i \in 1..Len(q) : v[k + i].kind = "put" /\ v[k + i].put = q[i]
  /\ \A i \in 1..r : v[k + Len(q) + i].kind # "put"

\* A write joins both.
LEMMA AlongPut ==
  ASSUME NEW q, NEW w, NEW n \in Nat, NEW l \in Nat, n = Len(q), l = Len(w), NEW f, Along(f, q, w),
         NEW t, NEW p, Grown(t, q, p), NEW v, NEW x, Grown(v, w, x), x.kind = "put", x.put = p
  PROVE  \E g : Along(g, t, v)
<1>0. /\ Len(t) = n + 1 /\ t[n + 1] = p /\ \A i \in 1..n : t[i] = q[i]
      /\ Len(v) = l + 1 /\ v[l + 1] = x /\ \A m \in 1..l : v[m] = w[m]
  BY DEF Grown
<1>1. /\ \A i \in 1..n : f[i] \in 1..l /\ w[f[i]].kind = "put" /\ w[f[i]].put = q[i]
      /\ \A i, j \in 1..n : i < j => f[i] < f[j]
      /\ \A m \in 1..l : w[m].kind = "put" => \E i \in 1..n : f[i] = m
  BY DEF Along
<1>2. PICK g : g = [i \in 1..(n + 1) |-> IF i \in 1..n THEN f[i] ELSE l + 1]
  OBVIOUS
<1>3. /\ \A i \in 1..(n + 1) : i \in 1..n \/ i = n + 1
      /\ \A m \in 1..(l + 1) : m \in 1..l \/ m = l + 1
      /\ n + 1 \notin 1..n /\ n + 1 \in 1..(n + 1)
      /\ \A i \in 1..n : i \in 1..(n + 1)
      /\ \A m \in 1..l : m \in 1..(l + 1) /\ m < l + 1
  OBVIOUS
<1>4. /\ \A i \in 1..n : g[i] = f[i]
      /\ g[n + 1] = l + 1
  BY <1>2, <1>3
<1>5. g \in [1..(n + 1) -> 1..(l + 1)]
  BY <1>1, <1>2, <1>3
<1>6. ASSUME NEW i \in 1..(n + 1), NEW j \in 1..(n + 1), i < j PROVE g[i] < g[j]
  <2>1. i \in 1..n /\ f[i] \in 1..l /\ g[i] = f[i]
    BY <1>1, <1>4, <1>6
  <2>2. CASE j = n + 1
    BY <1>4, <2>1, <2>2
  <2>3. CASE j \in 1..n
    BY <1>1, <1>4, <1>6, <2>1, <2>3
  <2> QED
    BY <1>3, <2>2, <2>3
<1>7. ASSUME NEW i \in 1..(n + 1) PROVE v[g[i]].kind = "put" /\ v[g[i]].put = t[i]
  <2>1. CASE i \in 1..n
    BY <1>0, <1>1, <1>4, <2>1
  <2>2. CASE i = n + 1
    BY <1>0, <1>4, <2>2
  <2> QED
    BY <1>3, <2>1, <2>2
<1>8. ASSUME NEW m \in 1..(l + 1), v[m].kind = "put" PROVE \E i \in 1..(n + 1) : g[i] = m
  <2>1. CASE m \in 1..l
    <3>1. PICK i \in 1..n : f[i] = m
      BY <1>0, <1>1, <1>8, <2>1
    <3> QED
      BY <1>3, <1>4, <3>1
  <2>2. CASE m = l + 1
    BY <1>3, <1>4, <2>2
  <2> QED
    BY <1>3, <2>1, <2>2
<1>9. Along(g, t, v)
  BY <1>0, <1>5, <1>6, <1>7, <1>8 DEF Along
<1> QED
  BY <1>9

\* Another request joins the wire.
LEMMA AlongOther ==
  ASSUME NEW q, NEW w, NEW n \in Nat, NEW l \in Nat, n = Len(q), l = Len(w), NEW f, Along(f, q, w),
         NEW v, NEW x, Grown(v, w, x), x.kind # "put"
  PROVE  \E g : Along(g, q, v)
<1>0. Len(v) = l + 1 /\ v[l + 1] = x /\ \A m \in 1..l : v[m] = w[m]
  BY DEF Grown
<1>1. /\ \A i \in 1..n : f[i] \in 1..l /\ w[f[i]].kind = "put" /\ w[f[i]].put = q[i]
      /\ \A i, j \in 1..n : i < j => f[i] < f[j]
      /\ \A m \in 1..l : w[m].kind = "put" => \E i \in 1..n : f[i] = m
  BY DEF Along
<1>2. PICK g : g = [i \in 1..n |-> f[i]]
  OBVIOUS
<1>3. /\ \A m \in 1..(l + 1) : m \in 1..l \/ m = l + 1
      /\ \A m \in 1..l : m \in 1..(l + 1)
  OBVIOUS
<1>4. \A i \in 1..n : g[i] = f[i]
  BY <1>2
<1>5. g \in [1..n -> 1..(l + 1)]
  BY <1>1, <1>2, <1>3
<1>6. \A i, j \in 1..n : i < j => g[i] < g[j]
  BY <1>1, <1>4
<1>7. \A i \in 1..n : v[g[i]].kind = "put" /\ v[g[i]].put = q[i]
  BY <1>0, <1>1, <1>4
<1>8. ASSUME NEW m \in 1..(l + 1), v[m].kind = "put" PROVE \E i \in 1..n : g[i] = m
  <2>1. m \in 1..l /\ v[m] = w[m]
    BY <1>0, <1>3, <1>8
  <2>2. PICK i \in 1..n : f[i] = m
    BY <1>1, <1>8, <2>1
  <2> QED
    BY <1>4, <2>2
<1>9. Along(g, q, v)
  BY <1>0, <1>5, <1>6, <1>7, <1>8 DEF Along
<1> QED
  BY <1>9

\* The queue is sent again, behind requests that are no writes and before others.
LEMMA AlongReplay ==
  ASSUME NEW q, NEW v, NEW n \in Nat, NEW k \in Nat, NEW r \in Nat, n = Len(q), Between(q, v, k, r)
  PROVE  \E g : Along(g, q, v)
<1>0. /\ Len(v) = k + n + r
      /\ \A m \in 1..k : v[m].kind # "put"
      /\ \A i \in 1..n : v[k + i].kind = "put" /\ v[k + i].put = q[i]
      /\ \A i \in 1..r : v[k + n + i].kind # "put"
  BY DEF Between
<1>1. PICK g : g = [i \in 1..n |-> k + i]
  OBVIOUS
<1>2. \A i \in 1..n : g[i] = k + i /\ k + i \in 1..(k + n + r)
  BY <1>1
<1>3. g \in [1..n -> 1..(k + n + r)]
  BY <1>1, <1>2
<1>4. \A i, j \in 1..n : i < j => g[i] < g[j]
  BY <1>2
<1>5. \A i \in 1..n : v[g[i]].kind = "put" /\ v[g[i]].put = q[i]
  BY <1>0, <1>2
<1>6. ASSUME NEW m \in 1..(k + n + r), v[m].kind = "put" PROVE \E i \in 1..n : g[i] = m
  <2>1. m \notin 1..k
    BY <1>0, <1>6
  <2>2. ASSUME m > k + n PROVE FALSE
    <3>1. PICK i : i = m - (k + n)
      OBVIOUS
    <3>2. i \in 1..r /\ m = k + n + i
      BY <2>2, <3>1
    <3> QED
      BY <1>0, <1>6, <3>2
  <2>3. PICK i : i = m - k
    OBVIOUS
  <2>4. i \in 1..n /\ k + i = m
    BY <2>1, <2>2, <2>3
  <2> QED
    BY <1>2, <2>4
<1>7. Along(g, q, v)
  BY <1>0, <1>3, <1>4, <1>5, <1>6 DEF Along
<1> QED
  BY <1>7

\* A request that is no write leaves the wire.
LEMMA AlongShift ==
  ASSUME NEW q, NEW w, NEW n \in Nat, NEW l \in Nat, n = Len(q), l = Len(w), NEW f, Along(f, q, w),
         NEW v, Rest(v, w), l > 0, w[1].kind # "put"
  PROVE  \E g : Along(g, q, v)
<1>0. Len(v) = l - 1 /\ \A m \in 1..(l - 1) : v[m] = w[m + 1]
  BY DEF Rest
<1>1. /\ \A i \in 1..n : f[i] \in 1..l /\ w[f[i]].kind = "put" /\ w[f[i]].put = q[i]
      /\ \A i, j \in 1..n : i < j => f[i] < f[j]
      /\ \A m \in 1..l : w[m].kind = "put" => \E i \in 1..n : f[i] = m
  BY DEF Along
<1>2. PICK g : g = [i \in 1..n |-> f[i] - 1]
  OBVIOUS
<1>3. \A i \in 1..n : f[i] # 1
  BY <1>1
<1>4. \A i \in 1..n : g[i] = f[i] - 1 /\ g[i] \in 1..(l - 1) /\ g[i] + 1 = f[i]
  BY <1>1, <1>2, <1>3
<1>5. g \in [1..n -> 1..(l - 1)]
  BY <1>2, <1>4
<1>6. ASSUME NEW i \in 1..n, NEW j \in 1..n, i < j PROVE g[i] < g[j]
  <2>1. f[i] \in 1..l /\ f[j] \in 1..l /\ f[i] < f[j] /\ g[i] = f[i] - 1 /\ g[j] = f[j] - 1
    BY <1>1, <1>4, <1>6
  <2> QED
    BY <2>1
<1>7. ASSUME NEW i \in 1..n PROVE v[g[i]].kind = "put" /\ v[g[i]].put = q[i]
  <2>1. v[g[i]] = w[f[i]]
    BY <1>0, <1>4
  <2> QED
    BY <1>1, <2>1
<1>8. ASSUME NEW m \in 1..(l - 1), v[m].kind = "put" PROVE \E i \in 1..n : g[i] = m
  <2>1. m + 1 \in 1..l /\ w[m + 1].kind = "put"
    BY <1>0, <1>8
  <2>2. PICK i \in 1..n : f[i] = m + 1
    BY <1>1, <2>1
  <2> QED
    BY <1>4, <2>2
<1>9. Along(g, q, v)
  BY <1>0, <1>5, <1>6, <1>7, <1>8 DEF Along
<1> QED
  BY <1>9

\* The write that is served is the first of the queue, and leaves both.
LEMMA AlongFirst ==
  ASSUME NEW q, NEW w, NEW n \in Nat, NEW l \in Nat, n = Len(q), l = Len(w), NEW f, Along(f, q, w),
         l > 0, w[1].kind = "put"
  PROVE  1 \in 1..n /\ f[1] = 1 /\ q[1] = w[1].put
<1>1. /\ \A i \in 1..n : f[i] \in 1..l /\ w[f[i]].kind = "put" /\ w[f[i]].put = q[i]
      /\ \A i, j \in 1..n : i < j => f[i] < f[j]
      /\ \A m \in 1..l : w[m].kind = "put" => \E i \in 1..n : f[i] = m
  BY DEF Along
<1>2. 1 \in 1..l
  OBVIOUS
<1>3. PICK i \in 1..n : f[i] = 1
  BY <1>1, <1>2
<1>4. 1 \in 1..n /\ (i = 1 \/ 1 < i)
  BY <1>3
<1>5. PICK a : a = f[1]
  OBVIOUS
<1>6. a \in 1..l /\ (1 < i => a < 1)
  BY <1>1, <1>3, <1>4, <1>5
<1>7. i = 1
  BY <1>4, <1>6
<1> QED
  BY <1>1, <1>3, <1>4, <1>7

LEMMA AlongServe ==
  ASSUME NEW q, NEW w, NEW n \in Nat, NEW l \in Nat, n = Len(q), l = Len(w), NEW f, Along(f, q, w),
         l > 0, w[1].kind = "put",
         NEW t, Rest(t, q), NEW v, Rest(v, w)
  PROVE  \E g : Along(g, t, v)
<1>1. 1 \in 1..n /\ f[1] = 1 /\ q[1] = w[1].put
  BY AlongFirst
<1>2. /\ Len(t) = n - 1 /\ \A i \in 1..(n - 1) : t[i] = q[i + 1]
      /\ Len(v) = l - 1 /\ \A m \in 1..(l - 1) : v[m] = w[m + 1]
  BY DEF Rest
<1>3. /\ \A i \in 1..n : f[i] \in 1..l /\ w[f[i]].kind = "put" /\ w[f[i]].put = q[i]
      /\ \A i, j \in 1..n : i < j => f[i] < f[j]
      /\ \A m \in 1..l : w[m].kind = "put" => \E i \in 1..n : f[i] = m
  BY DEF Along
<1>4. PICK g : g = [i \in 1..(n - 1) |-> f[i + 1] - 1]
  OBVIOUS
<1>5. \A i \in 1..(n - 1) : i + 1 \in 1..n /\ 1 < i + 1
  OBVIOUS
<1>6. \A i \in 1..(n - 1) : g[i] = f[i + 1] - 1 /\ g[i] \in 1..(l - 1) /\ g[i] + 1 = f[i + 1]
  BY <1>1, <1>3, <1>4, <1>5
<1>7. g \in [1..(n - 1) -> 1..(l - 1)]
  BY <1>4, <1>6
<1>8. ASSUME NEW i \in 1..(n - 1), NEW j \in 1..(n - 1), i < j PROVE g[i] < g[j]
  <2>1. i + 1 \in 1..n /\ j + 1 \in 1..n /\ i + 1 < j + 1
    BY <1>8
  <2>2. PICK a, b : a = i + 1 /\ b = j + 1
    OBVIOUS
  <2>3. f[a] \in 1..l /\ f[b] \in 1..l /\ f[a] < f[b]
    BY <1>3, <2>1, <2>2
  <2>4. g[i] = f[a] - 1 /\ g[j] = f[b] - 1
    BY <1>6, <2>2
  <2>5. PICK c, d : c = f[a] /\ d = f[b]
    OBVIOUS
  <2>6. c \in 1..l /\ d \in 1..l /\ c < d
    BY <2>3, <2>5
  <2>7. c - 1 < d - 1
    BY <2>6
  <2> QED
    BY <2>4, <2>5, <2>7
<1>9. ASSUME NEW i \in 1..(n - 1) PROVE v[g[i]].kind = "put" /\ v[g[i]].put = t[i]
  <2>1. PICK j : j = i + 1
    OBVIOUS
  <2>2. j \in 1..n /\ t[i] = q[j] /\ g[i] \in 1..(l - 1) /\ g[i] + 1 = f[j]
    BY <1>2, <1>5, <1>6, <2>1
  <2>3. v[g[i]] = w[f[j]]
    BY <1>2, <2>2
  <2> QED
    BY <1>3, <2>2, <2>3
<1>10. ASSUME NEW m \in 1..(l - 1), v[m].kind = "put" PROVE \E i \in 1..(n - 1) : g[i] = m
  <2>1. m + 1 \in 1..l /\ w[m + 1].kind = "put"
    BY <1>2, <1>10
  <2>2. PICK i \in 1..n : f[i] = m + 1
    BY <1>3, <2>1
  <2>3. i # 1
    BY <1>1, <2>2
  <2>4. PICK j : j = i - 1
    OBVIOUS
  <2>5. j \in 1..(n - 1) /\ j + 1 = i
    BY <2>3, <2>4
  <2>6. g[j] \in 1..(l - 1) /\ g[j] + 1 = m + 1
    BY <1>6, <2>2, <2>5
  <2>7. g[j] = m
    BY <2>6
  <2> QED
    BY <2>5, <2>7
<1>11. Along(g, t, v)
  BY <1>2, <1>7, <1>8, <1>9, <1>10 DEF Along
<1> QED
  BY <1>11

LEMMA InStepReplayed ==
  ASSUME TypeInv, UNCHANGED <<puts, reads>>, NEW first, Replayed(first)
  PROVE  \E g : Along(g, puts', wire')
<1>1. PICK q, v, k, n, r : q = puts /\ v = wire' /\ k = Len(first) /\ n = Len(puts) /\ r = Len(reads)
  OBVIOUS
<1>2. /\ n \in Nat /\ r \in Nat
      /\ \A i \in 1..n : PutRequest(q[i]).kind = "put" /\ PutRequest(q[i]).put = q[i]
      /\ \A i \in 1..r : GetRequest(reads[i]).kind = "get"
  BY <1>1, Elements, RequestTypes
<1>3. /\ k \in Nat /\ Len(v) = k + n + r
      /\ \A m \in 1..k : v[m].kind # "put"
      /\ \A i \in 1..n : v[k + i] = PutRequest(q[i])
      /\ \A i \in 1..r : v[k + n + i] = GetRequest(reads[i])
  BY <1>1, <1>2 DEF Replayed, Resent
<1>4. /\ \A i \in 1..n : v[k + i].kind = "put" /\ v[k + i].put = q[i]
      /\ \A i \in 1..r : v[k + n + i].kind # "put"
  BY <1>2, <1>3
<1>5. \E g : Along(g, q, v)
  <2>1. n = Len(q)
    BY <1>1
  <2>2. Between(q, v, k, r)
    BY <1>3, <1>4, <2>1 DEF Between
  <2> QED
    BY <1>2, <1>3, <2>1, <2>2, AlongReplay
<1> QED
  BY <1>1, <1>5

LEMMA InStepServed ==
  ASSUME TypeInv, NEW f, Along(f, puts, wire), Served
  PROVE  \E g : Along(g, puts', wire')
<1>1. PICK q, w, t, v, n, l : q = puts /\ w = wire /\ t = puts' /\ v = wire' /\ n = Len(puts) /\ l = Len(wire)
  OBVIOUS
<1>2. /\ n \in Nat /\ l \in Nat /\ l > 0 /\ Len(v) = l - 1 /\ Head(wire) = w[1] /\ q \in Seq(Puts)
      /\ \A m \in 1..(l - 1) : v[m] = w[m + 1]
  BY <1>1, Elements, ServedShifts DEF TypeInv, ClientTyped
<1>3. Along(f, q, w) /\ n = Len(q) /\ l = Len(w)
  BY <1>1
<1>4. CASE Head(wire).kind # "put"
  <2>1. t = q /\ w[1].kind # "put"
    BY <1>1, <1>2, <1>4 DEF Served
  <2>2. Rest(v, w)
    BY <1>2, <1>3 DEF Rest
  <2>3. \E g : Along(g, q, v)
    BY <1>2, <1>3, <2>1, <2>2, AlongShift
  <2> QED
    BY <1>1, <2>1, <2>3
<1>5. CASE Head(wire).kind = "put"
  <2>0. w[1].kind = "put"
    BY <1>2, <1>5
  <2>1. 1 \in 1..n /\ q[1] = w[1].put
    BY <1>2, <1>3, <2>0, AlongFirst
  <2>2. PICK i \in 1..n : /\ q[i] = w[1].put /\ t = RemoveAt(q, i)
                          /\ \A j \in 1..(i - 1) : q[j] # w[1].put
    BY <1>1, <1>2, <1>5 DEF Served
  <2>3. i = 1
    <3>1. ~(1 \in 1..(i - 1))
      BY <2>1, <2>2
    <3> QED
      BY <1>2, <2>2, <3>1
  <2>4. /\ Len(t) = n - 1
        /\ \A k \in 1..Len(t) : t[k] = IF k < 1 THEN q[k] ELSE q[k + 1]
    <3>1. q \in Seq(Puts) /\ 1 \in 1..Len(q) /\ t = RemoveAt(q, 1)
      BY <1>2, <1>3, <2>1, <2>2, <2>3
    <3>2. /\ Len(t) = Len(q) - 1
          /\ \A k \in 1..Len(t) : t[k] = IF k < 1 THEN q[k] ELSE q[k + 1]
      BY ONLY <3>1, Removed
    <3> QED
      BY <1>3, <3>2
  <2>5. \A k \in 1..(n - 1) : t[k] = q[k + 1]
    BY <2>4
  <2>6. Rest(t, q) /\ Rest(v, w)
    BY <1>2, <1>3, <2>4, <2>5 DEF Rest
  <2>7. \E g : Along(g, t, v)
    BY <1>2, <1>3, <2>0, <2>6, AlongServe
  <2> QED
    BY <1>1, <2>7
<1> QED
  BY <1>4, <1>5

LEMMA InStepStep == ASSUME TypeInv, InStep, [Next]_vars PROVE InStep'
<1> SUFFICES ASSUME conn' = "connected" PROVE \E g : Along(g, puts', wire')
  BY DEF InStep
<1>1. PICK q, w, t, v, n, l : q = puts /\ w = wire /\ t = puts' /\ v = wire' /\ n = Len(puts) /\ l = Len(wire)
  OBVIOUS
<1>2. n \in Nat /\ l \in Nat /\ n = Len(q) /\ l = Len(w) /\ q \in Seq(Puts)
  BY <1>1, Elements DEF TypeInv, ClientTyped
<1>3. conn = "connected" => \E f : Along(f, q, w)
  BY <1>1 DEF InStep
<1>4. CASE Connected /\ UNCHANGED <<puts, reads, wire>>
  BY <1>1, <1>3, <1>4 DEF Connected
<1>5. CASE Connected /\ \E p : Made(p)
  <2>1. PICK p : Made(p)
    BY <1>5
  <2>2. p \in Puts /\ puts' = Append(puts, p) /\ wire' = Append(wire, PutRequest(p)) /\ conn = "connected"
    BY <1>5, <2>1 DEF Made, Written, Connected
  <2>3. PICK x : x = PutRequest(p)
    OBVIOUS
  <2>4. Grown(t, q, p)
    BY <1>1, <1>2, <2>2 DEF Grown
  <2>5. Grown(v, w, x) /\ x.kind = "put" /\ x.put = p
    BY <1>1, <2>2, <2>3, WireJoins, RequestTypes DEF Grown
  <2>6. PICK f : Along(f, q, w)
    BY <1>3, <2>2
  <2>7. \E g : Along(g, t, v)
    BY <1>2, <2>4, <2>5, <2>6, AlongPut
  <2> QED
    BY <1>1, <2>7
<1>6. CASE /\ Connected /\ puts' = puts
           /\ \E x : x.kind # "put" /\ wire' = (IF conn = "connected" THEN Append(wire, x) ELSE wire)
  <2>1. PICK x : x.kind # "put" /\ wire' = (IF conn = "connected" THEN Append(wire, x) ELSE wire)
    BY <1>6
  <2>2. t = q /\ wire' = Append(wire, x) /\ conn = "connected"
    BY <1>1, <1>6, <2>1 DEF Connected
  <2>3. Grown(v, w, x)
    BY <1>1, <2>2, WireJoins DEF Grown
  <2>4. PICK f : Along(f, q, w)
    BY <1>3, <2>2
  <2>5. \E g : Along(g, q, v)
    BY <1>2, <2>1, <2>3, <2>4, AlongOther
  <2> QED
    BY <1>1, <2>2, <2>5
<1>7. CASE Connected /\ puts' = puts /\ \E s : Asked(s)
  <2>1. PICK s : Asked(s)
    BY <1>7
  <2>2. PICK x : x = GetRequest([id |-> s.id, uid |-> s.uid, for |-> s.kind])
    OBVIOUS
  <2>3. x.kind # "put" /\ wire' = (IF conn = "connected" THEN Append(wire, x) ELSE wire)
    BY <2>1, <2>2 DEF Asked, GetRequest
  <2> QED
    BY <1>6, <1>7, <2>3
<1>8. CASE /\ Connected /\ UNCHANGED <<puts, reads>>
           /\ \E x \in Requests : x.kind = "auth" /\ wire' = Append(wire, x)
  <2>1. PICK x \in Requests : x.kind = "auth" /\ wire' = Append(wire, x)
    BY <1>8
  <2>2. x.kind # "put" /\ wire' = (IF conn = "connected" THEN Append(wire, x) ELSE wire)
    BY <1>8, <2>1 DEF Connected
  <2> QED
    BY <1>6, <1>8, <2>2
<1>9. CASE UNCHANGED <<puts, reads>> /\ \E first : Replayed(first)
  <2>1. PICK first : Replayed(first)
    BY <1>9
  <2> QED
    BY <1>9, <2>1, InStepReplayed
<1>10. CASE Served
  <2>1. conn = "connected"
    BY <1>10 DEF Served
  <2>2. PICK f : Along(f, puts, wire)
    BY <1>1, <1>3, <2>1
  <2> QED
    BY <1>10, <2>2, InStepServed
<1> QED
  BY <1>4, <1>5, <1>7, <1>8, <1>9, <1>10, ClientStep DEF ClientForms

-----------------------------------------------------------------------------
(* Accounts and their records                                              *)

Ends == {"createUser", "delete"}

\* One call at a time, and none while a completion waits.
Alone ==
  /\ \A c, d \in calls : c = d
  /\ \A k \in 1..Len(main) : main[k].kind \in Done => calls = {}

\* A completion tells the truth until it runs.
Completed ==
  \A k \in 1..Len(main) :
    /\ main[k].kind = "createUser" => main[k].user \in accounts /\ currentUser \in {main[k].user, NoUser}
    /\ main[k].kind = "delete" => main[k].user \notin accounts

\* The completion that writes the record of u is still to come.
Coming(u) == \E k \in 1..Len(main) : main[k].kind \in Ends /\ main[k].user = u

UsersPut(j, u) == puts[j].path = "Users" /\ puts[j].uid = u

\* The last write of the record of u leaves it as the account is; so is it if there is none.
Decided(u) ==
  /\ (\A j \in 1..Len(puts) : ~UsersPut(j, u)) => (u \in accounts <=> u \in records)
  /\ \A j \in 1..Len(puts) : UsersPut(j, u) /\ (\A l \in 1..Len(puts) : l > j => ~UsersPut(l, u))
       => (u \in accounts <=> puts[j].value # None)

Followed == \A u \in Users : u \notin gone => Coming(u) \/ Decided(u)

RecordsInv == (~hurried => Alone /\ Completed) /\ (up = "dead" \/ ~hurried => Followed)

\* No completion is new, and those that write are not gone.
DonesKept ==
  /\ \A k \in 1..Len(main') : main'[k].kind \in Done => \E j \in 1..Len(main) : main[j] = main'[k]
  /\ \A j \in 1..Len(main) : main[j].kind \in Ends => \E k \in 1..Len(main') : main'[k] = main[j]

\* No record is written.
UsersKept == puts' = puts \/ \E p : p.path = "diary" /\ puts' = Append(puts, p)

Living == (up' = "dead" => up = "dead") /\ (~hurried' => ~hurried)

\* A step that is none of a call nor of a record.
Still ==
  /\ UNCHANGED <<accounts, records, gone>> /\ calls' \subseteq calls
  /\ DonesKept /\ UsersKept /\ Living /\ currentUser' \in {currentUser, NoUser}

Calling ==
  /\ UNCHANGED <<accounts, records, gone, main, puts, currentUser>> /\ Living
  /\ ~hurried' => (\E c : calls' = {c}) /\ \A k \in 1..Len(main) : main[k].kind = "token"

AccountForms ==
  \/ Still \/ Calling
  \/ \E c \in calls : CallSucceeds(c)
  \/ \E c \in calls : CallFails(c)
  \/ MainQueue /\ Head(main).kind \in Ends
  \/ ServePut \/ Die \/ Launch

LEMMA DonesSame == ASSUME main' = main PROVE DonesKept
BY DEF DonesKept

LEMMA DonesJoin ==
  ASSUME TypeInv, NEW b, b.kind \notin Done, main' = Append(main, b) PROVE DonesKept
<1>1. PICK n : n = Len(main)
  OBVIOUS
<1>2. n \in Nat /\ Len(main') = n + 1 /\ main'[n + 1] = b /\ \A i \in 1..n : main'[i] = main[i]
  BY <1>1, Elements DEF TypeInv, AppTyped
<1>3. /\ \A i \in 1..(n + 1) : i \in 1..n \/ i = n + 1
      /\ \A i \in 1..n : i \in 1..(n + 1)
  BY <1>2
<1> QED
  BY <1>1, <1>2, <1>3 DEF DonesKept

LEMMA DonesRun ==
  ASSUME TypeInv, main # <<>>, main' = Tail(main), Head(main).kind \notin Ends PROVE DonesKept
<1>1. /\ Head(main) = main[1] /\ Len(main) \in Nat \ {0} /\ Len(main') = Len(main) - 1
      /\ \A i \in 1..Len(main') : i + 1 \in 1..Len(main) /\ main'[i] = main[i + 1]
  BY NextBlock
<1>2. ASSUME NEW i \in 1..Len(main), main[i].kind \in Ends PROVE \E j \in 1..Len(main') : main'[j] = main[i]
  <2>1. i # 1
    BY <1>1, <1>2
  <2>2. PICK j : j = i - 1
    OBVIOUS
  <2>3. j \in 1..Len(main') /\ j + 1 = i
    BY <1>1, <2>1, <2>2
  <2> QED
    BY <1>1, <2>3
<1> QED
  BY <1>1, <1>2 DEF DonesKept

\* The completion that runs was the only one that went.
LEMMA ComingRuns ==
  ASSUME TypeInv, main # <<>>, main' = Tail(main), NEW u, u # Head(main).user, Coming(u)
  PROVE  Coming(u)'
<1>1. /\ Head(main) = main[1] /\ Len(main) \in Nat \ {0} /\ Len(main') = Len(main) - 1
      /\ \A i \in 1..Len(main') : i + 1 \in 1..Len(main) /\ main'[i] = main[i + 1]
  BY NextBlock
<1>2. PICK i \in 1..Len(main) : main[i].kind \in Ends /\ main[i].user = u
  BY DEF Coming
<1>3. i # 1
  BY <1>1, <1>2
<1>4. PICK j : j = i - 1
  OBVIOUS
<1>5. j \in 1..Len(main') /\ j + 1 = i
  BY <1>1, <1>3, <1>4
<1> QED
  BY <1>1, <1>2, <1>5 DEF Coming

LEMMA DonesLogout == ASSUME TypeInv, LogoutClicked PROVE DonesKept
<1>1. CASE main' = main
  BY <1>1, DonesSame
<1>2. CASE main' # main
  <2>1. PICK b, n : b = [kind |-> "notify", id |-> 0, user |-> currentUser', session |-> session'] /\ n = Len(main)
    OBVIOUS
  <2>2. Queued(b) /\ Len(main') = n + 1 /\ b.kind \notin Done
    BY <1>2, <2>1, LogoutQueues DEF Done
  <2>3. n \in Nat /\ main'[n + 1] = b /\ \A i \in 1..n : main'[i] = main[i]
    BY <2>1, <2>2, Elements DEF Queued
  <2>4. /\ \A i \in 1..(n + 1) : i \in 1..n \/ i = n + 1
        /\ \A i \in 1..n : i \in 1..(n + 1)
    BY <2>3
  <2> QED
    BY <2>1, <2>2, <2>3, <2>4 DEF DonesKept
<1> QED
  BY <1>1, <1>2

LEMMA LoadsLive == ASSUME NEW s, Loads(s) PROVE up' \in {up, "trapped"}
<1>1. NoTrap \/ Trap("no user")
  BY Zenon DEF Loads
<1>2. up' = up \/ up' = "trapped"
  BY <1>1, Zenon DEF NoTrap, Trap
<1> QED
  BY <1>2

\* Saving a diary is no matter of calls and records.
LEMMA SavesLive ==
  ASSUME SaveButtonClicked \/ SaveOnCalendarDiary
  PROVE  /\ UNCHANGED <<accounts, records, gone, calls, main, currentUser, hurried>> /\ up' \in {up, "trapped"}
         /\ puts' = puts \/ \E uid, day, value : Put("diary", uid, day, value)
<1>1. CASE SaveButtonClicked
  <2>1. UNCHANGED <<accounts, records, gone, calls, main, currentUser, hurried>>
    BY <1>1, Zenon DEF SaveButtonClicked, authVars, serverVars
  <2>2. (NoTrap \/ Trap("no user") \/ Trap("address")) /\ (puts' = puts \/ Put("diary", Top.uid, today, used.save + 1))
    <3>1. CASE Top.uid = NoUser
      BY <1>1, <3>1, Zenon DEF SaveButtonClicked
    <3>2. CASE Top.uid # NoUser
      BY <1>1, <3>2, Zenon DEF SaveButtonClicked
    <3> QED
      BY <3>1, <3>2, Zenon
  <2>3. up' = up \/ up' = "trapped"
    BY <2>2, Zenon DEF NoTrap, Trap
  <2> QED
    BY <2>1, <2>2, <2>3, Zenon
<1>2. CASE SaveOnCalendarDiary
  BY <1>2, Zenon DEF SaveOnCalendarDiary, authVars, serverVars
<1> QED
  BY <1>1, <1>2

LEMMA PushLives == ASSUME NEW s, Push(s) PROVE up' \in {up, "trapped"}
BY LoadsLive DEF Push

LEMMA LivingStep ==
  ASSUME TypeInv, [Next]_vars PROVE Die \/ Launch \/ Living
<1>0. ASSUME up' \in {up, "trapped"}, hurried' = hurried PROVE Living
  <2>1. up' = "dead" => up = "dead"
    BY <1>0
  <2> QED
    BY <1>0, <2>1, Zenon DEF Living
<1>1. CASE UNCHANGED vars
  BY <1>1 DEF vars, Living
<1>2. CASE User
  <2>1. CASE \E g \in Goes : ButtonClicked(g[1], g[2])
    <3>1. PICK s : Push(s)
      BY <2>1 DEF ButtonClicked
    <3>2. hurried' = hurried
      BY <2>1 DEF ButtonClicked
    <3> QED
      BY <1>0, <3>1, <3>2, PushLives
  <2>2. CASE Back
    BY <2>2 DEF Back, Living
  <2>3. CASE LoginButtonClick \/ RegisterButtonClick \/ DeleteUserClicked
    BY <2>3 DEF LoginButtonClick, RegisterButtonClick, DeleteUserClicked, Call, Living
  <2>4. CASE LogoutClicked
    BY <2>4 DEF LogoutClicked, Living
  <2>5. CASE SaveButtonClicked \/ SaveOnCalendarDiary
    BY <1>0, <2>5, SavesLive
  <2> QED
    BY <1>2, <2>1, <2>2, <2>3, <2>4, <2>5 DEF User
<1>3. CASE Services
  <2>1. CASE \E c \in calls : CallSucceeds(c) \/ CallFails(c)
    BY <2>1 DEF CallSucceeds, CallFails, Living
  <2>2. CASE \E p \in posts : AnalysisAnswered(p)
    <3>1. PICK p \in posts : AnalysisAnswered(p)
      BY <2>2
    <3>2. hurried' = hurried
      BY <3>1 DEF AnalysisAnswered
    <3>3. Push(Image(p)) \/ NoTrap \/ Trap("index")
      BY <3>1 DEF AnalysisAnswered
    <3>4. up' \in {up, "trapped"}
      BY <3>3, PushLives DEF NoTrap, Trap
    <3> QED
      BY <1>0, <3>2, <3>4
  <2>3. CASE \E p \in posts : AnalysisFails(p)
    BY <2>3 DEF AnalysisFails, NoTrap, Trap, Living
  <2>4. CASE Midnight
    BY <2>4 DEF Midnight, Living
  <2> QED
    BY <1>3, <2>1, <2>2, <2>3, <2>4 DEF Services
<1>4. CASE Retry \/ TokenIsLookedUp \/ TokenIsRefreshed \/ OnReady \/ ConnectionLost \/ ReadTimesOut
  BY <1>4 DEF Retry, TokenIsLookedUp, TokenIsRefreshed, OnReady, ConnectionLost, ReadTimesOut, Living
<1>5. CASE MainQueue
  <2>1. main # <<>> /\ Head(main) \in Blocks /\ (~hurried' => ~hurried)
    BY <1>5, NextBlock DEF MainQueue
  <2>2. CASE Head(main).kind \in {"token", "notify"}
    BY <1>5, <2>1, <2>2 DEF MainQueue, NoTrap, Living
  <2>3. CASE Head(main).kind = "signIn"
    <3>1. SignedIn(Head(main)) /\ hurried' = hurried
      BY <1>5, <2>3, DoneBlock DEF Done
    <3>2. up' \in {up, "trapped"}
      BY <3>1, PushLives DEF SignedIn, NoTrap
    <3> QED
      BY <1>0, <3>1, <3>2
  <2>4. CASE Head(main).kind = "createUser"
    <3>1. Registered(Head(main)) /\ hurried' = hurried
      BY <1>5, <2>4, DoneBlock DEF Done
    <3>2. NoTrap \/ \E s : Loads(s)
      BY <3>1 DEF Registered
    <3>3. up' \in {up, "trapped"}
      BY <3>2, LoadsLive DEF NoTrap
    <3> QED
      BY <1>0, <3>1, <3>3
  <2>5. CASE Head(main).kind = "delete"
    BY <1>5, <2>1, <2>5, DoneBlock DEF Deleted, NoTrap, Living, Done
  <2> QED
    BY <2>1, <2>2, <2>3, <2>4, <2>5 DEF Blocks, Done
<1>6. CASE ServeAuth \/ ServePut
  BY <1>6 DEF ServeAuth, ServePut, Living
<1>7. CASE ServeGet
  BY <1>7 DEF ServeGet, ReadAnswered, NoTrap, Trap, Living
<1> QED
  BY <1>1, <1>2, <1>3, <1>4, <1>5, <1>6, <1>7 DEF Next, Client, Server

LEMMA CallForms == ASSUME TypeInv, Living, LoginButtonClick \/ RegisterButtonClick \/ DeleteUserClicked PROVE Calling
<1>1. PICK kind, user, number : Call(kind, user, number)
  BY DEF LoginButtonClick, RegisterButtonClick, DeleteUserClicked
<1>2. UNCHANGED <<accounts, records, gone, main, puts, currentUser>>
  BY <1>1 DEF Call, authVars, serverVars, clientVars
<1>3. ASSUME ~hurried' PROVE (\E c : calls' = {c}) /\ \A k \in 1..Len(main) : main[k].kind = "token"
  <2>1. /\ calls = {} /\ \A b \in Range(main) : b.kind = "token"
        /\ calls' = {[kind |-> kind, id |-> Top.id, user |-> user, session |-> number]}
    BY <1>1, <1>3 DEF Call
  <2>2. \A i \in 1..Len(main) : main[i].kind = "token"
    BY <2>1 DEF Range, TypeInv, AppTyped
  <2> QED
    BY <2>1, <2>2
<1> QED
  BY <1>2, <1>3 DEF Calling

LEMMA AccountsStep == ASSUME TypeInv, [Next]_vars PROVE AccountForms
<1> SUFFICES ASSUME Living PROVE AccountForms
  BY LivingStep DEF AccountForms
<1>1. CASE /\ UNCHANGED <<accounts, records, gone, puts>> /\ calls' \subseteq calls
           /\ DonesKept /\ currentUser' \in {currentUser, NoUser}
  BY <1>1 DEF AccountForms, Still, UsersKept
<1>2. CASE UNCHANGED <<accounts, records, gone, puts, calls, main, currentUser>>
  BY <1>1, <1>2, DonesSame
<1>3. CASE UNCHANGED vars
  BY <1>2, <1>3 DEF vars, authVars, clientVars, serverVars
<1>4. CASE User
  <2>1. CASE \E g \in Goes : ButtonClicked(g[1], g[2])
    BY <1>2, <2>1 DEF ButtonClicked, authVars, serverVars
  <2>2. CASE Back
    BY <1>2, <2>2 DEF Back, authVars, clientVars, serverVars
  <2>3. CASE LoginButtonClick \/ RegisterButtonClick \/ DeleteUserClicked
    BY <2>3, CallForms DEF AccountForms
  <2>4. CASE LogoutClicked
    <3>1. UNCHANGED <<accounts, records, gone, puts, calls>> /\ currentUser' \in {currentUser, NoUser}
      BY <2>4 DEF LogoutClicked, authVars, clientVars, serverVars, UpdateCurrentUser
    <3> QED
      BY <1>1, <2>4, <3>1, DonesLogout
  <2>5. CASE SaveButtonClicked \/ SaveOnCalendarDiary
    <3>1. UNCHANGED <<accounts, records, gone, calls, main, currentUser>>
      BY <2>5, SavesLive
    <3>2. puts' = puts \/ \E uid, day, value : Put("diary", uid, day, value)
      BY <2>5, SavesLive
    <3>3. UsersKept
      BY <3>2 DEF Put, UsersKept
    <3> QED
      BY <3>1, <3>3, DonesSame DEF AccountForms, Still
  <2> QED
    BY <1>4, <2>1, <2>2, <2>3, <2>4, <2>5 DEF User
<1>5. CASE Services
  <2>1. CASE \E c \in calls : CallSucceeds(c) \/ CallFails(c)
    BY <2>1 DEF AccountForms
  <2>2. CASE (\E p \in posts : AnalysisAnswered(p) \/ AnalysisFails(p)) \/ Midnight
    BY <1>2, <2>2 DEF AnalysisAnswered, AnalysisFails, Midnight, authVars, clientVars, serverVars
  <2> QED
    BY <1>5, <2>1, <2>2 DEF Services
<1>6. CASE Client
  <2>1. CASE Retry \/ OnReady \/ ConnectionLost \/ ReadTimesOut
    BY <1>2, <2>1 DEF Retry, OnReady, ConnectionLost, Disconnect, ReadTimesOut, authVars, serverVars
  <2>2. CASE TokenIsLookedUp \/ TokenIsRefreshed
    <3>1. UNCHANGED <<accounts, records, gone, puts, calls, currentUser>>
      BY <2>2 DEF TokenIsLookedUp, TokenIsRefreshed, authVars, serverVars
    <3>2. PICK b : b = [kind |-> "token", id |-> 0]
      OBVIOUS
    <3>3. b.kind \notin Done /\ (main' = main \/ main' = Append(main, b))
      BY <2>2, <3>2 DEF TokenIsLookedUp, TokenIsRefreshed, Done
    <3> QED
      BY <1>1, <1>2, <3>1, <3>3, DonesJoin
  <2>3. CASE MainQueue
    <3>1. main # <<>> /\ main' = Tail(main) /\ Head(main) \in Blocks
          /\ UNCHANGED <<accounts, records, calls, currentUser>>
      BY <2>3, NextBlock DEF MainQueue, authVars, serverVars
    <3>2. CASE Head(main).kind \in {"token", "notify"}
      <4>1. UNCHANGED <<puts, gone>>
        BY <2>3, <3>2 DEF MainQueue, TokenArrives, RefreshAuthToken
      <4> QED
        BY <1>1, <3>1, <3>2, <4>1, DonesRun DEF Ends
    <3>3. CASE Head(main).kind = "signIn"
      <4>1. UNCHANGED <<puts, gone>>
        BY <2>3, <3>3, DoneBlock DEF SignedIn, Done
      <4> QED
        BY <1>1, <3>1, <3>3, <4>1, DonesRun DEF Ends
    <3> QED
      BY <2>3, <3>1, <3>2, <3>3 DEF AccountForms, Ends, Blocks, Done
  <2> QED
    BY <1>6, <2>1, <2>2, <2>3 DEF Client
<1>7. CASE ServeAuth \/ ServeGet
  BY <1>2, <1>7 DEF ServeAuth, ServeGet, authVars, serverVars
<1> QED
  BY <1>3, <1>4, <1>5, <1>6, <1>7 DEF Next, Server, AccountForms

\* The queue of writes, as it decides the record of u.
LEMMA DecidedSame ==
  ASSUME puts' = puts, NEW u, u \in accounts' <=> u \in accounts, u \in records' <=> u \in records, Decided(u)
  PROVE  Decided(u)'
BY DEF Decided, UsersPut

LEMMA Longer ==
  ASSUME TypeInv, NEW p, puts' = Append(puts, p)
  PROVE  /\ Len(puts) \in Nat /\ Len(puts') = Len(puts) + 1 /\ puts'[Len(puts) + 1] = p
         /\ \A j \in 1..Len(puts) : j \in 1..Len(puts') /\ puts'[j] = puts[j] /\ Len(puts) + 1 > j
         /\ \A j \in 1..Len(puts') : j \in 1..Len(puts) \/ j = Len(puts) + 1
BY Elements DEF TypeInv, ClientTyped

LEMMA DecidedLonger ==
  ASSUME TypeInv, NEW p, puts' = Append(puts, p), NEW u, p.path # "Users" \/ p.uid # u,
         u \in accounts' <=> u \in accounts, u \in records' <=> u \in records, Decided(u)
  PROVE  Decided(u)'
<1>1. PICK n, t : n = Len(puts) /\ t = puts'
  OBVIOUS
<1>2. /\ n \in Nat /\ Len(t) = n + 1 /\ t[n + 1] = p
      /\ \A j \in 1..n : j \in 1..Len(t) /\ t[j] = puts[j]
      /\ \A j \in 1..Len(t) : j \in 1..n \/ j = n + 1
  BY <1>1, Longer
<1>3. ASSUME \A j \in 1..Len(t) : ~(t[j].path = "Users" /\ t[j].uid = u)
      PROVE  u \in accounts' <=> u \in records'
  <2>1. \A j \in 1..n : ~UsersPut(j, u)
    BY <1>2, <1>3 DEF UsersPut
  <2> QED
    BY <1>1, <2>1 DEF Decided
<1>4. ASSUME NEW j \in 1..Len(t), t[j].path = "Users", t[j].uid = u,
             \A l \in 1..Len(t) : l > j => ~(t[l].path = "Users" /\ t[l].uid = u)
      PROVE  u \in accounts' <=> t[j].value # None
  <2>1. j \in 1..n /\ t[j] = puts[j]
    BY <1>2, <1>4
  <2>2. UsersPut(j, u) /\ \A l \in 1..n : l > j => ~UsersPut(l, u)
    BY <1>2, <1>4, <2>1 DEF UsersPut
  <2>3. u \in accounts <=> puts[j].value # None
    BY <1>1, <2>1, <2>2 DEF Decided
  <2> QED
    BY <2>1, <2>3
<1> QED
  BY <1>1, <1>3, <1>4 DEF Decided, UsersPut

LEMMA DecidedWritten ==
  ASSUME TypeInv, NEW p, puts' = Append(puts, p), p.path = "Users", NEW u, p.uid = u,
         u \in accounts' <=> p.value # None
  PROVE  Decided(u)'
<1>1. PICK n, t : n = Len(puts) /\ t = puts'
  OBVIOUS
<1>2. /\ n \in Nat /\ Len(t) = n + 1 /\ t[n + 1] = p /\ n + 1 \in 1..Len(t)
      /\ \A j \in 1..n : n + 1 > j
      /\ \A j \in 1..Len(t) : j \in 1..n \/ j = n + 1
  BY <1>1, Longer
<1>3. ~ \A j \in 1..Len(t) : ~(t[j].path = "Users" /\ t[j].uid = u)
  BY <1>2
<1>4. ASSUME NEW j \in 1..Len(t), \A l \in 1..Len(t) : l > j => ~(t[l].path = "Users" /\ t[l].uid = u)
      PROVE  t[j] = p
  <2>1. j \notin 1..n
    BY <1>2, <1>4
  <2> QED
    BY <1>2, <2>1
<1> QED
  BY <1>1, <1>3, <1>4 DEF Decided, UsersPut

LEMMA DecidedShorter ==
  ASSUME TypeInv, NEW n \in Nat \ {0}, n = Len(puts), NEW p, p = puts[1],
         Len(puts') = n - 1, \A j \in 1..(n - 1) : puts'[j] = puts[j + 1],
         NEW u, u \in accounts' <=> u \in accounts,
         u \in records' <=> IF p.path = "Users" /\ p.uid = u THEN p.value # None ELSE u \in records,
         Decided(u)
  PROVE  Decided(u)'
<1>1. PICK t : t = puts'
  OBVIOUS
<1>2. /\ 1 \in 1..n /\ Len(t) = n - 1
      /\ \A j \in 1..n : j = 1 \/ (j > 1 /\ j - 1 \in 1..(n - 1) /\ (j - 1) + 1 = j)
      /\ \A j \in 1..(n - 1) : j + 1 \in 1..n /\ t[j] = puts[j + 1]
  BY <1>1
<1>3. ASSUME \A j \in 1..(n - 1) : ~(t[j].path = "Users" /\ t[j].uid = u)
      PROVE  u \in accounts' <=> u \in records'
  <2>1. ASSUME NEW j \in 1..n, j > 1 PROVE ~UsersPut(j, u)
    <3>1. PICK k : k = j - 1
      OBVIOUS
    <3>2. k \in 1..(n - 1) /\ t[k] = puts[j]
      BY <1>2, <2>1, <3>1
    <3> QED
      BY <1>3, <3>2 DEF UsersPut
  <2>2. CASE p.path = "Users" /\ p.uid = u
    <3>1. UsersPut(1, u)
      BY <2>2 DEF UsersPut
    <3>2. u \in accounts <=> puts[1].value # None
      BY <1>2, <2>1, <3>1 DEF Decided
    <3> QED
      BY <2>2, <3>2
  <2>3. CASE ~(p.path = "Users" /\ p.uid = u)
    <3>1. ~UsersPut(1, u)
      BY <2>3 DEF UsersPut
    <3>2. \A j \in 1..n : ~UsersPut(j, u)
      BY <1>2, <2>1, <3>1
    <3>3. u \in accounts <=> u \in records
      BY <3>2 DEF Decided
    <3> QED
      BY <2>3, <3>3
  <2> QED
    BY <2>2, <2>3
<1>4. ASSUME NEW j \in 1..(n - 1), t[j].path = "Users", t[j].uid = u,
             \A l \in 1..(n - 1) : l > j => ~(t[l].path = "Users" /\ t[l].uid = u)
      PROVE  u \in accounts' <=> t[j].value # None
  <2>1. PICK i : i = j + 1
    OBVIOUS
  <2>2. i \in 1..n /\ t[j] = puts[i]
    BY <1>2, <2>1
  <2>3. ASSUME NEW l \in 1..n, l > i PROVE ~UsersPut(l, u)
    <3>1. PICK k : k = l - 1
      OBVIOUS
    <3>2. k \in 1..(n - 1) /\ k > j /\ t[k] = puts[l]
      BY <1>2, <2>1, <2>3, <3>1
    <3> QED
      BY <1>4, <3>2 DEF UsersPut
  <2>4. UsersPut(i, u)
    BY <1>4, <2>2 DEF UsersPut
  <2>5. u \in accounts <=> puts[i].value # None
    BY <2>2, <2>3, <2>4 DEF Decided
  <2> QED
    BY <2>2, <2>5
<1> QED
  BY <1>1, <1>2, <1>3, <1>4 DEF Decided, UsersPut

LEMMA ComingKept == ASSUME DonesKept, NEW u, Coming(u) PROVE Coming(u)'
BY DEF DonesKept, Coming

LEMMA ExecutedIs ==
  ASSUME TypeInv, NEW c \in calls
  PROVE  /\ c.kind = "createUser" => c.user \in Executed(c)
         /\ c.kind = "delete" => c.user \notin Executed(c)
         /\ \A u : c.kind \notin Ends \/ u # c.user => (u \in Executed(c) <=> u \in accounts)
<1>1. c.kind \in Done
  BY DEF TypeInv, AppTyped, CallSet
<1>2. CASE c.kind = "signIn"
  BY <1>2 DEF Executed, Ends
<1>3. CASE c.kind = "createUser"
  BY <1>3 DEF Executed, Ends
<1>4. CASE c.kind = "delete"
  BY <1>4 DEF Executed, Ends
<1> QED
  BY <1>1, <1>2, <1>3, <1>4 DEF Done

\* A step that is none of a call nor of a record.
LEMMA RecordsStill == ASSUME TypeInv, RecordsInv, Still PROVE RecordsInv'
<1>1. /\ UNCHANGED <<accounts, records, gone>> /\ calls' \subseteq calls /\ DonesKept /\ UsersKept
      /\ currentUser' \in {currentUser, NoUser}
      /\ ~hurried' => ~hurried
      /\ up' = "dead" => up = "dead"
  BY Zenon DEF Still, Living
<1>2. ASSUME ~hurried' PROVE Alone' /\ Completed'
  <2>1. Alone /\ Completed
    BY <1>1, <1>2 DEF RecordsInv
  <2>2. \A k \in 1..Len(main') : main'[k].kind \in Done => \E j \in 1..Len(main) : main[j] = main'[k]
    BY <1>1 DEF DonesKept
  <2>3. Alone'
    BY <1>1, <2>1, <2>2 DEF Alone
  <2>4. ASSUME NEW k \in 1..Len(main'), main'[k].kind \in Ends
        PROVE  /\ main'[k].kind = "createUser" => main'[k].user \in accounts' /\ currentUser' \in {main'[k].user, NoUser}
               /\ main'[k].kind = "delete" => main'[k].user \notin accounts'
    <3>1. PICK j \in 1..Len(main) : main[j] = main'[k]
      BY <2>2, <2>4 DEF Ends, Done
    <3> QED
      BY <1>1, <2>1, <3>1 DEF Completed
  <2>5. Completed'
    BY <2>4 DEF Completed, Ends
  <2> QED
    BY <2>3, <2>5
<1>3. ASSUME up' = "dead" \/ ~hurried' PROVE Followed'
  <2>1. Followed
    BY <1>1, <1>3 DEF RecordsInv
  <2> SUFFICES ASSUME NEW u \in Users, u \notin gone' PROVE Coming(u)' \/ Decided(u)'
    BY DEF Followed
  <2>2. Coming(u) \/ Decided(u)
    BY <1>1, <2>1 DEF Followed
  <2>3. CASE Coming(u)
    BY <1>1, <2>3, ComingKept
  <2>4. CASE Decided(u)
    <3>1. (u \in accounts' <=> u \in accounts) /\ (u \in records' <=> u \in records)
      BY <1>1
    <3>2. CASE puts' = puts
      BY <2>4, <3>1, <3>2, DecidedSame
    <3>3. CASE \E p : p.path = "diary" /\ puts' = Append(puts, p)
      <4>1. PICK p : p.path = "diary" /\ puts' = Append(puts, p)
        BY <3>3
      <4>2. p.path # "Users"
        BY <4>1
      <4> QED
        BY <2>4, <3>1, <4>1, <4>2, DecidedLonger
    <3> QED
      BY <1>1, <3>2, <3>3 DEF UsersKept
  <2> QED
    BY <2>2, <2>3, <2>4
<1> QED
  BY <1>2, <1>3 DEF RecordsInv

LEMMA RecordsCalling == ASSUME TypeInv, RecordsInv, Calling PROVE RecordsInv'
<1>1. /\ UNCHANGED <<accounts, records, gone, main, puts, currentUser>>
      /\ ~hurried' => (\E c : calls' = {c}) /\ \A k \in 1..Len(main) : main[k].kind = "token"
      /\ ~hurried' => ~hurried
      /\ up' = "dead" => up = "dead"
  BY Zenon DEF Calling, Living
<1>2. ASSUME ~hurried' PROVE Alone' /\ Completed'
  <2>1. PICK c : calls' = {c}
    BY <1>1, <1>2
  <2>2. \A k \in 1..Len(main') : main'[k].kind = "token"
    BY <1>1, <1>2
  <2> QED
    BY <2>1, <2>2 DEF Alone, Completed, Done
<1>3. ASSUME up' = "dead" \/ ~hurried' PROVE Followed'
  <2>1. Followed
    BY <1>1, <1>3 DEF RecordsInv
  <2> SUFFICES ASSUME NEW u \in Users, u \notin gone' PROVE Coming(u)' \/ Decided(u)'
    BY DEF Followed
  <2>2. Coming(u) \/ Decided(u)
    BY <1>1, <2>1 DEF Followed
  <2>3. CASE Coming(u)
    BY <1>1, <2>3 DEF Coming
  <2>4. CASE Decided(u)
    BY <1>1, <2>4, DecidedSame
  <2> QED
    BY <2>2, <2>3, <2>4
<1> QED
  BY <1>2, <1>3 DEF RecordsInv

\* When a call ends it was the only one, and no completion waited.
LEMMA OnlyCall ==
  ASSUME Alone, NEW c \in calls
  PROVE  calls \ {c} = {} /\ \A k \in 1..Len(main) : main[k].kind \notin Done
BY DEF Alone

LEMMA RecordsSucceed ==
  ASSUME TypeInv, RecordsInv, NEW c \in calls, CallSucceeds(c) PROVE RecordsInv'
<1>1. PICK n, b : n = Len(main) /\ b = Len(main')
  OBVIOUS
<1>2. /\ up = "running" /\ calls' = calls \ {c} /\ c.kind \in Done /\ up' # "dead"
      /\ n \in Nat /\ \A i \in 1..n : main'[i] = main[i]
      /\ main'[b] = [kind |-> c.kind, id |-> c.id, user |-> c.user]
      /\ \/ c.kind = "delete" /\ b = n + 1
         \/ /\ currentUser' = IF c.kind = "delete" THEN NoUser ELSE c.user
            /\ b = n + 2 /\ main'[n + 1].kind = "notify"
  BY <1>1, Succeeds
<1>3. /\ accounts' = Executed(c) /\ UNCHANGED <<records, gone, puts>>
      /\ hurried' = hurried
  BY DEF CallSucceeds, serverVars, clientVars
<1>4. b \in 1..b /\ (\A i \in 1..n : i \in 1..b) /\ \A i \in 1..b : i \in 1..n \/ i = b \/ main'[i].kind = "notify"
  <2>1. \A i \in 1..b : i \in 1..n \/ i = n + 1 \/ i = b
    BY <1>2
  <2> QED
    BY <1>2, <2>1
<1>5. main'[b].kind = c.kind /\ main'[b].user = c.user
  BY <1>2
<1>6. ASSUME ~hurried' PROVE Alone' /\ Completed'
  <2>1. Alone
    BY <1>3, <1>6 DEF RecordsInv
  <2>2. calls' = {} /\ \A k \in 1..n : main[k].kind \notin Done
    BY <1>1, <1>2, <2>1, OnlyCall
  <2>3. Alone'
    BY <2>2 DEF Alone
  <2>4. ASSUME NEW k \in 1..b, main'[k].kind \in Ends PROVE k = b
    <3>1. k \notin 1..n
      BY <1>2, <2>2, <2>4 DEF Ends, Done
    <3>2. main'[k].kind # "notify"
      BY <2>4 DEF Ends
    <3> QED
      BY <1>4, <3>1, <3>2
  <2>5. /\ c.kind = "createUser" => c.user \in accounts' /\ currentUser' = c.user
        /\ c.kind = "delete" => c.user \notin accounts'
    BY <1>2, <1>3, ExecutedIs
  <2>6. ASSUME NEW k \in 1..b
        PROVE  /\ main'[k].kind = "createUser" => main'[k].user \in accounts' /\ currentUser' \in {main'[k].user, NoUser}
               /\ main'[k].kind = "delete" => main'[k].user \notin accounts'
    BY <1>5, <2>4, <2>5 DEF Ends
  <2>7. Completed'
    BY <1>1, <2>6 DEF Completed
  <2> QED
    BY <2>3, <2>7
<1>7. ASSUME up' = "dead" \/ ~hurried' PROVE Followed'
  <2>1. Followed
    BY <1>2, <1>3, <1>7 DEF RecordsInv
  <2> SUFFICES ASSUME NEW u \in Users, u \notin gone' PROVE Coming(u)' \/ Decided(u)'
    BY DEF Followed
  <2>2. Coming(u) \/ Decided(u)
    BY <1>3, <2>1 DEF Followed
  <2>3. CASE Coming(u)
    <3>1. PICK k \in 1..n : main[k].kind \in Ends /\ main[k].user = u
      BY <1>1, <2>3 DEF Coming
    <3>2. k \in 1..b /\ main'[k] = main[k]
      BY <1>2, <1>4
    <3> QED
      BY <1>1, <3>1, <3>2 DEF Coming
  <2>4. CASE c.kind \in Ends /\ u = c.user
    BY <1>1, <1>4, <1>5, <2>4 DEF Coming
  <2>5. CASE Decided(u) /\ (c.kind \notin Ends \/ u # c.user)
    <3>1. (u \in accounts' <=> u \in accounts) /\ (u \in records' <=> u \in records)
      BY <1>3, <2>5, ExecutedIs
    <3> QED
      BY <1>3, <2>5, <3>1, DecidedSame
  <2> QED
    BY <2>2, <2>3, <2>4, <2>5
<1> QED
  BY <1>6, <1>7 DEF RecordsInv

LEMMA RecordsFail ==
  ASSUME TypeInv, RecordsInv, NEW c \in calls, CallFails(c) PROVE RecordsInv'
<1>1. /\ up = "running" /\ up' = up /\ calls' = calls \ {c}
      /\ UNCHANGED <<records, puts, main, currentUser>>
      /\ hurried' = hurried
  BY DEF CallFails, authVars, serverVars, clientVars
<1>2. gone \subseteq gone' /\ (accounts' = accounts \/ (accounts' = Executed(c) /\ c.user \in gone'))
  BY DEF CallFails
<1>3. ASSUME ~hurried' PROVE Alone' /\ Completed'
  <2>1. Alone
    BY <1>1, <1>3 DEF RecordsInv
  <2>2. calls' = {} /\ \A k \in 1..Len(main') : main'[k].kind \notin Done
    BY <1>1, <2>1, OnlyCall
  <2> QED
    BY <2>2 DEF Alone, Completed, Done
<1>4. ASSUME up' = "dead" \/ ~hurried' PROVE Followed'
  <2>1. Followed
    BY <1>1, <1>4 DEF RecordsInv
  <2> SUFFICES ASSUME NEW u \in Users, u \notin gone' PROVE Coming(u)' \/ Decided(u)'
    BY DEF Followed
  <2>2. Coming(u) \/ Decided(u)
    BY <1>2, <2>1 DEF Followed
  <2>3. CASE Coming(u)
    BY <1>1, <2>3 DEF Coming
  <2>4. CASE Decided(u)
    <3>1. (u \in accounts' <=> u \in accounts) /\ (u \in records' <=> u \in records)
      BY <1>1, <1>2, ExecutedIs
    <3> QED
      BY <1>1, <2>4, <3>1, DecidedSame
  <2> QED
    BY <2>2, <2>3, <2>4
<1> QED
  BY <1>3, <1>4 DEF RecordsInv

\* The completion that writes the record runs.
LEMMA RecordsEnd ==
  ASSUME TypeInv, RecordsInv, MainQueue, Head(main).kind \in Ends PROVE RecordsInv'
<1>1. PICK b : b = Head(main)
  OBVIOUS
<1>2. /\ b.kind \in Ends /\ b = main[1] /\ 1 \in 1..Len(main) /\ main # <<>> /\ main' = Tail(main)
      /\ \A i \in 1..Len(main') : i + 1 \in 1..Len(main) /\ main'[i] = main[i + 1]
  BY <1>1, NextBlock DEF MainQueue
<1>3. /\ up = "running" /\ b.user \in Users /\ UNCHANGED <<calls, accounts, records, currentUser>>
      /\ hurried' = hurried
      /\ b.kind = "createUser" => Registered(b)
      /\ b.kind = "delete" => Deleted(b)
  BY <1>1, DoneBlock DEF Done, Ends
<1>4. ASSUME ~hurried' PROVE Alone' /\ Completed'
  <2>1. Alone /\ Completed
    BY <1>3, <1>4 DEF RecordsInv
  <2>2. Alone'
    BY <1>2, <1>3, <2>1 DEF Alone
  <2>3. Completed'
    BY <1>2, <1>3, <2>1 DEF Completed
  <2> QED
    BY <2>2, <2>3
<1>5. up' # "dead"
  <2>1. Die \/ Launch \/ Living
    <3>1. [Next]_vars
      BY DEF Next, Client
    <3> QED
      BY <3>1, LivingStep
  <2>2. ~Die
    <3>1. up' \in {up, "trapped"}
      <4>1. CASE b.kind = "createUser"
        <5>1. NoTrap \/ \E s : Loads(s)
          BY <1>3, <4>1 DEF Registered
        <5> QED
          BY <5>1, LoadsLive DEF NoTrap
      <4>2. CASE b.kind = "delete"
        BY <1>3, <4>2 DEF Deleted, NoTrap
      <4> QED
        BY <1>2, <4>1, <4>2 DEF Ends
    <3> QED
      BY <1>3, <3>1 DEF Die
  <2> QED
    BY <1>3, <2>1, <2>2 DEF Launch, Living
<1>6. ASSUME ~hurried PROVE Followed'
  <2>1. Followed /\ Completed
    BY <1>6 DEF RecordsInv
  <2>2. \A u : (u \in accounts' <=> u \in accounts) /\ (u \in records' <=> u \in records)
    BY <1>3
  <2>3. /\ b.kind = "createUser" => b.user \in accounts /\ currentUser \in {b.user, NoUser}
        /\ b.kind = "delete" => b.user \notin accounts
    BY <1>2, <2>1 DEF Completed
  <2>4. \/ puts' = puts /\ gone' = gone \cup {b.user}
        \/ /\ gone' = gone
           /\ \E p : /\ p.path = "Users" /\ p.uid = b.user /\ puts' = Append(puts, p)
                     /\ b.user \in accounts' <=> p.value # None
    <3>1. PICK u, v : u = b.user /\ v = IF b.kind = "createUser" THEN u ELSE None
      OBVIOUS
    <3>2. u \in Users /\ v \in Users \cup {None} /\ u # None /\ (u \in accounts' <=> v # None)
      BY <1>2, <1>3, <2>3, <3>1, SessionAssumption DEF Ends
    <3>3. CASE puts' = puts /\ gone' = gone \cup {b.user}
      BY <3>3
    <3>4. CASE gone' = gone /\ Put("Users", u, None, v)
      <4>1. PICK p : /\ Written(p) /\ p.path = "Users" /\ p.uid = u /\ p.day = None /\ p.value = v
        BY <3>2, <3>4, Writes
      <4> QED
        BY <3>1, <3>2, <3>4, <4>1 DEF Written
    <3>5. CASE b.kind = "createUser" /\ currentUser = NoUser
      BY <1>3, <3>3, <3>5 DEF Registered
    <3>6. CASE b.kind = "createUser" /\ currentUser # NoUser
      <4>1. gone' = gone /\ Put("Users", currentUser, None, currentUser) /\ currentUser = u
        BY <1>3, <2>3, <3>1, <3>6 DEF Registered
      <4>2. Put("Users", u, None, v)
        BY <3>1, <3>6, <4>1
      <4> QED
        BY <3>4, <4>1, <4>2
    <3>7. CASE b.kind = "delete"
      <4>1. gone' = gone /\ Put("Users", u, None, v)
        BY <1>3, <3>1, <3>7 DEF Deleted
      <4> QED
        BY <3>4, <4>1
    <3> QED
      BY <1>2, <3>5, <3>6, <3>7 DEF Ends
  <2> SUFFICES ASSUME NEW u \in Users, u \notin gone' PROVE Coming(u)' \/ Decided(u)'
    BY DEF Followed
  <2>5. Coming(u) \/ Decided(u)
    BY <2>1, <2>4 DEF Followed
  <2>6. CASE u # b.user /\ Coming(u)
    BY <1>1, <1>2, <2>6, ComingRuns
  <2>7. CASE puts' = puts /\ gone' = gone \cup {b.user}
    <3>1. u # b.user
      BY <2>7
    <3>2. CASE Decided(u)
      BY <2>2, <2>7, <3>2, DecidedSame
    <3> QED
      BY <2>5, <2>6, <3>1, <3>2
  <2>8. CASE \E p : /\ p.path = "Users" /\ p.uid = b.user /\ puts' = Append(puts, p)
                    /\ b.user \in accounts' <=> p.value # None
    <3>1. PICK p : /\ p.path = "Users" /\ p.uid = b.user /\ puts' = Append(puts, p)
                   /\ b.user \in accounts' <=> p.value # None
      BY <2>8
    <3>2. CASE u = b.user
      <4>1. p.uid = u /\ (u \in accounts' <=> p.value # None)
        BY <3>1, <3>2
      <4> QED
        BY <3>1, <4>1, DecidedWritten
    <3>3. CASE u # b.user /\ Decided(u)
      <4>1. p.path # "Users" \/ p.uid # u
        BY <3>1, <3>3
      <4> QED
        BY <2>2, <3>1, <3>3, <4>1, DecidedLonger
    <3> QED
      BY <2>5, <2>6, <3>2, <3>3
  <2> QED
    BY <2>4, <2>7, <2>8
<1> QED
  BY <1>3, <1>4, <1>5, <1>6 DEF RecordsInv

\* The server serves the first write of the queue.
LEMMA RecordsServed ==
  ASSUME TypeInv, InStep, RecordsInv, ServePut PROVE RecordsInv'
<1>1. PICK n, p, q, w : n = Len(puts) /\ p = Head(wire).put /\ q = puts /\ w = wire
  OBVIOUS
<1>2. /\ up # "dead" /\ wire # <<>> /\ Head(wire).kind = "put"
      /\ UNCHANGED <<up, calls, main, accounts, currentUser>> /\ hurried' = hurried
  BY DEF ServePut, authVars
<1>3. PICK i \in DOMAIN puts : /\ puts[i] = p /\ \A j \in 1..(i - 1) : puts[j] # p
                               /\ puts' = RemoveAt(puts, i)
  BY <1>1 DEF ServePut
<1>4. /\ records' = IF cred = p.uid /\ p.path = "Users"
                    THEN IF p.value = None THEN records \ {p.uid} ELSE records \cup {p.uid}
                    ELSE records
      /\ gone' = IF cred # p.uid /\ p.path = "Users" THEN gone \cup {p.uid} ELSE gone
  BY <1>1 DEF ServePut
<1>5. conn = "connected"
  <2>1. wire[1].kind = "put" /\ 1 \in 1..Len(wire) /\ conn \in {"authenticating", "connected"}
    BY <1>2, NextRequest
  <2> QED
    BY <2>1 DEF TypeInv, WireFits
<1>6. PICK f : Along(f, q, w)
  BY <1>1, <1>5 DEF InStep
<1>7. q \in Seq(Puts) /\ n \in Nat /\ n = Len(q)
  BY <1>1, Elements DEF TypeInv, ClientTyped
<1>8. 1 \in 1..n /\ q[1] = p
  <2>1. PICK l : l = Len(w)
    OBVIOUS
  <2>2. l \in Nat /\ l > 0 /\ w[1].kind = "put" /\ p = w[1].put
    BY <1>1, <1>2, <2>1, NextRequest
  <2>3. 1 \in 1..n /\ f[1] = 1 /\ q[1] = w[1].put
    BY <1>6, <1>7, <2>1, <2>2, AlongFirst
  <2> QED
    BY <2>2, <2>3
<1>9. i = 1
  <2>1. i \in 1..n
    BY <1>1, <1>3, <1>7
  <2>2. ~(1 \in 1..(i - 1))
    BY <1>1, <1>3, <1>8
  <2> QED
    BY <1>7, <2>1, <2>2
<1>10. /\ Len(puts') = n - 1
       /\ \A k \in 1..(n - 1) : puts'[k] = puts[k + 1]
  <2>1. PICK t : t = puts'
    OBVIOUS
  <2>2. q \in Seq(Puts) /\ 1 \in 1..Len(q) /\ t = RemoveAt(q, 1)
    BY <1>1, <1>3, <1>7, <1>8, <1>9, <2>1
  <2>3. /\ Len(t) = Len(q) - 1
        /\ \A k \in 1..Len(t) : t[k] = IF k < 1 THEN q[k] ELSE q[k + 1]
    BY ONLY <2>2, Removed
  <2>4. Len(t) = n - 1 /\ \A k \in 1..(n - 1) : t[k] = q[k + 1]
    BY <1>7, <2>3
  <2> QED
    BY <1>1, <2>1, <2>4
<1>11. ASSUME ~hurried' PROVE Alone' /\ Completed'
  <2>1. Alone /\ Completed
    BY <1>2, <1>11 DEF RecordsInv
  <2> QED
    BY <1>2, <2>1 DEF Alone, Completed
<1>12. ASSUME up' = "dead" \/ ~hurried' PROVE Followed'
  <2>1. Followed
    BY <1>2, <1>12 DEF RecordsInv
  <2> SUFFICES ASSUME NEW u \in Users, u \notin gone' PROVE Coming(u)' \/ Decided(u)'
    BY DEF Followed
  <2>2. u \notin gone /\ (cred # p.uid /\ p.path = "Users" => p.uid # u)
    BY <1>4
  <2>3. Coming(u) \/ Decided(u)
    BY <2>1, <2>2 DEF Followed
  <2>4. CASE Coming(u)
    BY <1>2, <2>4 DEF Coming
  <2>5. CASE Decided(u)
    <3>1. u \in records' <=> IF p.path = "Users" /\ p.uid = u THEN p.value # None ELSE u \in records
      BY <1>4, <2>2
    <3>2. u \in accounts' <=> u \in accounts
      BY <1>2
    <3>3. n \in Nat \ {0} /\ p = puts[1]
      BY <1>1, <1>7, <1>8
    <3> QED
      BY <1>1, <1>10, <2>5, <3>1, <3>2, <3>3, DecidedShorter
  <2> QED
    BY <2>3, <2>4, <2>5
<1> QED
  BY <1>11, <1>12 DEF RecordsInv

LEMMA RecordsDie == ASSUME TypeInv, Die PROVE RecordsInv'
<1>1. /\ calls' = {} /\ main' = <<>> /\ puts' = <<>> /\ records' = records
      /\ gone' = gone \cup {u \in Users : (u \in accounts') # (u \in records)}
  BY DEF Die, serverVars
<1>2. Len(main') = 0 /\ Len(puts') = 0
  BY <1>1
<1>3. Alone' /\ Completed'
  BY <1>1, <1>2 DEF Alone, Completed
<1>4. ASSUME NEW u \in Users, u \notin gone' PROVE Decided(u)'
  <2>1. u \in accounts' <=> u \in records'
    BY <1>1, <1>4
  <2> QED
    BY <1>2, <2>1 DEF Decided
<1>5. Followed'
  BY <1>4 DEF Followed
<1> QED
  BY <1>3, <1>5 DEF RecordsInv

LEMMA RecordsLaunch == ASSUME TypeInv, RecordsInv, Launch PROVE RecordsInv'
<1>1. /\ up = "dead" /\ UNCHANGED <<calls, main, puts, accounts, records, gone>>
  BY DEF Launch, serverVars
<1>2. calls = {} /\ main = <<>>
  BY <1>1 DEF TypeInv, NothingLeft
<1>3. Len(main') = 0 /\ calls' = {}
  BY <1>1, <1>2
<1>4. Alone' /\ Completed'
  BY <1>3 DEF Alone, Completed
<1>5. Followed
  BY <1>1 DEF RecordsInv
<1>6. Followed'
  BY <1>1, <1>5 DEF Followed, Coming, Decided, UsersPut
<1> QED
  BY <1>4, <1>6 DEF RecordsInv

LEMMA RecordsInvStep == ASSUME TypeInv, InStep, RecordsInv, [Next]_vars PROVE RecordsInv'
<1>1. CASE Still
  BY <1>1, RecordsStill
<1>2. CASE Calling
  BY <1>2, RecordsCalling
<1>3. CASE \E c \in calls : CallSucceeds(c)
  BY <1>3, RecordsSucceed
<1>4. CASE \E c \in calls : CallFails(c)
  BY <1>4, RecordsFail
<1>5. CASE MainQueue /\ Head(main).kind \in Ends
  BY <1>5, RecordsEnd
<1>6. CASE ServePut \/ Die \/ Launch
  BY <1>6, RecordsServed, RecordsDie, RecordsLaunch
<1> QED
  BY <1>1, <1>2, <1>3, <1>4, <1>5, <1>6, AccountsStep DEF AccountForms

\* For any users, calls and failures: an account without its record in Users, or a
\* record without its account, has its write still to come, or queued, or that write
\* was refused, was never made or died with the process, or two calls were under way
\* at once.
THEOREM RecordsAreFollowed == Spec => []RecordsFollowAccounts
<1> DEFINE I == TypeInv /\ OneToken /\ InStep /\ RecordsInv
<1>1. Init => I
  <2> SUFFICES ASSUME Init PROVE I
    OBVIOUS
  <2>1. /\ TypeInv /\ calls = {} /\ main = <<>> /\ puts = <<>> /\ accounts = records /\ conn # "connected"
    BY InitTypes DEF Init
  <2>2. OneToken /\ InStep
    BY <2>1 DEF OneToken, InStep
  <2>3. Len(main) = 0 /\ Len(puts) = 0
    BY <2>1
  <2>4. Alone /\ Completed
    BY <2>1, <2>3 DEF Alone, Completed
  <2>5. Followed
    BY <2>1, <2>3 DEF Followed, Decided
  <2> QED
    BY <2>1, <2>2, <2>4, <2>5 DEF RecordsInv
<1>2. I /\ [Next]_vars => I'
  <2> SUFFICES ASSUME I, [Next]_vars PROVE I'
    OBVIOUS
  <2>1. TypeInv /\ OneToken /\ InStep /\ RecordsInv
    OBVIOUS
  <2>2. TypeInv' /\ OneToken'
    BY <2>1, TypeInvStep, OneTokenStep
  <2>3. InStep' /\ RecordsInv'
    BY <2>1, InStepStep, RecordsInvStep
  <2> QED
    BY <2>2, <2>3
<1>3. I => RecordsFollowAccounts
  <2> SUFFICES ASSUME TypeInv, RecordsInv, NEW u \in Users, (u \in accounts) # (u \in records),
                      u \notin gone, ~hurried
               PROVE  \/ \E p \in Range(puts) : p.path = "Users" /\ p.uid = u
                      \/ \E c \in calls \cup Range(main) : c.kind \in {"createUser", "delete"} /\ c.user = u
    BY DEF RecordsFollowAccounts
  <2>1. Coming(u) \/ Decided(u)
    BY DEF RecordsInv, Followed
  <2>2. CASE Coming(u)
    <3>1. PICK k \in 1..Len(main) : main[k].kind \in Ends /\ main[k].user = u
      BY <2>2 DEF Coming
    <3>2. main[k] \in Range(main)
      BY DEF Range, TypeInv, AppTyped
    <3> QED
      BY <3>1, <3>2 DEF Ends
  <2>3. CASE Decided(u)
    <3>1. ~(u \in accounts <=> u \in records)
      OBVIOUS
    <3>2. PICK j \in 1..Len(puts) : UsersPut(j, u)
      BY <2>3, <3>1 DEF Decided
    <3>3. puts[j] \in Range(puts)
      BY DEF Range, TypeInv, ClientTyped
    <3> QED
      BY <3>2, <3>3 DEF UsersPut
  <2> QED
    BY <2>1, <2>2, <2>3
<1> QED
  BY <1>1, <1>2, <1>3, PTL DEF Spec
=============================================================================
