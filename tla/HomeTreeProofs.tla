--------------------------- MODULE HomeTreeProofs ---------------------------
(* The tree of the home screen: what the service holds and what is drawn,  *)
(* for any accounts, visits, diaries and failures.                         *)
EXTENDS HomeTree, SequenceTheorems, FiniteSetTheorems, TLAPS

-----------------------------------------------------------------------------
(* The level of the tree as a function of the number of diaries            *)

\* Every number of diaries up to the last bound has a level.
LEMMA LevelExists ==
    ASSUME NEW u \in 0..MostDiaries
    PROVE  \E l \in Levels : InLevel(u, l)
<1>1. CASE u <= 2
  <2>1. InLevel(u, 0)
    BY <1>1 DEF InLevel, UpTo, Levels
  <2> QED
    BY <2>1 DEF Levels
<1>2. CASE u > 2
  <2>1. PICK l \in 1..8 : u <= 7 * l /\ 7 * (l - 1) < u
    BY <1>2 DEF MostDiaries
  <2>2. InLevel(u, l)
    BY <1>2, <2>1 DEF InLevel, UpTo, Levels
  <2> QED
    BY <2>2 DEF Levels
<1> QED
  BY <1>1, <1>2 DEF MostDiaries

LEMMA LevelOfInLevel ==
    ASSUME NEW u \in 0..MostDiaries
    PROVE  LevelOf(u) \in Levels /\ InLevel(u, LevelOf(u))
<1>1. \E l \in Levels : InLevel(u, l)
  BY LevelExists
<1> QED
  BY <1>1 DEF LevelOf

\* README.md: the tree grows with the diaries.  Up to the last bound more
\* diaries never mean a lower level of setTreeLevel, whatever level came before.
THEOREM MoreDiariesTallerTree ==
    ASSUME NEW m \in 0..MostDiaries, NEW n \in m..MostDiaries,
           NEW k \in Levels, NEW l \in Levels
    PROVE  SetTreeLevel(m, k) <= SetTreeLevel(n, l)
<1> DEFINE a == LevelOf(m)
           b == LevelOf(n)
<1>1. a \in Levels /\ InLevel(m, a)
  BY LevelOfInLevel
<1>2. n \in 0..MostDiaries
  BY DEF MostDiaries
<1>3. b \in Levels /\ InLevel(n, b)
  BY <1>2, LevelOfInLevel
<1>4. a <= b
  <2> SUFFICES ASSUME a > b PROVE FALSE
    BY <1>1, <1>3 DEF Levels
  <2> HIDE DEF a, b
  <2>1. a - 1 >= b /\ a - 1 \in Levels
    BY <1>1, <1>3 DEF Levels
  <2>2. UpTo[b] <= UpTo[a - 1]
    BY <1>1, <1>3, <2>1 DEF UpTo, Levels
  <2>3. n <= UpTo[b] /\ m > UpTo[a - 1]
    BY <1>1, <1>3, <2>1 DEF InLevel, Levels
  <2>4. UpTo[b] \in Int /\ UpTo[a - 1] \in Int
    BY <1>3, <2>1 DEF UpTo, Levels
  <2> QED
    BY <2>2, <2>3, <2>4 DEF MostDiaries
<1>5. SetTreeLevel(m, k) = a /\ SetTreeLevel(n, l) = b
  BY DEF SetTreeLevel, MostDiaries
<1> QED
  BY <1>4, <1>5

-----------------------------------------------------------------------------
(* The inductive invariant                                                 *)

USE CountsAssumption, NoUserAssumption

LastRequest == requests[Len(requests)]

\* While no read has failed, the last request behind a home screen is a count
\* of its account; when it is answered, the service holds that count.
CountWins ==
    screen = "home" /\ ~failed =>
        IF requests = <<>>
        THEN count[user] \in 1..MostDiaries =>
                data = [diaryUsage |-> count[user], treeLevel |-> LevelOf(count[user])]
        ELSE ~IsSave(LastRequest) /\ LastRequest.user = user

\* What the service holds is a count the account has had, with its level.
CountFits ==
    counted # NoUser =>
        /\ data.diaryUsage \in 1..count[counted]
        /\ data.diaryUsage <= MostDiaries => data.treeLevel = LevelOf(data.diaryUsage)

\* Every picture shown or under way is that of the count known before.
PicturesFit ==
    ~racing /\ basis \in 1..MostDiaries =>
        /\ \A n \in 1..Len(loads) : loads[n] = LevelOf(basis)
        /\ loads = <<>> => shown = LevelOf(basis)

HomeInv == TypeOK /\ CountWins /\ CountFits /\ PicturesFit

-----------------------------------------------------------------------------
(* Lemmas about the operators                                              *)

LEMMA SetTreeLevelType ==
    ASSUME NEW u \in Nat, NEW l \in Levels
    PROVE  SetTreeLevel(u, l) \in Levels
<1>1. CASE u <= MostDiaries
  <2>1. u \in 0..MostDiaries
    BY <1>1 DEF MostDiaries
  <2> QED
    BY <2>1, <1>1, LevelOfInLevel DEF SetTreeLevel
<1>2. CASE ~(u <= MostDiaries)
  BY <1>2 DEF SetTreeLevel
<1> QED
  BY <1>1, <1>2

\* Without one of its elements a sequence is one shorter, of the same elements.
LEMMA RemovedAt ==
    ASSUME NEW S, NEW s \in Seq(S), NEW n \in 1..Len(s)
    PROVE  /\ RemoveAt(s, n) \in Seq(S)
           /\ \A k \in 1..Len(RemoveAt(s, n)) :
                 \E j \in 1..Len(s) : RemoveAt(s, n)[k] = s[j]
<1> DEFINE a == SubSeq(s, 1, n - 1)
           b == SubSeq(s, n + 1, Len(s))
<1>1. Len(s) \in Nat /\ \A k \in 1..Len(s) : s[k] \in S
  BY LenProperties, ElementOfSeq
<1>2. /\ a \in Seq(S)
      /\ Len(a) = n - 1
      /\ \A k \in 1..(n - 1) : a[k] = s[k]
  BY <1>1, SubSeqProperties
<1>3. /\ b \in Seq(S)
      /\ Len(b) = Len(s) - n
      /\ \A k \in 1..(Len(s) - n) : b[k] = s[n + k]
  BY <1>1, SubSeqProperties
<1> HIDE DEF a, b
<1>4. /\ a \o b \in Seq(S)
      /\ Len(a \o b) = Len(a) + Len(b)
      /\ \A k \in 1..(Len(a) + Len(b)) :
            (a \o b)[k] = IF k <= Len(a) THEN a[k] ELSE b[k - Len(a)]
  BY <1>2, <1>3, ConcatProperties, Zenon
<1> DEFINE c == a \o b
<1> HIDE DEF c
<1>5. ASSUME NEW k \in 1..(Len(s) - 1)
      PROVE  \E j \in 1..Len(s) : c[k] = s[j]
  <2>1. n \in Int /\ k \in Int /\ k \in 1..(Len(a) + Len(b))
    BY <1>1, <1>2, <1>3
  <2>2. CASE k \in 1..(n - 1)
    <3>1. c[k] = a[k]
      BY <1>2, <1>4, <2>1, <2>2 DEF c
    <3> QED
      BY <1>1, <1>2, <2>2, <3>1
  <2>3. CASE k > n - 1
    <3>1. c[k] = b[k - (n - 1)]
      BY <1>2, <1>4, <2>1, <2>3 DEF c
    <3>2. k - (n - 1) \in 1..(Len(s) - n)
      BY <1>1, <2>1, <2>3
    <3>3. b[k - (n - 1)] = s[n + (k - (n - 1))]
      BY <1>3, <3>2
    <3>4. n + (k - (n - 1)) \in 1..Len(s)
      BY <1>1, <2>1, <3>2
    <3> QED
      BY <3>1, <3>3, <3>4
  <2> QED
    BY <1>1, <2>1, <2>2, <2>3
<1>6. RemoveAt(s, n) = c
  BY DEF RemoveAt, a, b, c
<1>7. c \in Seq(S) /\ Len(c) = Len(s) - 1
  BY <1>1, <1>2, <1>3, <1>4 DEF c
<1> QED
  BY <1>5, <1>6, <1>7

LEMMA LostCounts ==
    ASSUME requests \in Seq(Requests), CountsAreLost
    PROVE  requests' \in Seq(Requests)
<1>1. SavePlaces \subseteq 1..Len(requests) /\ IsFiniteSet(SavePlaces)
  BY FS_Interval, FS_Subset DEF SavePlaces
<1>2. Cardinality(SavePlaces) \in Nat
  BY <1>1, FS_CardinalityType
<1>3. PICK p \in [1..Cardinality(SavePlaces) -> SavePlaces] :
         requests' = [n \in DOMAIN p |-> requests[p[n]]]
  BY DEF CountsAreLost
<1>4. \A n \in 1..Len(requests) : requests[n] \in Requests
  BY ElementOfSeq
<1>5. requests' \in [1..Cardinality(SavePlaces) -> Requests]
  BY <1>1, <1>3, <1>4
<1> QED
  BY <1>2, <1>5

\* The first request is dealt with; the last one stays the last, if any is left.
LEMMA FirstTaken ==
    ASSUME requests \in Seq(Requests), requests # <<>>, requests' = Tail(requests)
    PROVE  /\ Head(requests) \in Requests
           /\ requests' \in Seq(Requests)
           /\ IF requests' = <<>> THEN LastRequest = Head(requests)
                                  ELSE LastRequest' = LastRequest
<1>1. /\ Len(requests) \in Nat \ {0}
      /\ Head(requests) \in Requests
      /\ Head(requests) = requests[1]
      /\ requests' \in Seq(Requests)
      /\ Len(requests') = Len(requests) - 1
      /\ \A n \in 1..Len(requests') : requests'[n] = requests[n + 1]
  BY EmptySeq, HeadTailProperties
<1>2. CASE requests' = <<>>
  <2>1. Len(requests') = 0
    BY <1>2, EmptySeq
  <2>2. Len(requests) = 1
    BY <1>1, <2>1
  <2> QED
    BY <1>1, <1>2, <2>2 DEF LastRequest
<1>3. CASE requests' # <<>>
  <2>1. Len(requests') \in 1..Len(requests')
    BY <1>1, <1>3, EmptySeq
  <2>2. requests'[Len(requests')] = requests[Len(requests') + 1]
    BY <1>1, <2>1
  <2> QED
    BY <1>1, <1>3, <2>2 DEF LastRequest
<1> QED
  BY <1>1, <1>2, <1>3

\* A home screen that appears has asked for the count of its account last.
LEMMA CountsAsked ==
    ASSUME requests \in Seq(Requests), NEW u \in Users, NEW times \in Nat \ {0},
           CheckDiaryUsage(u, times)
    PROVE  /\ requests' \in Seq(Requests)
           /\ requests' # <<>>
           /\ ~IsSave(LastRequest')
           /\ LastRequest'.user = u
<1> DEFINE r == [kind |-> "count", user |-> u]
           t == [n \in 1..times |-> r]
<1>1. r \in Requests /\ r.kind = "count" /\ r.user = u
  BY DEF Requests
<1> HIDE DEF r
<1>2. t \in Seq(Requests) /\ Len(t) = times /\ \A n \in 1..times : t[n] = r
  BY <1>1
<1>3. requests' = requests \o t
  BY DEF CheckDiaryUsage, r
<1> HIDE DEF t
<1>4. Len(requests) \in Nat
  BY LenProperties
<1>5. /\ requests' \in Seq(Requests)
      /\ Len(requests') = Len(requests) + times
      /\ requests'[Len(requests) + times] = t[times]
  <2>1. /\ requests \o t \in Seq(Requests)
        /\ Len(requests \o t) = Len(requests) + Len(t)
        /\ \A n \in 1..(Len(requests) + Len(t)) : (requests \o t)[n] =
              IF n <= Len(requests) THEN requests[n] ELSE t[n - Len(requests)]
    BY <1>2, ConcatProperties, Zenon
  <2>2. /\ Len(requests) + times \in 1..(Len(requests) + Len(t))
        /\ ~(Len(requests) + times <= Len(requests))
        /\ (Len(requests) + times) - Len(requests) = times
    BY <1>2, <1>4
  <2>3. (requests \o t)[Len(requests) + times] = t[(Len(requests) + times) - Len(requests)]
    BY <2>1, <2>2
  <2> QED
    BY <1>2, <1>3, <2>1, <2>2, <2>3
<1>6. Len(requests') # 0
  BY <1>4, <1>5
<1>7. LastRequest' = r
  BY <1>2, <1>5 DEF LastRequest
<1> QED
  BY <1>1, <1>5, <1>6, <1>7 DEF IsSave

\* The pictures asked for are of the level the service holds.
LEMMA PicturesAsked ==
    ASSUME TypeOK, NEW old \in Seq(Levels), NEW times \in Nat \ {0},
           SetBindTreeImage(old, times)
    PROVE  /\ loads' \in Seq(Levels)
           /\ loads' # <<>>
           /\ old = <<>> => \A n \in 1..Len(loads') : loads'[n] = data.treeLevel
<1> DEFINE level == data.treeLevel
           t == [n \in 1..times |-> level]
<1>1. level \in Levels
  BY DEF TypeOK
<1> HIDE DEF level
<1>2. t \in Seq(Levels) /\ Len(t) = times /\ \A n \in 1..times : t[n] = level
  BY <1>1
<1>3. loads' = old \o t
  BY DEF SetBindTreeImage, level
<1> HIDE DEF t
<1>4. loads' \in Seq(Levels) /\ Len(loads') = Len(old) + times /\ Len(old) \in Nat
  BY <1>2, <1>3, ConcatProperties, LenProperties
<1>5. Len(loads') # 0
  BY <1>4
<1>6. old = <<>> => loads' = t
  BY <1>2, <1>3, ConcatEmptySeq
<1> QED
  BY <1>2, <1>4, <1>5, <1>6 DEF level

-----------------------------------------------------------------------------
(* The actions                                                             *)

LEMMA AppearKeeps ==
    ASSUME HomeInv, Appear, NEW u \in Users, user' = u,
           NEW k \in Nat \ {0}, CheckDiaryUsage(u, k),
           NEW m \in Nat \ {0}, NEW old \in Seq(Levels), SetBindTreeImage(old, m),
           racing' = (old # <<>>),
           shown' \in {shown, NoPicture}
    PROVE  HomeInv'
<1>1. /\ TypeOK
      /\ requests \in Seq(Requests)
      /\ u # NoUser
  BY DEF HomeInv, TypeOK
<1>2. /\ requests' \in Seq(Requests)
      /\ requests' # <<>>
      /\ ~IsSave(LastRequest')
      /\ LastRequest'.user = u
  BY <1>1, CountsAsked
<1>3. /\ loads' \in Seq(Levels)
      /\ loads' # <<>>
      /\ old = <<>> => \A n \in 1..Len(loads') : loads'[n] = data.treeLevel
  BY <1>1, PicturesAsked
<1>4. TypeOK'
  BY <1>1, <1>2, <1>3 DEF TypeOK, Appear
<1>5. CountWins'
  BY <1>2 DEF CountWins, IsSave, LastRequest
<1>6. CountFits'
  BY DEF HomeInv, CountFits, Appear
<1>7. PicturesFit'
  <2> SUFFICES ASSUME old = <<>>, basis' \in 1..MostDiaries
               PROVE  \A n \in 1..Len(loads') : loads'[n] = LevelOf(basis')
    BY <1>3 DEF PicturesFit
  <2>1. basis' # 0 /\ basis' <= MostDiaries
    BY DEF MostDiaries
  <2>2. counted # NoUser /\ basis' = data.diaryUsage
    BY <2>1 DEF Appear
  <2>3. data.treeLevel = LevelOf(basis')
    BY <2>1, <2>2 DEF HomeInv, CountFits
  <2> QED
    BY <1>3, <2>3
<1> QED
  BY <1>4, <1>5, <1>6, <1>7 DEF HomeInv

LEMMA HomeLoadsKeeps ==
    ASSUME HomeInv, NEW u \in Users, HomeLoads(u)
    PROVE  HomeInv'
<1>1. /\ Appear
      /\ user' = u
      /\ CheckDiaryUsage(u, 2)
      /\ SetBindTreeImage(<<>>, 3)
      /\ racing' = (<<>> # <<>>)
      /\ shown' \in {shown, NoPicture}
  BY DEF HomeLoads
<1>2. <<>> \in Seq(Levels) /\ 2 \in Nat \ {0} /\ 3 \in Nat \ {0}
  BY EmptySeq
<1> QED
  BY <1>1, <1>2, AppearKeeps, Zenon

LEMMA ReappearKeeps ==
    ASSUME HomeInv, ViewWillAppear
    PROVE  HomeInv'
<1>1. /\ Appear
      /\ user' = user
      /\ CheckDiaryUsage(user, 1)
      /\ SetBindTreeImage(loads, 1)
      /\ racing' = (loads # <<>>)
      /\ shown' \in {shown, NoPicture}
  BY DEF ViewWillAppear
<1>2. user \in Users /\ loads \in Seq(Levels)
  BY DEF ViewWillAppear, HomeInv, TypeOK
<1> QED
  BY <1>1, <1>2, AppearKeeps

LEMMA PushKeeps ==
    ASSUME HomeInv, PushScreen
    PROVE  HomeInv'
BY DEF HomeInv, PushScreen, TypeOK, CountWins, CountFits, PicturesFit

LEMMA LogoutKeeps ==
    ASSUME HomeInv, Logout
    PROVE  HomeInv'
BY DEF HomeInv, Logout, TypeOK, CountWins, CountFits, PicturesFit

LEMMA SaveKeeps ==
    ASSUME HomeInv, SaveDiary
    PROVE  HomeInv'
<1>1. user \in Users /\ screen' # "home"
  BY DEF HomeInv, TypeOK, SaveDiary
<1>2. [kind |-> "save", user |-> user] \in Requests
  BY <1>1 DEF Requests
<1>3. requests' \in Seq(Requests)
  BY <1>2, AppendProperties DEF HomeInv, TypeOK, SaveDiary
<1> QED
  BY <1>1, <1>3 DEF HomeInv, SaveDiary, TypeOK, CountWins, CountFits, PicturesFit

LEMMA PictureLoadedKeeps ==
    ASSUME HomeInv, PictureLoaded
    PROVE  HomeInv'
<1>1. PICK n \in 1..Len(loads) : shown' = loads[n] /\ loads' = RemoveAt(loads, n)
  BY DEF PictureLoaded
<1>2. loads \in Seq(Levels) /\ loads[n] \in Levels
  BY ElementOfSeq DEF HomeInv, TypeOK
<1>3. /\ loads' \in Seq(Levels)
      /\ \A k \in 1..Len(loads') : \E j \in 1..Len(loads) : loads'[k] = loads[j]
  BY <1>1, <1>2, RemovedAt
<1>4. PicturesFit'
  BY <1>1, <1>3 DEF HomeInv, PicturesFit, PictureLoaded
<1> QED
  BY <1>1, <1>2, <1>3, <1>4
     DEF HomeInv, PictureLoaded, TypeOK, CountWins, CountFits, LastRequest

LEMMA PictureFailsKeeps ==
    ASSUME HomeInv, PictureFails
    PROVE  HomeInv'
<1>1. PICK n \in 1..Len(loads) : loads' = RemoveAt(loads, n)
  BY DEF PictureFails
<1>2. loads' \in Seq(Levels)
  BY <1>1, RemovedAt DEF HomeInv, TypeOK
<1> QED
  BY <1>2 DEF HomeInv, PictureFails, TypeOK, CountWins, CountFits, PicturesFit, LastRequest

LEMMA SaveServedKeeps ==
    ASSUME HomeInv, SaveServed
    PROVE  HomeInv'
<1> DEFINE u == Head(requests).user
<1>1. /\ requests \in Seq(Requests)
      /\ requests # <<>>
      /\ requests' = Tail(requests)
      /\ count' = [count EXCEPT ![u] = @ + 1]
      /\ IsSave(Head(requests))
  BY DEF HomeInv, TypeOK, SaveServed
<1>2. /\ u \in Users
      /\ requests' \in Seq(Requests)
      /\ IF requests' = <<>> THEN LastRequest = Head(requests)
                             ELSE LastRequest' = LastRequest
  BY <1>1, FirstTaken DEF Requests
<1> HIDE DEF u
<1>3. /\ count' \in [Users -> Nat]
      /\ \A v \in Users : count'[v] \in Nat /\ count'[v] >= count[v]
  BY <1>1, <1>2 DEF HomeInv, TypeOK
<1>4. TypeOK'
  BY <1>2, <1>3 DEF HomeInv, TypeOK, SaveServed
<1>5. CountWins'
  BY <1>1, <1>2 DEF HomeInv, CountWins, SaveServed, IsSave, LastRequest
<1>6. CountFits'
  BY <1>3 DEF HomeInv, CountFits, TypeOK, SaveServed
<1>7. PicturesFit'
  BY DEF HomeInv, PicturesFit, SaveServed
<1> QED
  BY <1>4, <1>5, <1>6, <1>7 DEF HomeInv

LEMMA CountAnsweredKeeps ==
    ASSUME HomeInv, CountAnswered
    PROVE  HomeInv'
<1> DEFINE u == Head(requests).user
<1>1. /\ requests \in Seq(Requests)
      /\ requests # <<>>
      /\ requests' = Tail(requests)
      /\ IF count[u] > 0
         THEN /\ data' = [diaryUsage |-> count[u],
                          treeLevel |-> SetTreeLevel(count[u], data.treeLevel)]
              /\ counted' = u
         ELSE UNCHANGED <<data, counted>>
  BY DEF HomeInv, TypeOK, CountAnswered
<1>2. /\ u \in Users
      /\ requests' \in Seq(Requests)
      /\ IF requests' = <<>> THEN LastRequest = Head(requests)
                             ELSE LastRequest' = LastRequest
  BY <1>1, FirstTaken DEF Requests
<1>3. /\ requests' = <<>> => LastRequest.user = u
      /\ UNCHANGED <<user, screen, shown, loads, count, basis, failed, racing>>
  BY <1>2 DEF CountAnswered
<1> HIDE DEF u
<1>4. count[u] \in Nat /\ data.treeLevel \in Levels /\ u # NoUser
  BY <1>2 DEF HomeInv, TypeOK
<1>5. CASE count[u] > 0
  <2> DEFINE level == SetTreeLevel(count[u], data.treeLevel)
  <2>1. level \in Levels
    BY <1>4, SetTreeLevelType
  <2>2. count[u] <= MostDiaries => level = LevelOf(count[u])
    BY DEF SetTreeLevel
  <2>3. data' = [diaryUsage |-> count[u], treeLevel |-> level] /\ counted' = u
    BY <1>1, <1>5
  <2> HIDE DEF level
  <2>4. data'.diaryUsage = count[u] /\ data'.treeLevel = level
    BY <2>3
  <2>5. TypeOK'
    BY <1>2, <1>3, <1>4, <2>1, <2>3, <2>4 DEF HomeInv, TypeOK
  <2>6. CountFits'
    BY <1>3, <1>4, <1>5, <2>2, <2>3, <2>4 DEF CountFits
  <2>7. CountWins'
    <3>1. CASE requests' = <<>>
      <4> SUFFICES ASSUME screen = "home", ~failed, count[user] \in 1..MostDiaries
                   PROVE  data' = [diaryUsage |-> count[user],
                                   treeLevel |-> LevelOf(count[user])]
        BY <1>3, <3>1 DEF CountWins
      <4>1. user = u
        BY <1>1, <1>3, <3>1 DEF HomeInv, CountWins
      <4> QED
        BY <2>2, <2>3, <4>1 DEF MostDiaries
    <3>2. CASE requests' # <<>>
      BY <1>1, <1>2, <1>3, <3>2 DEF HomeInv, CountWins
    <3> QED
      BY <3>1, <3>2
  <2>8. PicturesFit'
    BY <1>3 DEF HomeInv, PicturesFit
  <2> QED
    BY <2>5, <2>6, <2>7, <2>8 DEF HomeInv
<1>6. CASE ~(count[u] > 0)
  <2>1. UNCHANGED <<data, counted>>
    BY <1>1, <1>6
  <2>2. CountWins'
    <3>1. CASE requests' = <<>>
      <4> SUFFICES ASSUME screen = "home", ~failed
                   PROVE  ~(count[user] \in 1..MostDiaries)
        BY <1>3, <3>1 DEF CountWins
      <4>1. user = u
        BY <1>1, <1>3, <3>1 DEF HomeInv, CountWins
      <4> QED
        BY <1>4, <1>6, <4>1
    <3>2. CASE requests' # <<>>
      BY <1>1, <1>2, <1>3, <3>2 DEF HomeInv, CountWins
    <3> QED
      BY <3>1, <3>2
  <2> QED
    BY <1>2, <1>3, <2>1, <2>2 DEF HomeInv, TypeOK, CountFits, PicturesFit
<1> QED
  BY <1>5, <1>6

LEMMA CountFailsKeeps ==
    ASSUME HomeInv, CountFails
    PROVE  HomeInv'
<1>1. requests # <<>>
  <2>1. PICK n \in 1..Len(requests) : TRUE
    BY DEF CountFails, CountOutstanding
  <2> QED
    BY <2>1
<1>2. requests' \in Seq(Requests)
  <2>1. requests \in Seq(Requests)
    BY DEF HomeInv, TypeOK
  <2>2. CASE requests' = Tail(requests)
    BY <1>1, <2>1, <2>2, FirstTaken
  <2>3. CASE CountsAreLost
    BY <2>1, <2>3, LostCounts
  <2> QED
    BY <2>2, <2>3 DEF CountFails
<1> QED
  BY <1>2 DEF HomeInv, CountFails, TypeOK, CountWins, CountFits, PicturesFit

-----------------------------------------------------------------------------
(* The theorems                                                            *)

LEMMA HomeInvInit == Init => HomeInv
<1> SUFFICES ASSUME Init PROVE HomeInv
  OBVIOUS
<1>1. count \in [Users -> Nat]
  BY DEF Init
<1>2. TypeOK
  BY <1>1, EmptySeq DEF Init, TypeOK, Levels, NoPicture
<1> QED
  BY <1>2 DEF Init, HomeInv, CountWins, CountFits, PicturesFit

LEMMA HomeInvKept == HomeInv /\ [Next]_vars => HomeInv'
<1> SUFFICES ASSUME HomeInv, [Next]_vars PROVE HomeInv'
  OBVIOUS
<1>1. CASE Login
  BY <1>1, HomeLoadsKeeps DEF Login
<1>2. CASE HomeButtonClicked
  <2>1. user \in Users
    BY <1>2 DEF HomeButtonClicked, HomeInv, TypeOK
  <2> QED
    BY <1>2, <2>1, HomeLoadsKeeps DEF HomeButtonClicked
<1>3. CASE UNCHANGED vars
  BY <1>3 DEF vars, HomeInv, TypeOK, CountWins, CountFits, PicturesFit, LastRequest
<1> QED
  BY <1>1, <1>2, <1>3, ReappearKeeps, PushKeeps, SaveKeeps, LogoutKeeps,
     PictureLoadedKeeps, PictureFailsKeeps, SaveServedKeeps, CountAnsweredKeeps,
     CountFailsKeeps
     DEF Next

LEMMA HomeInvHolds == Spec => []HomeInv
<1>1. Init => HomeInv
  BY HomeInvInit
<1>2. HomeInv /\ [Next]_vars => HomeInv'
  BY HomeInvKept
<1> QED
  BY <1>1, <1>2, PTL DEF Spec

\* The types of the home screen and of the service.
THEOREM TypeCorrect == Spec => []TypeOK
<1>1. HomeInv => TypeOK
  BY DEF HomeInv
<1> QED
  BY <1>1, HomeInvHolds, PTL

\* FirebaseDatabase.swift: with no read outstanding, the service holds the
\* count and the level of the account logged in, whatever answers to accounts
\* before were still on their way at the login.
THEOREM TheLastCountWins == Spec => []LastCountWins
<1>1. HomeInv => LastCountWins
  <2> SUFFICES ASSUME HomeInv, screen = "home", ~CountOutstanding, ~failed
               PROVE  requests = <<>>
    BY DEF HomeInv, CountWins, LastCountWins
  <2>1. requests \in Seq(Requests)
    BY DEF HomeInv, TypeOK
  <2>2. ASSUME requests # <<>> PROVE FALSE
    <3>1. Len(requests) \in 1..Len(requests)
      BY <2>1, <2>2, EmptySeq
    <3>2. ~IsSave(requests[Len(requests)])
      BY <2>2 DEF HomeInv, CountWins, LastRequest
    <3> QED
      BY <3>1, <3>2 DEF CountOutstanding
  <2> QED
    BY <2>2
<1> QED
  BY <1>1, HomeInvHolds, PTL

\* README.md: the tree of the home screen is grown to the user's diaries if
\* their number was known when the screen appeared (setBindTreeImage of
\* ViewController.swift reads the level then).
THEOREM AKnownCountIsShown == Spec => []HomeShowsAKnownCount
<1>1. HomeInv => HomeShowsAKnownCount
  BY DEF HomeInv, PicturesFit, HomeShowsAKnownCount
<1> QED
  BY <1>1, HomeInvHolds, PTL

\* README.md: while the counts that arrive are one account's, the level of the
\* service never goes down, in any order of writing, reading and failing.
THEOREM TheTreeOnlyGrows == Spec => TreeNeverShrinks
<1>1. HomeInv /\ [Next]_vars =>
         [counted' = counted /\ counted # NoUser
            => data'.treeLevel >= data.treeLevel]_vars
  <2> SUFFICES ASSUME HomeInv, Next, counted' = counted, counted # NoUser
               PROVE  data'.treeLevel >= data.treeLevel
    BY DEF vars
  <2> DEFINE u == Head(requests).user
  <2>1. data.treeLevel \in Levels /\ counted \in Users /\ count[counted] \in Nat
    BY DEF HomeInv, TypeOK
  <2>2. CASE UNCHANGED data
    BY <2>1, <2>2 DEF Levels
  <2>3. CASE CountAnswered /\ count[u] > 0
    <3>1. u = counted /\ data'.treeLevel = SetTreeLevel(count[counted], data.treeLevel)
      BY <2>3 DEF CountAnswered
    <3>2. CASE count[counted] <= MostDiaries
      <4> DEFINE m == data.diaryUsage
                 n == count[counted]
      <4>1. m \in 1..n /\ n \in 0..MostDiaries
        BY <2>1, <3>2 DEF HomeInv, CountFits
      <4>2. m \in 0..MostDiaries /\ n \in m..MostDiaries
        BY <4>1 DEF MostDiaries
      <4>3. data.treeLevel = SetTreeLevel(m, data.treeLevel)
        BY <4>2 DEF HomeInv, CountFits, SetTreeLevel
      <4> HIDE DEF m
      <4>4. SetTreeLevel(m, data.treeLevel) <= SetTreeLevel(n, data.treeLevel)
        BY <2>1, <4>2, MoreDiariesTallerTree
      <4>5. SetTreeLevel(n, data.treeLevel) \in Levels
        BY <2>1, SetTreeLevelType
      <4> QED
        BY <2>1, <3>1, <4>3, <4>4, <4>5 DEF Levels
    <3>3. CASE ~(count[counted] <= MostDiaries)
      BY <2>1, <3>1, <3>3 DEF SetTreeLevel, Levels
    <3> QED
      BY <3>2, <3>3
  <2>4. UNCHANGED data \/ (CountAnswered /\ count[u] > 0)
    BY DEF Next, Login, HomeButtonClicked, HomeLoads, Appear, ViewWillAppear,
           PushScreen, SaveDiary, Logout, PictureLoaded, PictureFails, SaveServed,
           CountAnswered, CountFails
  <2> QED
    BY <2>2, <2>3, <2>4
<1> QED
  BY <1>1, HomeInvHolds, PTL DEF Spec, TreeNeverShrinks

=============================================================================
