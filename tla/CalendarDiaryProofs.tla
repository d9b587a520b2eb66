------------------------- MODULE CalendarDiaryProofs ------------------------
(* The editor of a diary: what it shows at rest and under which dates it   *)
(* saves, for any dates, texts, moves, saves and failures.                 *)
EXTENDS CalendarDiary, SequenceTheorems, FiniteSetTheorems,
        WellFoundedInduction, TLAPS

USE NoDiaryAssumption

-----------------------------------------------------------------------------
(* The inductive invariants                                                *)

TypeInv == TypeOK /\ faults \in Nat

LastRequest == requests[Len(requests)]
LastCallback == callbacks[Len(callbacks)]

\* The dates with a save outstanding, and what the client holds for each date.
pending == {d \in Keys : PendingSaves(d) # {}}
held == [d \in Keys |-> Latest(d)]

\* A save the server has dealt with, and no later one of its date, is stored.
ServedSavesAreStored ==
    ~failed =>
        \A n \in 1..served :
            /\ IsSave(requests[n])
            /\ \A k \in n + 1 .. served :
                  ~(IsSave(requests[k]) /\ requests[k].date = requests[n].date)
            => diary[requests[n].date] = requests[n].entry

\* The text on the screen is what the client holds for the date.
ScreenShows ==
    Entry(text, about) =
        IF held[date] = NoDiary THEN Entry(Placeholder, date) ELSE held[date]

\* The last move is answered last: by the last request, when one reads, else
\* by the last callback; then its answer is on the screen.
LastMoveWins ==
    ~touched /\ ~overtaken /\ ~failed =>
        IF ReadOutstanding
        THEN /\ IsRead(LastRequest)
             /\ LastRequest.date = date
             /\ date \notin pending
             /\ served = Len(requests) => LastRequest.entry = diary[date]
        ELSE IF callbacks # <<>>
        THEN /\ LastCallback.date = date
             /\ LastCallback.status = "answer"
             /\ LastCallback.entry = held[date]
        ELSE ScreenShows

\* Whatever a patient writer has stored, saved, read or been answered belongs
\* to the date it is under, and only the date shown is being read.
DatesAreKept ==
    ~hurried /\ faults = 0 =>
        /\ \A d \in Keys : diary[d] # NoDiary => diary[d].about = d
        /\ \A n \in 1..Len(requests) :
              IsSave(requests[n]) => requests[n].entry.about = requests[n].date
        /\ \A n \in 1..served :
              IsRead(requests[n]) /\ requests[n].entry # NoDiary
                 => requests[n].entry.about = requests[n].date
        /\ \A n \in 1..Len(requests) :
              IsRead(requests[n]) => requests[n].date = date
        /\ \A n \in 1..Len(callbacks) :
              /\ callbacks[n].date = date
              /\ callbacks[n].status = "answer"
              /\ callbacks[n].entry # NoDiary => callbacks[n].entry.about = date
        /\ ~Reading => about = date

-----------------------------------------------------------------------------
(* Lemmas about the operators                                              *)

\* A set of places has a last one: the gaps behind its elements, as naturals,
\* have a least.
LEMMA LastPlace ==
    ASSUME NEW n \in Nat, NEW S \in SUBSET (1..n), S # {}
    PROVE  Max(S) \in S /\ \A k \in S : k <= Max(S)
<1> DEFINE T == {n - k : k \in S}
<1>1. T \subseteq Nat /\ T # {}
  OBVIOUS
<1>2. PICK m \in T : \A k \in T : ~(<<k, m>> \in OpToRel(<, Nat))
  BY <1>1, WFMin, NatLessThanWellFounded
<1>3. \A k \in T : ~(k < m)
  BY <1>1, <1>2 DEF OpToRel
<1>4. PICK j \in S : m = n - j
  OBVIOUS
<1>5. ASSUME NEW k \in S PROVE j >= k
  <2>1. n - k \in T
    OBVIOUS
  <2>2. ~(n - k < n - j)
    BY <1>3, <1>4, <2>1
  <2> QED
    BY <2>2
<1>6. \E x \in S : \A k \in S : x >= k
  BY <1>5
<1> QED
  BY <1>6 DEF Max

LEMMA LastPlaceIs ==
    ASSUME NEW n \in Nat, NEW S \in SUBSET (1..n), NEW m \in S, \A k \in S : k <= m
    PROVE  Max(S) = m
<1>1. Max(S) \in S /\ m <= Max(S)
  BY LastPlace
<1>2. Max(S) <= m
  BY <1>1
<1>3. Max(S) \in 1..n /\ m \in 1..n
  BY <1>1
<1> QED
  BY <1>1, <1>2, <1>3

\* What the client holds for a date with a save outstanding is its last save.
LEMMA HeldFromSave ==
    ASSUME requests \in Seq(Requests), NEW d \in Keys, NEW n \in PendingSaves(d),
           \A k \in PendingSaves(d) : k <= n
    PROVE  held[d] = requests[n].entry
<1>1. Len(requests) \in Nat /\ PendingSaves(d) \in SUBSET (1..Len(requests))
  BY LenProperties DEF PendingSaves
<1>2. Max(PendingSaves(d)) = n
  BY <1>1, LastPlaceIs
<1>3. PendingSaves(d) # {}
  OBVIOUS
<1>4. Latest(d) = requests[n].entry
  BY <1>2, <1>3 DEF Latest
<1> QED
  BY <1>4 DEF held

LEMMA HeldFromSaveNext ==
    ASSUME requests' \in Seq(Requests), NEW d \in Keys, NEW n \in PendingSaves(d)',
           \A k \in PendingSaves(d)' : k <= n
    PROVE  held'[d] = requests'[n].entry
<1>1. Len(requests') \in Nat /\ PendingSaves(d)' \in SUBSET (1..Len(requests'))
  BY LenProperties DEF PendingSaves
<1>2. Max(PendingSaves(d)') = n
  BY <1>1, LastPlaceIs
<1>3. PendingSaves(d)' # {}
  OBVIOUS
<1>4. Latest(d)' = requests'[n].entry
  BY <1>2, <1>3 DEF Latest
<1> QED
  BY <1>4 DEF held

LEMMA LastSave ==
    ASSUME requests \in Seq(Requests), NEW d \in pending
    PROVE  \E n \in PendingSaves(d) : \A k \in PendingSaves(d) : k <= n
<1>1. Len(requests) \in Nat /\ PendingSaves(d) \in SUBSET (1..Len(requests))
  BY LenProperties DEF PendingSaves
<1>2. PendingSaves(d) # {}
  BY DEF pending
<1> QED
  BY <1>1, <1>2, LastPlace

LEMMA HeldStored ==
    ASSUME NEW d \in Keys, d \notin pending
    PROVE  held[d] = diary[d]
<1>1. PendingSaves(d) = {}
  BY DEF pending
<1>2. Latest(d) = diary[d]
  BY <1>1 DEF Latest
<1> QED
  BY <1>2 DEF held

LEMMA HeldStoredNext ==
    ASSUME NEW d \in Keys, d \notin pending'
    PROVE  held'[d] = diary'[d]
<1>1. PendingSaves(d)' = {}
  BY DEF pending
<1>2. Latest(d)' = diary'[d]
  BY <1>1 DEF Latest
<1> QED
  BY <1>2 DEF held

LEMMA HeldType ==
    ASSUME TypeInv
    PROVE  /\ held \in [Keys -> Entries \cup {NoDiary}]
           /\ \A d \in pending : held[d] \in Entries
<1>1. requests \in Seq(Requests) /\ \A n \in 1..Len(requests) : requests[n] \in Requests
  BY ElementOfSeq DEF TypeInv, TypeOK
<1>2. ASSUME NEW d \in Keys PROVE held[d] \in Entries \cup {NoDiary}
  <2>1. CASE d \in pending
    BY <1>1, <2>1, LastSave, HeldFromSave DEF PendingSaves, Requests
  <2>2. CASE d \notin pending
    BY <2>2, HeldStored DEF TypeInv, TypeOK
  <2> QED
    BY <2>1, <2>2
<1>3. ASSUME NEW d \in pending PROVE held[d] # NoDiary
  <2>1. PICK n \in PendingSaves(d) : \A k \in PendingSaves(d) : k <= n
    BY <1>1, LastSave
  <2>2. d \in Keys /\ n \in 1..Len(requests) /\ IsSave(requests[n])
    BY DEF pending, PendingSaves
  <2>3. held[d] = requests[n].entry
    BY <1>1, <2>1, <2>2, HeldFromSave
  <2> QED
    BY <2>2, <2>3 DEF TypeInv, TypeOK
<1> QED
  BY <1>2, <1>3 DEF held, pending

\* What the client holds does not change when its saves stay where they are,
\* and with no save outstanding, what is stored stays.
LEMMA HeldStays ==
    ASSUME requests \in Seq(Requests), requests' \in Seq(Requests),
           NEW d \in Keys,
           PendingSaves(d)' = PendingSaves(d),
           \A n \in PendingSaves(d) : requests'[n].entry = requests[n].entry,
           d \notin pending => diary'[d] = diary[d]
    PROVE  held'[d] = held[d] /\ (d \in pending' <=> d \in pending)
<1>1. d \in pending' <=> d \in pending
  BY DEF pending
<1>2. CASE d \in pending
  <2>1. PICK n \in PendingSaves(d) : \A k \in PendingSaves(d) : k <= n
    BY <1>2, LastSave
  <2>2. held[d] = requests[n].entry
    BY <2>1, HeldFromSave
  <2>3. held'[d] = requests'[n].entry
    BY <2>1, HeldFromSaveNext
  <2> QED
    BY <1>1, <2>2, <2>3
<1>3. CASE d \notin pending
  BY <1>1, <1>3, HeldStored, HeldStoredNext
<1> QED
  BY <1>2, <1>3

-----------------------------------------------------------------------------
(* The ways of touching the requests                                       *)

LEMMA Appended ==
    ASSUME requests \in Seq(Requests), NEW r \in Requests,
           requests' = Append(requests, r)
    PROVE  /\ requests' \in Seq(Requests)
           /\ Len(requests) \in Nat
           /\ Len(requests') = Len(requests) + 1
           /\ \A n \in 1..Len(requests) : requests'[n] = requests[n]
           /\ requests'[Len(requests) + 1] = r
BY AppendProperties, LenProperties

LEMMA Replied ==
    ASSUME requests \in Seq(Requests), NEW k \in 1..Len(requests),
           NEW e \in Entries \cup {NoDiary},
           requests' = [requests EXCEPT ![k].entry = e]
    PROVE  /\ requests' \in Seq(Requests)
           /\ Len(requests') = Len(requests)
           /\ \A n \in 1..Len(requests) :
                 /\ requests'[n].kind = requests[n].kind
                 /\ requests'[n].date = requests[n].date
                 /\ n # k => requests'[n].entry = requests[n].entry
           /\ requests'[k].entry = e
<1> DEFINE r == [requests[k] EXCEPT !.entry = e]
<1>1. requests[k] \in Requests
  BY ElementOfSeq
<1>2. /\ r \in Requests
      /\ r.kind = requests[k].kind
      /\ r.date = requests[k].date
      /\ r.entry = e
  BY <1>1 DEF Requests
<1> HIDE DEF r
<1>3. requests' = [requests EXCEPT ![k] = r]
  BY DEF r
<1>4. /\ requests' \in Seq(Requests)
      /\ Len(requests') = Len(requests)
      /\ \A n \in 1..Len(requests) : requests'[n] = IF n = k THEN r ELSE requests[n]
  BY <1>2, <1>3, ExceptSeq, SMTT(30)
<1> QED
  BY <1>2, <1>4

LEMMA FirstGone ==
    ASSUME requests \in Seq(Requests), requests # <<>>, requests' = Tail(requests)
    PROVE  /\ requests' \in Seq(Requests)
           /\ Len(requests) \in Nat \ {0}
           /\ Len(requests') = Len(requests) - 1
           /\ Head(requests) = requests[1]
           /\ \A n \in 1..Len(requests') : requests'[n] = requests[n + 1]
BY EmptySeq, HeadTailProperties

\* Without one of its elements a sequence is made of elements it had.
LEMMA RemovedAt ==
    ASSUME NEW S, NEW s \in Seq(S), NEW n \in 1..Len(s)
    PROVE  /\ RemoveAt(s, n) \in Seq(S)
           /\ Len(RemoveAt(s, n)) = Len(s) - 1
           /\ \A k \in 1..(Len(s) - 1) :
                 RemoveAt(s, n)[k] = IF k < n THEN s[k] ELSE s[k + 1]
<1> DEFINE a == SubSeq(s, 1, n - 1)
           b == SubSeq(s, n + 1, Len(s))
<1>1. Len(s) \in Nat /\ \A k \in 1..Len(s) : s[k] \in S
  BY LenProperties, ElementOfSeq
<1>2. /\ a \in Seq(S)
      /\ Len(a) = n - 1
      /\ \A k \in 1..(n - 1) : a[k] = s[k]
  BY <1>1, SubSeqProperties
<1>3. /\ b \in Seq(S)
      /\ Len(b) = Len(s) - n
      /\ \A k \in 1..(Len(s) - n) : b[k] = s[n + k]
  BY <1>1, SubSeqProperties
<1> HIDE DEF a, b
<1>4. /\ a \o b \in Seq(S)
      /\ Len(a \o b) = Len(a) + Len(b)
      /\ \A k \in 1..(Len(a) + Len(b)) :
            (a \o b)[k] = IF k <= Len(a) THEN a[k] ELSE b[k - Len(a)]
  BY <1>2, <1>3, ConcatProperties, Zenon
<1> DEFINE c == a \o b
<1> HIDE DEF c
<1>5. ASSUME NEW k \in 1..(Len(s) - 1)
      PROVE  c[k] = IF k < n THEN s[k] ELSE s[k + 1]
  <2>1. n \in Int /\ k \in Int /\ k \in 1..(Len(a) + Len(b))
    BY <1>1, <1>2, <1>3
  <2>2. CASE k \in 1..(n - 1)
    <3>1. c[k] = a[k]
      BY <1>2, <1>4, <2>1, <2>2 DEF c
    <3> QED
      BY <1>2, <2>1, <2>2, <3>1
  <2>3. CASE k > n - 1
    <3>1. c[k] = b[k - (n - 1)]
      BY <1>2, <1>4, <2>1, <2>3 DEF c
    <3>2. k - (n - 1) \in 1..(Len(s) - n) /\ n + (k - (n - 1)) = k + 1 /\ ~(k < n)
      BY <1>1, <2>1, <2>3
    <3>3. b[k - (n - 1)] = s[n + (k - (n - 1))]
      BY <1>3, <3>2
    <3> QED
      BY <3>1, <3>2, <3>3
  <2> QED
    BY <1>1, <2>1, <2>2, <2>3
<1>6. RemoveAt(s, n) = c
  BY DEF RemoveAt, a, b, c
<1>7. c \in Seq(S) /\ Len(c) = Len(s) - 1
  BY <1>1, <1>2, <1>3, <1>4 DEF c
<1> QED
  BY <1>5, <1>6, <1>7

LEMMA ReadsLost ==
    ASSUME requests \in Seq(Requests), ReadsAreLost
    PROVE  /\ requests' \in Seq(Requests)
           /\ \A n \in 1..Len(requests') :
                 \E k \in 1..Len(requests) : requests'[n] = requests[k]
<1>1. SavePlaces \subseteq 1..Len(requests) /\ IsFiniteSet(SavePlaces)
  BY FS_Interval, FS_Subset DEF SavePlaces
<1> DEFINE c == Cardinality(SavePlaces)
<1>2. c \in Nat
  BY <1>1, FS_CardinalityType
<1>3. PICK p \in [1..c -> SavePlaces] : requests' = [n \in DOMAIN p |-> requests[p[n]]]
  BY DEF ReadsAreLost
<1> HIDE DEF c
<1>4. \A n \in 1..Len(requests) : requests[n] \in Requests
  BY ElementOfSeq
<1>5. requests' \in [1..c -> Requests] /\ \A n \in 1..c : requests'[n] = requests[p[n]]
  BY <1>1, <1>3, <1>4
<1>6. requests' \in Seq(Requests) /\ Len(requests') = c
  BY <1>2, <1>5
<1> QED
  BY <1>1, <1>3, <1>5, <1>6

Inv == TypeInv /\ ServedSavesAreStored /\ LastMoveWins /\ DatesAreKept

LEMMA RequestsTyped ==
    ASSUME TypeInv
    PROVE  /\ requests \in Seq(Requests)
           /\ Len(requests) \in Nat
           /\ served \in 0..Len(requests)
           /\ \A n \in 1..Len(requests) :
                 /\ requests[n] \in Requests
                 /\ requests[n].date \in Keys
                 /\ requests[n].entry \in Entries \cup {NoDiary}
                 /\ IsRead(requests[n]) <=> ~IsSave(requests[n])
                 /\ IsSave(requests[n]) => requests[n].entry \in Entries
<1>1. requests \in Seq(Requests) /\ served \in 0..Len(requests)
  BY DEF TypeInv, TypeOK
<1>2. Len(requests) \in Nat /\ \A n \in 1..Len(requests) : requests[n] \in Requests
  BY <1>1, LenProperties, ElementOfSeq
<1>3. ASSUME NEW n \in 1..Len(requests)
      PROVE  /\ requests[n].date \in Keys
             /\ requests[n].entry \in Entries \cup {NoDiary}
             /\ IsRead(requests[n]) <=> ~IsSave(requests[n])
             /\ IsSave(requests[n]) => requests[n].entry # NoDiary
  <2>1. requests[n] \in Requests
    BY <1>2
  <2> QED
    BY <2>1 DEF Requests, IsRead, IsSave, TypeInv, TypeOK
<1> QED
  BY <1>1, <1>2, <1>3

LEMMA CallbacksTyped ==
    ASSUME TypeInv
    PROVE  /\ callbacks \in Seq(Callbacks)
           /\ Len(callbacks) \in Nat
           /\ callbacks = <<>> <=> Len(callbacks) = 0
           /\ \A n \in 1..Len(callbacks) : callbacks[n] \in Callbacks
BY LenProperties, ElementOfSeq, EmptySeq DEF TypeInv, TypeOK

LEMMA ServedStay ==
    ASSUME ServedSavesAreStored, served \in Nat, served' = served, diary' = diary,
           \A n \in 1..served : requests'[n] = requests[n],
           ~failed' => ~failed
    PROVE  ServedSavesAreStored'
<1> SUFFICES ASSUME ~failed', NEW n \in 1..served, IsSave(requests'[n]),
                    \A k \in n + 1 .. served :
                       ~(IsSave(requests'[k]) /\ requests'[k].date = requests'[n].date)
             PROVE  diary[requests'[n].date] = requests'[n].entry
  BY DEF ServedSavesAreStored
<1>1. requests'[n] = requests[n]
  OBVIOUS
<1>2. \A k \in n + 1 .. served : requests'[k] = requests[k]
  OBVIOUS
<1> QED
  BY <1>1, <1>2 DEF ServedSavesAreStored

\* A read behind the other requests changes nothing the client holds.
LEMMA ReadAppended ==
    ASSUME TypeInv, NEW d \in Keys, diary' = diary,
           requests' = Append(requests, [kind |-> "read", date |-> d, entry |-> NoDiary])
    PROVE  /\ requests' \in Seq(Requests)
           /\ Len(requests') = Len(requests) + 1
           /\ \A n \in 1..Len(requests) : requests'[n] = requests[n]
           /\ requests'[Len(requests) + 1] = [kind |-> "read", date |-> d, entry |-> NoDiary]
           /\ IsRead(requests'[Len(requests) + 1])
           /\ ~IsSave(requests'[Len(requests) + 1])
           /\ pending' = pending
<1> DEFINE r == [kind |-> "read", date |-> d, entry |-> NoDiary]
<1>1. r \in Requests /\ r.kind = "read" /\ r.date = d
  BY DEF Requests
<1>2. requests' = Append(requests, r)
  OBVIOUS
<1> HIDE DEF r
<1>3. /\ requests' \in Seq(Requests)
      /\ Len(requests) \in Nat
      /\ Len(requests') = Len(requests) + 1
      /\ \A n \in 1..Len(requests) : requests'[n] = requests[n]
      /\ requests'[Len(requests) + 1] = r
  BY <1>1, <1>2, Appended DEF TypeInv, TypeOK
<1>4. IsRead(requests'[Len(requests) + 1]) /\ ~IsSave(requests'[Len(requests) + 1])
  BY <1>1, <1>3 DEF IsRead, IsSave
<1>5. ASSUME NEW x \in Keys PROVE PendingSaves(x)' = PendingSaves(x)
  BY <1>3, <1>4 DEF PendingSaves
<1>6. pending' = pending
  BY <1>5 DEF pending
<1> QED
  BY <1>3, <1>4, <1>6 DEF r

\* A save behind the other requests is what the client holds for its date.
LEMMA SaveAppended ==
    ASSUME TypeInv, NEW d \in Keys, NEW e \in Entries,
           requests' = Append(requests, [kind |-> "save", date |-> d, entry |-> e])
    PROVE  /\ requests' \in Seq(Requests)
           /\ Len(requests') = Len(requests) + 1
           /\ \A n \in 1..Len(requests) : requests'[n] = requests[n]
           /\ requests'[Len(requests) + 1] = [kind |-> "save", date |-> d, entry |-> e]
           /\ IsSave(requests'[Len(requests) + 1])
           /\ ~IsRead(requests'[Len(requests) + 1])
           /\ held'[d] = e
<1> DEFINE r == [kind |-> "save", date |-> d, entry |-> e]
<1>1. r \in Requests /\ r.kind = "save" /\ r.date = d /\ r.entry = e
  BY DEF Requests
<1>2. requests' = Append(requests, r)
  OBVIOUS
<1> HIDE DEF r
<1>3. /\ requests' \in Seq(Requests)
      /\ Len(requests) \in Nat
      /\ Len(requests') = Len(requests) + 1
      /\ \A n \in 1..Len(requests) : requests'[n] = requests[n]
      /\ requests'[Len(requests) + 1] = r
  BY <1>1, <1>2, Appended DEF TypeInv, TypeOK
<1> DEFINE l == Len(requests) + 1
<1>4. IsSave(requests'[l]) /\ ~IsRead(requests'[l]) /\ requests'[l].date = d
  BY <1>1, <1>3 DEF IsRead, IsSave
<1>5. l \in PendingSaves(d)' /\ \A k \in PendingSaves(d)' : k <= l
  BY <1>3, <1>4 DEF PendingSaves
<1>6. held'[d] = requests'[l].entry
  BY <1>3, <1>5, HeldFromSaveNext
<1> QED
  BY <1>1, <1>3, <1>4, <1>6 DEF r

-----------------------------------------------------------------------------
(* The actions                                                             *)

LEMMA EditingKeeps ==
    ASSUME Inv, TextViewDidBeginEditing \/ Type \/ TextViewDidEndEditing
    PROVE  Inv'
<1>1. /\ UNCHANGED <<date, requests, served, callbacks, diary, failed, hurried, faults>>
      /\ touched' = TRUE
      /\ about' \in {about, date}
      /\ UNCHANGED overtaken
  BY DEF TextViewDidBeginEditing, Type, TextViewDidEndEditing, clientVars, boundVars
<1>2. /\ text' \in AllTexts
      /\ textColor' \in {"black", "lightGray"}
      /\ editing' \in BOOLEAN
  BY DEF Inv, TypeInv, TypeOK, TextViewDidBeginEditing, Type, TextViewDidEndEditing,
         AllTexts
<1>3. TypeInv'
  BY <1>1, <1>2 DEF Inv, TypeInv, TypeOK
<1>4. ServedSavesAreStored'
  BY <1>1 DEF Inv, ServedSavesAreStored
<1>5. LastMoveWins'
  BY <1>1 DEF LastMoveWins
<1>6. DatesAreKept'
  BY <1>1 DEF Inv, DatesAreKept, Reading, ReadOutstanding
<1> QED
  BY <1>3, <1>4, <1>5, <1>6 DEF Inv

LEMMA SaveKeeps ==
    ASSUME Inv, SaveButtonClicked
    PROVE  Inv'
<1> DEFINE e == Entry(text, about)
           l == Len(requests) + 1
<1>1. /\ TypeInv
      /\ requests' = Append(requests, [kind |-> "save", date |-> date, entry |-> e])
      /\ UNCHANGED <<date, text, textColor, editing, about, served, callbacks,
                     diary, overtaken, failed, faults>>
      /\ touched' = (touched \/ Reading)
      /\ hurried' = (hurried \/ Reading)
  BY DEF Inv, SaveButtonClicked, screenVars
<1>2. e \in Entries /\ e.about = about /\ date \in Keys /\ e # NoDiary
  BY <1>1 DEF TypeInv, TypeOK, Entry, Entries
<1> HIDE DEF e
<1>3. /\ requests' \in Seq(Requests)
      /\ Len(requests) \in Nat
      /\ Len(requests') = l
      /\ \A n \in 1..Len(requests) : requests'[n] = requests[n]
      /\ requests'[l] = [kind |-> "save", date |-> date, entry |-> e]
      /\ IsSave(requests'[l])
      /\ ~IsRead(requests'[l])
      /\ held'[date] = e
  BY <1>1, <1>2, SaveAppended, RequestsTyped
<1>4. served \in 0..Len(requests) /\ \A n \in 1..Len(requests') : n \in 1..Len(requests) \/ n = l
  BY <1>1, <1>3, RequestsTyped
<1>5. TypeInv'
  <2>1. \A n \in 1..Len(requests') : IsSave(requests'[n]) => requests'[n].entry # NoDiary
    BY <1>1, <1>2, <1>3, <1>4 DEF TypeInv, TypeOK
  <2>2. served' \in 0..Len(requests')
    BY <1>1, <1>3, <1>4
  <2>3. Reading \in BOOLEAN
    BY DEF Reading, ReadOutstanding
  <2> QED
    BY <1>1, <1>3, <2>1, <2>2, <2>3 DEF TypeInv, TypeOK
<1>6. ServedSavesAreStored'
  BY <1>1, <1>3, <1>4, ServedStay DEF Inv
<1>7. LastMoveWins'
  <2> SUFFICES ASSUME ~Reading PROVE ~ReadOutstanding' /\ callbacks' = <<>> /\ ScreenShows'
    BY <1>1 DEF LastMoveWins
  <2>1. ~ReadOutstanding'
    BY <1>3, <1>4 DEF Reading, ReadOutstanding
  <2>2. callbacks' = <<>>
    BY <1>1 DEF Reading
  <2>3. ScreenShows'
    BY <1>1, <1>2, <1>3 DEF ScreenShows, e, Entry
  <2> QED
    BY <2>1, <2>2, <2>3
<1>8. DatesAreKept'
  <2> SUFFICES ASSUME ~hurried', faults = 0 PROVE DatesAreKept'
    BY <1>1 DEF DatesAreKept
  <2>1. ~hurried /\ ~Reading
    BY <1>1
  <2>2. about = date /\ e.about = date
    BY <1>2, <2>1 DEF Inv, DatesAreKept
  <2>3. \A n \in 1..Len(requests') :
           IsSave(requests'[n]) => requests'[n].entry.about = requests'[n].date
    BY <1>3, <1>4, <2>1, <2>2 DEF Inv, DatesAreKept
  <2>4. \A n \in 1..served' :
           IsRead(requests'[n]) /\ requests'[n].entry # NoDiary
              => requests'[n].entry.about = requests'[n].date
    BY <1>1, <1>3, <1>4, <2>1 DEF Inv, DatesAreKept
  <2>5. \A n \in 1..Len(requests') : IsRead(requests'[n]) => requests'[n].date = date'
    BY <1>1, <1>3, <1>4, <2>1 DEF Inv, DatesAreKept
  <2> QED
    BY <1>1, <2>1, <2>2, <2>3, <2>4, <2>5 DEF Inv, DatesAreKept
<1> QED
  BY <1>5, <1>6, <1>7, <1>8 DEF Inv

\* A move answered from the client's own queue.
LEMMA LocalMoveKeeps ==
    ASSUME Inv, NEW d \in Keys, MoveTo(d), PendingSaves(d) # {}
    PROVE  Inv'
<1> DEFINE c == [date |-> d, status |-> "answer", entry |-> Latest(d)]
           l == Len(callbacks) + 1
<1>1. /\ TypeInv
      /\ date' = d
      /\ callbacks' = Append(callbacks, c)
      /\ UNCHANGED <<requests, served, text, textColor, editing, about, diary, faults>>
      /\ touched' = FALSE
      /\ overtaken' = ReadOutstanding
      /\ failed' = (failed /\ \E n \in 1..Len(requests) : IsSave(requests[n]))
      /\ hurried' = (hurried \/ Reading)
  <2>1. callbacks' = Append(callbacks, c) /\ UNCHANGED <<requests, served>>
    BY DEF MoveTo, ReadDiary
  <2>2. PendingSaves(d) # {} /\ ReadOutstanding \in BOOLEAN
    BY DEF ReadOutstanding
  <2> QED
    BY <2>1, <2>2 DEF Inv, MoveTo
<1>2. d \in pending /\ Latest(d) = held[d] /\ held[d] \in Entries
  BY <1>1, HeldType DEF pending, held
<1>3. c \in Callbacks /\ c.date = d /\ c.status = "answer" /\ c.entry = held[d]
  BY <1>2 DEF Callbacks
<1> HIDE DEF c
<1>4. /\ callbacks' \in Seq(Callbacks)
      /\ Len(callbacks) \in Nat
      /\ Len(callbacks') = l
      /\ \A n \in 1..Len(callbacks) : callbacks'[n] = callbacks[n]
      /\ callbacks'[l] = c
  BY <1>1, <1>3, CallbacksTyped, AppendProperties
<1>5. Len(callbacks') # 0 /\ callbacks' # <<>>
  BY <1>4, EmptySeq
<1>6. TypeInv'
  BY <1>1, <1>4 DEF TypeInv, TypeOK, ReadOutstanding, Reading
<1>7. held' = held
  BY <1>1 DEF held, Latest, PendingSaves
<1>8. ServedSavesAreStored'
  <2>1. PICK n \in 1..Len(requests) : IsSave(requests[n])
    BY <1>2 DEF pending, PendingSaves
  <2>2. failed' = failed
    BY <1>1, <2>1 DEF TypeInv, TypeOK
  <2>3. served \in Nat
    BY <1>1, RequestsTyped
  <2> QED
    BY <1>1, <2>2, <2>3, ServedStay DEF Inv
<1>9. LastMoveWins'
  <2> SUFFICES ASSUME ~ReadOutstanding
               PROVE  /\ ~ReadOutstanding'
                      /\ LastCallback'.date = date'
                      /\ LastCallback'.status = "answer"
                      /\ LastCallback'.entry = held'[date']
    BY <1>1, <1>5 DEF LastMoveWins
  <2>1. ~ReadOutstanding'
    BY <1>1 DEF ReadOutstanding
  <2>2. LastCallback' = c
    BY <1>4 DEF LastCallback
  <2> QED
    BY <1>1, <1>3, <1>7, <2>1, <2>2
<1>10. DatesAreKept'
  <2> SUFFICES ASSUME ~hurried', faults = 0 PROVE DatesAreKept'
    BY <1>1 DEF DatesAreKept
  <2>1. ~hurried /\ ~Reading
    BY <1>1
  <2>2. callbacks = <<>> /\ Len(callbacks) = 0
    BY <2>1, EmptySeq DEF Reading
  <2>3. \A n \in 1..Len(callbacks') : callbacks'[n] = c
    BY <1>4, <2>2
  <2>4. held[d].about = d
    <3>1. PICK n \in PendingSaves(d) : \A k \in PendingSaves(d) : k <= n
      BY <1>1, <1>2, LastSave, RequestsTyped
    <3>2. held[d] = requests[n].entry
      BY <1>1, <3>1, HeldFromSave, RequestsTyped
    <3>3. n \in 1..Len(requests) /\ IsSave(requests[n]) /\ requests[n].date = d
      BY <3>1 DEF PendingSaves
    <3> QED
      BY <1>1, <2>1, <3>2, <3>3 DEF Inv, DatesAreKept
  <2>5. \A n \in 1..Len(requests) : ~IsRead(requests[n])
    BY <2>1 DEF Reading, ReadOutstanding
  <2>6. Reading'
    BY <1>5 DEF Reading
  <2> QED
    BY <1>1, <1>3, <2>1, <2>3, <2>4, <2>5, <2>6 DEF Inv, DatesAreKept
<1> QED
  BY <1>6, <1>8, <1>9, <1>10 DEF Inv

\* A move that asks the server.
LEMMA RemoteMoveKeeps ==
    ASSUME Inv, NEW d \in Keys, MoveTo(d), PendingSaves(d) = {}
    PROVE  Inv'
<1> DEFINE r == [kind |-> "read", date |-> d, entry |-> NoDiary]
           l == Len(requests) + 1
<1>1. /\ TypeInv
      /\ date' = d
      /\ requests' = Append(requests, r)
      /\ UNCHANGED <<callbacks, served, text, textColor, editing, about, diary, faults>>
      /\ touched' = FALSE
      /\ overtaken' = FALSE
      /\ failed' = (failed /\ \E n \in 1..Len(requests) : IsSave(requests[n]))
      /\ hurried' = (hurried \/ Reading)
  BY DEF Inv, MoveTo, ReadDiary
<1>2. /\ requests' \in Seq(Requests)
      /\ Len(requests') = l
      /\ \A n \in 1..Len(requests) : requests'[n] = requests[n]
      /\ requests'[l] = r
      /\ IsRead(requests'[l])
      /\ ~IsSave(requests'[l])
      /\ pending' = pending
  BY <1>1, ReadAppended
<1>3. r.date = d /\ r.entry = NoDiary
  OBVIOUS
<1> HIDE DEF r
<1>4. /\ Len(requests) \in Nat
      /\ served \in 0..Len(requests)
      /\ \A n \in 1..Len(requests') : n \in 1..Len(requests) \/ n = l
  BY <1>1, <1>2, RequestsTyped
<1>5. TypeInv'
  <2>1. \A n \in 1..Len(requests') : IsSave(requests'[n]) => requests'[n].entry # NoDiary
    BY <1>1, <1>2, <1>4 DEF TypeInv, TypeOK
  <2>2. served' \in 0..Len(requests')
    BY <1>1, <1>2, <1>4
  <2>3. Reading \in BOOLEAN
    BY DEF Reading, ReadOutstanding
  <2> QED
    BY <1>1, <1>2, <2>1, <2>2, <2>3 DEF TypeInv, TypeOK
<1>6. ServedSavesAreStored'
  <2>1. CASE ~failed' => ~failed
    BY <1>1, <1>2, <1>4, <2>1, ServedStay DEF Inv
  <2>2. CASE \A n \in 1..Len(requests) : ~IsSave(requests[n])
    BY <1>1, <1>2, <1>4, <2>2 DEF ServedSavesAreStored
  <2> QED
    BY <1>1, <2>1, <2>2
<1>7. LastMoveWins'
  <2>1. l \in 1..Len(requests') /\ LastRequest' = r /\ served' # Len(requests')
    BY <1>1, <1>2, <1>4 DEF LastRequest
  <2>2. ReadOutstanding' /\ IsRead(LastRequest')
    BY <1>2, <2>1 DEF ReadOutstanding
  <2>3. date' \notin pending'
    BY <1>1, <1>2 DEF pending
  <2> QED
    BY <1>1, <1>3, <2>1, <2>2, <2>3 DEF LastMoveWins
<1>8. DatesAreKept'
  <2> SUFFICES ASSUME ~hurried', faults = 0 PROVE DatesAreKept'
    BY <1>1 DEF DatesAreKept
  <2>1. ~hurried /\ ~Reading
    BY <1>1
  <2>2. callbacks = <<>> /\ Len(callbacks) = 0
    BY <2>1, EmptySeq DEF Reading
  <2>3. \A n \in 1..Len(requests) : ~IsRead(requests[n])
    BY <2>1 DEF Reading, ReadOutstanding
  <2>4. \A n \in 1..Len(requests') :
           IsSave(requests'[n]) => requests'[n].entry.about = requests'[n].date
    BY <1>2, <1>4, <2>1 DEF Inv, DatesAreKept
  <2>5. \A n \in 1..served' : ~IsRead(requests'[n])
    BY <1>1, <1>2, <1>4, <2>3
  <2>6. \A n \in 1..Len(requests') : IsRead(requests'[n]) => requests'[n].date = date'
    BY <1>1, <1>2, <1>3, <1>4, <2>3
  <2>7. Reading'
    BY <1>2, <1>4 DEF Reading, ReadOutstanding
  <2>8. \A n \in 1..Len(callbacks') : FALSE
    BY <1>1, <2>2
  <2> QED
    BY <1>1, <2>1, <2>8, <2>4, <2>5, <2>6, <2>7 DEF Inv, DatesAreKept
<1> QED
  BY <1>5, <1>6, <1>7, <1>8 DEF Inv

LEMMA MoveKeeps ==
    ASSUME Inv, NEW d, MoveTo(d)
    PROVE  Inv'
<1>1. d \in Keys
  BY DEF MoveTo
<1> QED
  BY <1>1, LocalMoveKeeps, RemoteMoveKeeps

\* The completion block of a read.
LEMMA ReadAnsweredKeeps ==
    ASSUME Inv, ReadAnswered
    PROVE  Inv'
<1> DEFINE c == Head(callbacks)
<1>1. /\ TypeInv
      /\ callbacks # <<>>
      /\ callbacks' = Tail(callbacks)
      /\ UNCHANGED <<date, editing, requests, served, diary, touched, overtaken,
                     failed, hurried, faults>>
  BY DEF Inv, ReadAnswered, historyVars, boundVars
<1>2. /\ c.status = "error" => UNCHANGED <<text, textColor, about>>
      /\ c.status = "answer" /\ c.entry = NoDiary => PlaceholderSetting(c)
      /\ c.status = "answer" /\ c.entry # NoDiary
           => text' = c.entry.text /\ textColor' = "black" /\ about' = c.entry.about
  BY DEF ReadAnswered
<1>3. /\ callbacks' \in Seq(Callbacks)
      /\ Len(callbacks) \in Nat \ {0}
      /\ Len(callbacks') = Len(callbacks) - 1
      /\ \A n \in 1..Len(callbacks') : callbacks'[n] = callbacks[n + 1]
      /\ c = callbacks[1]
      /\ c \in Callbacks
  BY <1>1, CallbacksTyped, HeadTailProperties, EmptySeq
<1>4. /\ c.status \in {"answer", "error"}
      /\ c.date \in Keys
      /\ c.entry \in Entries \cup {NoDiary}
  BY <1>3 DEF Callbacks
<1> HIDE DEF c
<1>5. c.status = "answer" =>
        IF c.entry = NoDiary
        THEN text' = Placeholder /\ textColor' = "lightGray" /\ about' = c.date
        ELSE /\ c.entry \in Entries
             /\ text' = c.entry.text
             /\ textColor' = "black"
             /\ about' = c.entry.about
  BY <1>2, <1>4 DEF PlaceholderSetting
<1>6. c.status = "error" => UNCHANGED <<text, textColor, about>>
  BY <1>2
<1>7. TypeInv'
  <2>1. text' \in AllTexts /\ about' \in Keys /\ textColor' \in {"black", "lightGray"}
    <3>1. CASE c.status = "answer" /\ c.entry = NoDiary
      BY <1>4, <1>5, <3>1 DEF AllTexts
    <3>2. CASE c.status = "answer" /\ c.entry # NoDiary
      BY <1>5, <3>2 DEF Entries
    <3>3. CASE c.status = "error"
      BY <1>1, <1>6, <3>3 DEF TypeInv, TypeOK
    <3> QED
      BY <1>4, <3>1, <3>2, <3>3
  <2> QED
    BY <1>1, <1>3, <2>1 DEF TypeInv, TypeOK
<1>8. ServedSavesAreStored'
  BY <1>1 DEF Inv, ServedSavesAreStored
<1>9. held' = held /\ pending' = pending /\ ReadOutstanding' = ReadOutstanding
  BY <1>1 DEF held, Latest, pending, PendingSaves, ReadOutstanding
<1>10. LastMoveWins'
  <2> SUFFICES ASSUME ~touched, ~overtaken, ~failed, ~ReadOutstanding
               PROVE  IF callbacks' # <<>>
                      THEN /\ LastCallback'.date = date
                           /\ LastCallback'.status = "answer"
                           /\ LastCallback'.entry = held[date]
                      ELSE ScreenShows'
    BY <1>1, <1>9 DEF Inv, LastMoveWins, LastRequest
  <2>1. /\ LastCallback.date = date
        /\ LastCallback.status = "answer"
        /\ LastCallback.entry = held[date]
    BY <1>1 DEF Inv, LastMoveWins
  <2>2. CASE callbacks' # <<>>
    <3>1. Len(callbacks') \in Nat /\ Len(callbacks') # 0
      BY <1>3, <2>2, EmptySeq
    <3>2. Len(callbacks') \in 1..Len(callbacks') /\ Len(callbacks') + 1 = Len(callbacks)
      BY <1>3, <3>1
    <3>3. LastCallback' = LastCallback
      BY <1>3, <3>2 DEF LastCallback
    <3> QED
      BY <2>1, <2>2, <3>3
  <2>3. CASE callbacks' = <<>>
    <3>1. Len(callbacks) = 1
      BY <1>3, <2>3, EmptySeq
    <3>2. LastCallback = c
      BY <1>3, <3>1 DEF LastCallback
    <3>3. c.date = date /\ c.status = "answer" /\ c.entry = held[date]
      BY <2>1, <3>2
    <3>4. CASE c.entry = NoDiary
      BY <1>1, <1>5, <1>9, <2>3, <3>3, <3>4 DEF ScreenShows
    <3>5. CASE c.entry # NoDiary
      <4>1. Entry(text', about') = c.entry
        BY <1>5, <3>3, <3>5 DEF Entry, Entries
      <4> QED
        BY <1>1, <1>9, <2>3, <3>3, <3>5, <4>1 DEF ScreenShows, Entry
    <3> QED
      BY <2>3, <3>4, <3>5
  <2> QED
    BY <2>2, <2>3
<1>11. DatesAreKept'
  <2> SUFFICES ASSUME ~hurried, faults = 0 PROVE DatesAreKept'
    BY <1>1 DEF DatesAreKept
  <2>1. \A n \in 1..Len(callbacks) :
           /\ callbacks[n].date = date
           /\ callbacks[n].status = "answer"
           /\ callbacks[n].entry # NoDiary => callbacks[n].entry.about = date
    BY DEF Inv, DatesAreKept
  <2>2. c.date = date /\ c.status = "answer" /\ (c.entry # NoDiary => c.entry.about = date)
    BY <1>3, <2>1
  <2>3. about' = date
    BY <1>5, <2>2
  <2>4. \A n \in 1..Len(callbacks') :
           /\ callbacks'[n].date = date
           /\ callbacks'[n].status = "answer"
           /\ callbacks'[n].entry # NoDiary => callbacks'[n].entry.about = date
    BY <1>3, <2>1
  <2> QED
    BY <1>1, <2>3, <2>4 DEF Inv, DatesAreKept
<1> QED
  BY <1>7, <1>8, <1>10, <1>11 DEF Inv

-----------------------------------------------------------------------------
(* The client and the server                                               *)

\* The server stores the entry of the next request.
SaveIsStored ==
    /\ ServerServes
    /\ IsSave(NextRequest)

LEMMA StoredKeeps ==
    ASSUME Inv, SaveIsStored
    PROVE  Inv'
<1> DEFINE k == served + 1
           d == requests[k].date
           e == requests[k].entry
<1>1. /\ TypeInv
      /\ k <= Len(requests)
      /\ served' = k
      /\ diary' = [diary EXCEPT ![d] = e]
      /\ IsSave(requests[k])
      /\ UNCHANGED <<requests, date, text, textColor, editing, about, callbacks,
                     touched, overtaken, failed, hurried, faults>>
  BY DEF Inv, SaveIsStored, ServerServes, NextRequest, screenVars, historyVars,
         boundVars, TypeInv, TypeOK
<1>2. /\ requests \in Seq(Requests)
      /\ Len(requests) \in Nat
      /\ served \in Nat
      /\ k \in 1..Len(requests)
      /\ d \in Keys
      /\ e \in Entries
  BY <1>1, RequestsTyped
<1>3. ~IsRead(requests[k])
  BY <1>1, <1>2, RequestsTyped
<1> HIDE DEF d, e
<1>4. /\ diary' \in [Keys -> Entries \cup {NoDiary}]
      /\ diary'[d] = e
      /\ \A x \in Keys : x # d => diary'[x] = diary[x]
  BY <1>1, <1>2 DEF TypeInv, TypeOK
<1>5. TypeInv'
  BY <1>1, <1>2, <1>4 DEF TypeInv, TypeOK
<1>6. ServedSavesAreStored'
  <2> SUFFICES ASSUME ~failed, NEW n \in 1..k, IsSave(requests[n]),
                      \A j \in n + 1 .. k :
                         ~(IsSave(requests[j]) /\ requests[j].date = requests[n].date)
               PROVE  diary'[requests[n].date] = requests[n].entry
    BY <1>1 DEF ServedSavesAreStored
  <2>1. CASE n = k
    BY <1>4, <2>1 DEF d, e
  <2>2. CASE n # k
    <3>1. n \in 1..served /\ k \in n + 1 .. k /\ \A j \in n + 1 .. served : j \in n + 1 .. k
      BY <1>2, <2>2
    <3>2. requests[n].date # d
      BY <1>1, <3>1 DEF d
    <3>3. diary[requests[n].date] = requests[n].entry
      BY <3>1 DEF Inv, ServedSavesAreStored
    <3>4. requests[n].date \in Keys
      BY <1>1, <1>2, <3>1, RequestsTyped
    <3> QED
      BY <1>4, <3>2, <3>3, <3>4
  <2> QED
    BY <2>1, <2>2
<1>7. d \in pending
  BY <1>1, <1>2 DEF pending, PendingSaves, d
<1>8. \A x \in Keys : held'[x] = held[x] /\ (x \in pending' <=> x \in pending)
  <2> SUFFICES ASSUME NEW x \in Keys
               PROVE  held'[x] = held[x] /\ (x \in pending' <=> x \in pending)
    OBVIOUS
  <2>1. PendingSaves(x)' = PendingSaves(x)
    BY <1>1 DEF PendingSaves
  <2>2. \A n \in PendingSaves(x) : requests'[n].entry = requests[n].entry
    BY <1>1
  <2>3. x \notin pending => diary'[x] = diary[x]
    BY <1>4, <1>7
  <2>4. requests' \in Seq(Requests)
    BY <1>1, <1>2
  <2> QED
    BY <1>2, <2>1, <2>2, <2>3, <2>4, HeldStays
<1>9. LastMoveWins'
  <2> SUFFICES ASSUME ~touched, ~overtaken, ~failed
               PROVE  LastMoveWins'
    BY <1>1 DEF LastMoveWins
  <2>1. date \in Keys /\ ReadOutstanding' = ReadOutstanding
    BY <1>1 DEF TypeInv, TypeOK, ReadOutstanding
  <2>2. CASE ReadOutstanding
    <3>1. IsRead(LastRequest) /\ LastRequest.date = date /\ date \notin pending
      BY <2>2 DEF Inv, LastMoveWins
    <3>2. k # Len(requests)
      BY <1>3, <3>1 DEF LastRequest
    <3> QED
      BY <1>1, <1>8, <2>1, <2>2, <3>1, <3>2 DEF LastMoveWins, LastRequest
  <2>3. CASE ~ReadOutstanding
    BY <1>1, <1>8, <2>1, <2>3 DEF Inv, LastMoveWins, LastCallback, ScreenShows
  <2> QED
    BY <2>2, <2>3
<1>10. DatesAreKept'
  <2> SUFFICES ASSUME ~hurried, faults = 0 PROVE DatesAreKept'
    BY <1>1 DEF DatesAreKept
  <2>1. e.about = d
    BY <1>1, <1>2 DEF Inv, DatesAreKept, d, e
  <2>2. \A x \in Keys : diary'[x] # NoDiary => diary'[x].about = x
    BY <1>4, <2>1 DEF Inv, DatesAreKept
  <2>3. \A n \in 1..k : IsRead(requests[n]) => n \in 1..served
    BY <1>2, <1>3
  <2>4. \A n \in 1..k : IsRead(requests[n]) /\ requests[n].entry # NoDiary
                           => requests[n].entry.about = requests[n].date
    BY <2>3 DEF Inv, DatesAreKept
  <2>5. Reading' = Reading
    BY <1>1 DEF Reading, ReadOutstanding
  <2> QED
    BY <1>1, <2>2, <2>4, <2>5 DEF Inv, DatesAreKept
<1> QED
  BY <1>5, <1>6, <1>9, <1>10 DEF Inv

\* The server answers the next request with what is stored.
ReadIsServed ==
    /\ ServerServes
    /\ ~IsSave(NextRequest)

LEMMA ServedReadKeeps ==
    ASSUME Inv, ReadIsServed
    PROVE  Inv'
<1> DEFINE k == served + 1
           d == requests[k].date
           e == diary[d]
<1>1. /\ TypeInv
      /\ k <= Len(requests)
      /\ served' = k
      /\ requests' = [requests EXCEPT ![k].entry = e]
      /\ ~IsSave(requests[k])
      /\ UNCHANGED <<diary, date, text, textColor, editing, about, callbacks,
                     touched, overtaken, failed, hurried, faults>>
  BY DEF Inv, ReadIsServed, ServerServes, NextRequest, screenVars, historyVars,
         boundVars, TypeInv, TypeOK
<1>2. /\ requests \in Seq(Requests)
      /\ Len(requests) \in Nat
      /\ served \in Nat
      /\ k \in 1..Len(requests)
      /\ d \in Keys
  BY <1>1, RequestsTyped
<1>3. IsRead(requests[k])
  BY <1>1, <1>2, RequestsTyped
<1>4. e \in Entries \cup {NoDiary}
  BY <1>1, <1>2 DEF TypeInv, TypeOK
<1> HIDE DEF d, e
<1>5. /\ requests' \in Seq(Requests)
      /\ Len(requests') = Len(requests)
      /\ \A n \in 1..Len(requests) :
            /\ requests'[n].kind = requests[n].kind
            /\ requests'[n].date = requests[n].date
            /\ n # k => requests'[n].entry = requests[n].entry
      /\ requests'[k].entry = e
  BY <1>1, <1>2, <1>4, Replied
<1>6. \A n \in 1..Len(requests) :
         /\ IsRead(requests'[n]) <=> IsRead(requests[n])
         /\ IsSave(requests'[n]) <=> IsSave(requests[n])
         /\ IsSave(requests[n]) => requests'[n].entry = requests[n].entry
  BY <1>1, <1>5 DEF IsRead, IsSave
<1>7. TypeInv'
  <2>1. \A n \in 1..Len(requests') : IsSave(requests'[n]) => requests'[n].entry # NoDiary
    BY <1>1, <1>5, <1>6 DEF TypeInv, TypeOK
  <2>2. served' \in 0..Len(requests')
    BY <1>1, <1>2, <1>5
  <2> QED
    BY <1>1, <1>5, <2>1, <2>2 DEF TypeInv, TypeOK
<1>8. ServedSavesAreStored'
  <2> SUFFICES ASSUME ~failed, NEW n \in 1..k, IsSave(requests'[n]),
                      \A j \in n + 1 .. k :
                         ~(IsSave(requests'[j]) /\ requests'[j].date = requests'[n].date)
               PROVE  diary[requests'[n].date] = requests'[n].entry
    BY <1>1 DEF ServedSavesAreStored
  <2>1. n \in 1..Len(requests) /\ n # k /\ n \in 1..served
    BY <1>1, <1>2, <1>6, SMTT(30)
  <2>2. \A j \in n + 1 .. served : j \in n + 1 .. k /\ j \in 1..Len(requests)
    BY <1>2
  <2>3. \A j \in n + 1 .. served :
           ~(IsSave(requests[j]) /\ requests[j].date = requests[n].date)
    BY <1>5, <1>6, <2>1, <2>2
  <2>4. diary[requests[n].date] = requests[n].entry
    BY <1>6, <2>1, <2>3 DEF Inv, ServedSavesAreStored
  <2> QED
    BY <1>5, <2>1, <2>4
<1>9. \A x \in Keys : held'[x] = held[x] /\ (x \in pending' <=> x \in pending)
  <2> SUFFICES ASSUME NEW x \in Keys
               PROVE  held'[x] = held[x] /\ (x \in pending' <=> x \in pending)
    OBVIOUS
  <2>1. PendingSaves(x)' = PendingSaves(x)
    BY <1>5, <1>6 DEF PendingSaves
  <2>2. \A n \in PendingSaves(x) : requests'[n].entry = requests[n].entry
    BY <1>6 DEF PendingSaves
  <2> QED
    BY <1>1, <1>2, <1>5, <2>1, <2>2, HeldStays
<1>10. ReadOutstanding' = ReadOutstanding
  BY <1>5, <1>6 DEF ReadOutstanding
<1>11. LastMoveWins'
  <2> SUFFICES ASSUME ~touched, ~overtaken, ~failed
               PROVE  LastMoveWins'
    BY <1>1 DEF LastMoveWins
  <2>1. date \in Keys
    BY <1>1 DEF TypeInv, TypeOK
  <2>2. CASE ReadOutstanding
    <3>1. IsRead(LastRequest) /\ LastRequest.date = date /\ date \notin pending
      BY <2>2 DEF Inv, LastMoveWins
    <3>2. Len(requests) \in 1..Len(requests)
      BY <1>2
    <3>3. IsRead(LastRequest') /\ LastRequest'.date = date
      BY <1>5, <1>6, <3>1, <3>2 DEF LastRequest
    <3>4. k = Len(requests) => LastRequest'.entry = diary[date]
      BY <1>5, <3>1 DEF LastRequest, d, e
    <3> QED
      BY <1>1, <1>5, <1>9, <1>10, <2>1, <2>2, <3>1, <3>3, <3>4 DEF LastMoveWins
  <2>3. CASE ~ReadOutstanding
    BY <1>1, <1>9, <1>10, <2>1, <2>3 DEF Inv, LastMoveWins, LastCallback, ScreenShows
  <2> QED
    BY <2>2, <2>3
<1>12. DatesAreKept'
  <2> SUFFICES ASSUME ~hurried, faults = 0 PROVE DatesAreKept'
    BY <1>1 DEF DatesAreKept
  <2>1. e # NoDiary => e.about = d
    BY <1>2 DEF Inv, DatesAreKept, e
  <2>2. \A n \in 1..Len(requests') :
           IsSave(requests'[n]) => requests'[n].entry.about = requests'[n].date
    BY <1>5, <1>6 DEF Inv, DatesAreKept
  <2>3. \A n \in 1..k : IsRead(requests'[n]) /\ requests'[n].entry # NoDiary
                           => requests'[n].entry.about = requests'[n].date
    <3> SUFFICES ASSUME NEW n \in 1..k, IsRead(requests'[n]), requests'[n].entry # NoDiary
                 PROVE  requests'[n].entry.about = requests'[n].date
      OBVIOUS
    <3>1. CASE n = k
      BY <1>2, <1>5, <2>1, <3>1 DEF d
    <3>2. CASE n # k
      <4>1. n \in 1..served /\ n \in 1..Len(requests)
        BY <1>2, <3>2
      <4> QED
        BY <1>5, <1>6, <3>2, <4>1 DEF Inv, DatesAreKept
    <3> QED
      BY <3>1, <3>2
  <2>4. \A n \in 1..Len(requests') : IsRead(requests'[n]) => requests'[n].date = date
    BY <1>5, <1>6 DEF Inv, DatesAreKept
  <2>5. Reading' = Reading
    BY <1>1, <1>10 DEF Reading
  <2> QED
    BY <1>1, <2>2, <2>3, <2>4, <2>5 DEF Inv, DatesAreKept
<1> QED
  BY <1>7, <1>8, <1>11, <1>12 DEF Inv

LEMMA ServesKeeps ==
    ASSUME Inv, ServerServes
    PROVE  Inv'
BY StoredKeeps, ServedReadKeeps DEF SaveIsStored, ReadIsServed

\* With the answer of the oldest request, what the client holds stays the same:
\* the entry of an acknowledged save is the one stored.
LEMMA AnswerKeepsHeld ==
    ASSUME Inv, ResponseArrives, ~failed, NEW d \in Keys
    PROVE  held'[d] = held[d] /\ (d \in pending' => d \in pending)
<1>1. /\ requests \in Seq(Requests)
      /\ served \in 1..Len(requests)
      /\ Len(requests) \in Nat
      /\ requests' = Tail(requests)
      /\ diary' = diary
  BY RequestsTyped DEF Inv, ResponseArrives
<1>2. requests # <<>>
  BY <1>1, EmptySeq
<1>3. /\ requests' \in Seq(Requests)
      /\ Len(requests') = Len(requests) - 1
      /\ \A n \in 1..Len(requests') : requests'[n] = requests[n + 1]
  BY <1>1, <1>2, FirstGone
<1>4. \A n \in PendingSaves(d)' : n + 1 \in PendingSaves(d)
  BY <1>1, <1>3 DEF PendingSaves
<1>5. \A n \in PendingSaves(d) : n # 1 => n - 1 \in PendingSaves(d)'
  <2> SUFFICES ASSUME NEW n \in PendingSaves(d), n # 1
               PROVE  n - 1 \in PendingSaves(d)'
    OBVIOUS
  <2>1. n \in 1..Len(requests) /\ IsSave(requests[n]) /\ requests[n].date = d
    BY DEF PendingSaves
  <2>2. n - 1 \in 1..Len(requests') /\ (n - 1) + 1 = n
    BY <1>1, <1>3, <2>1
  <2>3. requests'[n - 1] = requests[n]
    BY <1>3, <2>2
  <2> QED
    BY <2>1, <2>2, <2>3 DEF PendingSaves
<1>6. d \in pending' => d \in pending
  BY <1>4 DEF pending
<1>7. CASE d \notin pending
  <2>1. d \notin pending'
    BY <1>6, <1>7
  <2> QED
    BY <1>1, <1>7, <2>1, HeldStored, HeldStoredNext
<1>8. CASE d \in pending
  <2>1. PICK n \in PendingSaves(d) : \A k \in PendingSaves(d) : k <= n
    BY <1>1, <1>8, LastSave
  <2>2. held[d] = requests[n].entry
    BY <1>1, <2>1, HeldFromSave
  <2>3. n \in 1..Len(requests) /\ IsSave(requests[n]) /\ requests[n].date = d
    BY DEF PendingSaves
  <2>4. CASE n = 1
    <3>1. \A k \in 2..served : ~(IsSave(requests[k]) /\ requests[k].date = requests[1].date)
      <4> SUFFICES ASSUME NEW k \in 2..served, IsSave(requests[k]),
                          requests[k].date = requests[1].date
                   PROVE  FALSE
        OBVIOUS
      <4>1. k \in PendingSaves(d)
        BY <1>1, <2>3, <2>4 DEF PendingSaves
      <4>2. k <= 1
        BY <2>1, <2>4, <4>1
      <4> QED
        BY <1>1, <4>2
    <3>2. 1 \in 1..served /\ 1 + 1 = 2
      BY <1>1
    <3>3. diary[d] = requests[1].entry
      BY <2>3, <2>4, <3>1, <3>2 DEF Inv, ServedSavesAreStored
    <3>4. d \notin pending'
      <4> SUFFICES ASSUME NEW k \in PendingSaves(d)' PROVE FALSE
        BY DEF pending
      <4>1. k \in 1..Len(requests') /\ k + 1 \in PendingSaves(d)
        BY <1>4 DEF PendingSaves
      <4>2. k + 1 <= 1
        BY <2>1, <2>4, <4>1
      <4> QED
        BY <1>1, <1>3, <4>1, <4>2
    <3> QED
      BY <1>1, <1>8, <2>2, <2>4, <3>3, <3>4, HeldStoredNext
  <2>5. CASE n # 1
    <3>1. n - 1 \in PendingSaves(d)'
      BY <1>5, <2>5
    <3>2. \A k \in PendingSaves(d)' : k <= n - 1
      <4> SUFFICES ASSUME NEW k \in PendingSaves(d)' PROVE k <= n - 1
        OBVIOUS
      <4>1. k \in Int
        BY <1>3 DEF PendingSaves
      <4>2. k + 1 <= n
        BY <1>4, <2>1
      <4> QED
        BY <2>3, <4>1, <4>2
    <3>3. held'[d] = requests'[n - 1].entry
      BY <1>3, <3>1, <3>2, HeldFromSaveNext
    <3>4. n - 1 \in 1..Len(requests') /\ (n - 1) + 1 = n
      BY <1>1, <1>3, <2>3, <2>5
    <3>5. requests'[n - 1] = requests[n]
      BY <1>3, <3>4
    <3> QED
      BY <1>8, <2>2, <3>3, <3>5
  <2> QED
    BY <2>4, <2>5
<1> QED
  BY <1>7, <1>8

LEMMA AnswerArrives ==
    ASSUME Inv, ResponseArrives
    PROVE  Inv'
<1> DEFINE r == Head(requests)
           c == [date |-> r.date, status |-> "answer", entry |-> r.entry]
           l == Len(callbacks) + 1
<1>1. /\ TypeInv
      /\ served > 0
      /\ served' = served - 1
      /\ requests' = Tail(requests)
      /\ callbacks' = IF IsRead(r) THEN Append(callbacks, c) ELSE callbacks
      /\ UNCHANGED <<diary, date, text, textColor, editing, about, touched,
                     overtaken, failed, hurried, faults>>
  BY DEF Inv, ResponseArrives, screenVars, historyVars, boundVars
<1>2. /\ requests \in Seq(Requests)
      /\ Len(requests) \in Nat
      /\ served \in 1..Len(requests)
      /\ \A n \in 1..Len(requests) :
            /\ requests[n].date \in Keys
            /\ requests[n].entry \in Entries \cup {NoDiary}
            /\ IsRead(requests[n]) <=> ~IsSave(requests[n])
  BY <1>1, RequestsTyped
<1>3. /\ requests' \in Seq(Requests)
      /\ Len(requests') = Len(requests) - 1
      /\ \A n \in 1..Len(requests') : requests'[n] = requests[n + 1]
      /\ r = requests[1]
      /\ 1 \in 1..Len(requests)
  <2>1. requests # <<>>
    BY <1>2, EmptySeq
  <2> QED
    BY <1>1, <1>2, <2>1, FirstGone
<1>4. c \in Callbacks /\ c.date = r.date /\ c.status = "answer" /\ c.entry = r.entry
  BY <1>2, <1>3 DEF Callbacks
<1> HIDE DEF c, r
<1>5. /\ callbacks \in Seq(Callbacks)
      /\ Len(callbacks) \in Nat
      /\ callbacks = <<>> <=> Len(callbacks) = 0
  BY <1>1, CallbacksTyped
<1>6. ASSUME IsRead(r)
      PROVE  /\ callbacks' \in Seq(Callbacks)
             /\ Len(callbacks') = l
             /\ \A n \in 1..Len(callbacks) : callbacks'[n] = callbacks[n]
             /\ callbacks'[l] = c
             /\ callbacks' # <<>>
  <2>1. callbacks' = Append(callbacks, c)
    BY <1>1, <1>6
  <2>2. /\ callbacks' \in Seq(Callbacks)
        /\ Len(callbacks') = l
        /\ \A n \in 1..Len(callbacks) : callbacks'[n] = callbacks[n]
        /\ callbacks'[l] = c
    BY <1>4, <1>5, <2>1, AppendProperties
  <2> QED
    BY <1>5, <2>2, EmptySeq
<1>7. TypeInv'
  <2>1. \A n \in 1..Len(requests') : IsSave(requests'[n]) => requests'[n].entry # NoDiary
    <3> SUFFICES ASSUME NEW n \in 1..Len(requests'), IsSave(requests'[n])
                 PROVE  requests'[n].entry # NoDiary
      OBVIOUS
    <3>1. n + 1 \in 1..Len(requests) /\ requests'[n] = requests[n + 1]
      BY <1>2, <1>3
    <3> QED
      BY <1>1, <3>1 DEF TypeInv, TypeOK
  <2>2. served' \in 0..Len(requests')
    BY <1>1, <1>2, <1>3
  <2>3. callbacks' \in Seq(Callbacks)
    BY <1>1, <1>5, <1>6
  <2> QED
    BY <1>1, <1>3, <2>1, <2>2, <2>3 DEF TypeInv, TypeOK
<1>8. ServedSavesAreStored'
  <2> SUFFICES ASSUME ~failed, NEW n \in 1..served', IsSave(requests'[n]),
                      \A j \in n + 1 .. served' :
                         ~(IsSave(requests'[j]) /\ requests'[j].date = requests'[n].date)
               PROVE  diary[requests'[n].date] = requests'[n].entry
    BY <1>1 DEF ServedSavesAreStored
  <2>1. n + 1 \in 1..served /\ n \in 1..Len(requests') /\ requests'[n] = requests[n + 1]
    BY <1>1, <1>2, <1>3
  <2>2. ASSUME NEW j \in (n + 1) + 1 .. served
        PROVE  ~(IsSave(requests[j]) /\ requests[j].date = requests[n + 1].date)
    <3>1. j - 1 \in n + 1 .. served' /\ j - 1 \in 1..Len(requests') /\ (j - 1) + 1 = j
      BY <1>1, <1>2, <1>3, <2>1
    <3>2. requests'[j - 1] = requests[j]
      BY <1>3, <3>1
    <3> QED
      BY <2>1, <3>1, <3>2
  <2> QED
    BY <2>1, <2>2 DEF Inv, ServedSavesAreStored
<1>9. ASSUME ~IsRead(r) PROVE ReadOutstanding' = ReadOutstanding /\ callbacks' = callbacks
  <2>1. ASSUME NEW n \in 1..Len(requests'), IsRead(requests'[n]) PROVE ReadOutstanding
    <3>1. n + 1 \in 1..Len(requests) /\ requests'[n] = requests[n + 1]
      BY <1>2, <1>3
    <3> QED
      BY <2>1, <3>1 DEF ReadOutstanding
  <2>2. ASSUME NEW n \in 1..Len(requests), IsRead(requests[n]) PROVE ReadOutstanding'
    <3>1. n # 1
      BY <1>3, <1>9, <2>2
    <3>2. n - 1 \in 1..Len(requests') /\ (n - 1) + 1 = n
      BY <1>2, <1>3, <3>1
    <3>3. requests'[n - 1] = requests[n]
      BY <1>3, <3>2
    <3> QED
      BY <2>2, <3>2, <3>3 DEF ReadOutstanding
  <2> QED
    BY <1>1, <1>9, <2>1, <2>2 DEF ReadOutstanding
<1>10. ASSUME Len(requests) # 1
       PROVE  /\ LastRequest' = LastRequest
              /\ Len(requests') \in 1..Len(requests')
  <2>1. Len(requests') \in 1..Len(requests') /\ Len(requests') + 1 = Len(requests)
    BY <1>2, <1>3, <1>10
  <2> QED
    BY <1>3, <2>1 DEF LastRequest
<1>11. served' = Len(requests') => served = Len(requests)
  <2>1. served \in Int /\ Len(requests) \in Int
    BY <1>2
  <2>2. served' = served - 1
    BY <1>1
  <2>3. Len(requests') = Len(requests) - 1
    BY <1>3
  <2> QED
    BY <2>1, <2>2, <2>3
<1>12. LastMoveWins'
  <2> SUFFICES ASSUME ~touched, ~overtaken, ~failed
               PROVE  LastMoveWins'
    BY <1>1 DEF LastMoveWins
  <2>1. \A x \in Keys : held'[x] = held[x] /\ (x \in pending' => x \in pending)
    BY AnswerKeepsHeld
  <2>2. date \in Keys
    BY <1>1 DEF TypeInv, TypeOK
  <2>3. CASE IsRead(r)
    <3>1. ReadOutstanding
      BY <1>3, <2>3 DEF ReadOutstanding
    <3>2. /\ IsRead(LastRequest)
          /\ LastRequest.date = date
          /\ date \notin pending
          /\ served = Len(requests) => LastRequest.entry = diary[date]
      BY <3>1 DEF Inv, LastMoveWins
    <3>3. CASE Len(requests) = 1
      <4>1. LastRequest = r /\ served = Len(requests)
        BY <1>2, <1>3, <3>3 DEF LastRequest
      <4>2. ~ReadOutstanding'
        BY <1>3, <3>3 DEF ReadOutstanding
      <4>3. date \notin pending'
        BY <2>1, <2>2, <3>2
      <4>4. held'[date] = diary[date]
        BY <1>1, <2>2, <4>3, HeldStoredNext
      <4>5. LastCallback' = c
        BY <1>6, <2>3 DEF LastCallback
      <4> QED
        BY <1>1, <1>4, <1>6, <2>3, <3>2, <4>1, <4>2, <4>4, <4>5 DEF LastMoveWins
    <3>4. CASE Len(requests) # 1
      <4>1. LastRequest' = LastRequest /\ Len(requests') \in 1..Len(requests')
        BY <1>10, <3>4
      <4>2. ReadOutstanding'
        BY <3>2, <4>1 DEF ReadOutstanding, LastRequest
      <4>3. date' \notin pending'
        BY <1>1, <2>1, <2>2, <3>2
      <4> QED
        BY <1>1, <1>11, <3>2, <4>1, <4>2, <4>3 DEF LastMoveWins
    <3> QED
      BY <3>3, <3>4
  <2>4. CASE ~IsRead(r)
    <3>1. ReadOutstanding' = ReadOutstanding /\ callbacks' = callbacks
      BY <1>9, <2>4
    <3>2. CASE ReadOutstanding
      <4>1. /\ IsRead(LastRequest)
            /\ LastRequest.date = date
            /\ date \notin pending
            /\ served = Len(requests) => LastRequest.entry = diary[date]
        BY <3>2 DEF Inv, LastMoveWins
      <4>2. Len(requests) # 1
        BY <1>3, <2>4, <4>1 DEF LastRequest
      <4>3. LastRequest' = LastRequest
        BY <1>10, <4>2
      <4>4. date' \notin pending'
        BY <1>1, <2>1, <2>2, <4>1
      <4> QED
        BY <1>1, <1>11, <3>1, <3>2, <4>1, <4>3, <4>4 DEF LastMoveWins
    <3>3. CASE ~ReadOutstanding
      BY <1>1, <2>1, <2>2, <3>1, <3>3 DEF Inv, LastMoveWins, LastCallback, ScreenShows
    <3> QED
      BY <3>2, <3>3
  <2> QED
    BY <2>3, <2>4
<1>13. DatesAreKept'
  <2> SUFFICES ASSUME ~hurried, faults = 0 PROVE DatesAreKept'
    BY <1>1 DEF DatesAreKept
  <2>1. /\ \A d \in Keys : diary[d] # NoDiary => diary[d].about = d
        /\ \A n \in 1..Len(requests) :
              /\ IsSave(requests[n]) => requests[n].entry.about = requests[n].date
              /\ IsRead(requests[n]) => requests[n].date = date
        /\ \A n \in 1..served :
              IsRead(requests[n]) /\ requests[n].entry # NoDiary
                 => requests[n].entry.about = requests[n].date
        /\ \A n \in 1..Len(callbacks) :
              /\ callbacks[n].date = date
              /\ callbacks[n].status = "answer"
              /\ callbacks[n].entry # NoDiary => callbacks[n].entry.about = date
        /\ ~Reading => about = date
    BY DEF Inv, DatesAreKept
  <2>2. \A n \in 1..Len(requests') :
           n + 1 \in 1..Len(requests) /\ requests'[n] = requests[n + 1]
    BY <1>2, <1>3
  <2>3. \A n \in 1..Len(requests') :
           /\ IsSave(requests'[n]) => requests'[n].entry.about = requests'[n].date
           /\ IsRead(requests'[n]) => requests'[n].date = date
    BY <2>1, <2>2
  <2>4. ASSUME NEW n \in 1..served', IsRead(requests'[n]), requests'[n].entry # NoDiary
        PROVE  requests'[n].entry.about = requests'[n].date
    <3>1. n + 1 \in 1..served /\ n \in 1..Len(requests')
      BY <1>1, <1>2, <1>3
    <3>2. requests'[n] = requests[n + 1]
      BY <2>2, <3>1
    <3> QED
      BY <2>1, <2>4, <3>1, <3>2
  <2>5. ASSUME NEW n \in 1..Len(callbacks')
        PROVE  /\ callbacks'[n].date = date
               /\ callbacks'[n].status = "answer"
               /\ callbacks'[n].entry # NoDiary => callbacks'[n].entry.about = date
    <3>1. CASE ~IsRead(r)
      BY <1>1, <2>1, <3>1
    <3>2. CASE IsRead(r)
      <4>1. r.date = date /\ 1 \in 1..served
        BY <1>2, <1>3, <2>1, <3>2
      <4>2. c.entry # NoDiary => c.entry.about = date
        BY <1>3, <1>4, <2>1, <3>2, <4>1
      <4>3. n \in 1..Len(callbacks) \/ n = l
        BY <1>5, <1>6, <3>2
      <4> QED
        BY <1>4, <1>6, <2>1, <3>2, <4>1, <4>2, <4>3
    <3> QED
      BY <3>1, <3>2
  <2>6. ~Reading' => ~Reading
    <3>1. CASE IsRead(r)
      BY <1>6, <3>1 DEF Reading
    <3>2. CASE ~IsRead(r)
      BY <1>9, <3>2 DEF Reading
    <3> QED
      BY <3>1, <3>2
  <2> QED
    BY <1>1, <2>1, <2>3, <2>4, <2>5, <2>6 DEF DatesAreKept
<1> QED
  BY <1>7, <1>8, <1>12, <1>13 DEF Inv

\* After a fault nothing is promised but the types.
LEMMA FaultKeeps ==
    ASSUME Inv, Fault, TypeOK'
    PROVE  Inv'
<1>1. failed' = TRUE /\ faults' \in Nat /\ faults' # 0
  BY DEF Inv, TypeInv, Fault
<1> QED
  BY <1>1 DEF Inv, TypeInv, ServedSavesAreStored, LastMoveWins, DatesAreKept

LEMMA RefusedSaveKeeps ==
    ASSUME Inv, SaveIsRefused
    PROVE  Inv'
<1>1. Len(requests) \in Nat /\ served \in Nat
  BY RequestsTyped DEF Inv
<1>2. TypeOK'
  BY <1>1 DEF Inv, TypeInv, TypeOK, SaveIsRefused, Fault, screenVars
<1> QED
  BY <1>2, FaultKeeps DEF SaveIsRefused

LEMMA FailedReadKeeps ==
    ASSUME Inv, ReadFails
    PROVE  Inv'
<1>1. PICK n \in served + 1 .. Len(requests) :
         /\ requests' = RemoveAt(requests, n)
         /\ callbacks' = Append(callbacks, [date |-> requests[n].date,
                             status |-> "error", entry |-> NoDiary])
  BY DEF ReadFails
<1>2. TypeInv
  BY DEF Inv
<1>3. /\ requests \in Seq(Requests)
      /\ Len(requests) \in Nat
      /\ served \in Nat
      /\ n \in 1..Len(requests)
      /\ requests[n].date \in Keys
  BY <1>2, RequestsTyped
<1>4. [date |-> requests[n].date, status |-> "error", entry |-> NoDiary] \in Callbacks
  BY <1>3 DEF Callbacks
<1>5. callbacks' \in Seq(Callbacks)
  BY <1>1, <1>2, <1>4, CallbacksTyped, AppendProperties
<1>6. /\ requests' \in Seq(Requests)
      /\ Len(requests') = Len(requests) - 1
      /\ \A k \in 1..(Len(requests) - 1) :
            requests'[k] = IF k < n THEN requests[k] ELSE requests[k + 1]
  BY <1>1, <1>3, RemovedAt
<1>7. \A k \in 1..Len(requests') : IsSave(requests'[k]) => requests'[k].entry # NoDiary
  <2> SUFFICES ASSUME NEW k \in 1..Len(requests'), IsSave(requests'[k])
               PROVE  requests'[k].entry # NoDiary
    OBVIOUS
  <2>1. k \in 1..Len(requests) /\ k + 1 \in 1..Len(requests)
    BY <1>3, <1>6
  <2>2. requests'[k] = requests[k] \/ requests'[k] = requests[k + 1]
    BY <1>6
  <2> QED
    BY <1>2, <2>1, <2>2 DEF TypeInv, TypeOK
<1>8. served' \in 0..Len(requests')
  BY <1>3, <1>6 DEF ReadFails
<1>9. TypeOK'
  BY <1>2, <1>5, <1>6, <1>7, <1>8 DEF TypeInv, TypeOK, ReadFails, Fault, screenVars
<1> QED
  BY <1>9, FaultKeeps DEF ReadFails

LEMMA LostConnectionKeeps ==
    ASSUME Inv, ConnectionLost
    PROVE  Inv'
<1>1. TypeInv
  BY DEF Inv
<1>2. /\ requests' \in Seq(Requests)
      /\ \A n \in 1..Len(requests') :
            \E k \in 1..Len(requests) : requests'[n] = requests[k]
  BY <1>1, RequestsTyped, ReadsLost DEF ConnectionLost
<1>3. \A n \in 1..Len(requests') : IsSave(requests'[n]) => requests'[n].entry # NoDiary
  BY <1>1, <1>2 DEF TypeInv, TypeOK
<1>4. served' \in 0..Len(requests')
  BY <1>2, LenProperties DEF ConnectionLost
<1>5. TypeOK'
  BY <1>1, <1>2, <1>3, <1>4 DEF TypeInv, TypeOK, ConnectionLost, Fault, screenVars
<1> QED
  BY <1>5, FaultKeeps DEF ConnectionLost

-----------------------------------------------------------------------------
(* The theorems                                                            *)

LEMMA InvInit == Init => Inv
<1> SUFFICES ASSUME Init PROVE Inv
  OBVIOUS
<1> DEFINE r == [kind |-> "read", date |-> date, entry |-> NoDiary]
<1>1. date \in Keys
  BY KeysAssumption DEF Init
<1>2. /\ diary \in [Keys -> Entries \cup {NoDiary}]
      /\ \A d \in Keys : diary[d] # NoDiary => diary[d].about = d
  BY DEF Init
<1>3. r \in Requests /\ IsRead(r) /\ ~IsSave(r) /\ r.date = date
  BY <1>1 DEF Requests, IsRead, IsSave
<1> HIDE DEF r
<1>4. requests = <<r>> /\ callbacks = <<>> /\ served = 0
  BY DEF Init, r
<1>5. requests \in Seq(Requests) /\ Len(requests) = 1 /\ requests[1] = r
  BY <1>3, <1>4
<1>6. callbacks \in Seq(Callbacks) /\ Len(callbacks) = 0
  BY <1>4, EmptySeq
<1>7. TypeInv
  <2>1. \A n \in 1..Len(requests) : IsSave(requests[n]) => requests[n].entry # NoDiary
    BY <1>3, <1>5
  <2>2. served \in 0..Len(requests)
    BY <1>4, <1>5
  <2>3. text \in AllTexts /\ textColor \in {"black", "lightGray"} /\ about = date
    BY DEF Init, AllTexts
  <2> QED
    BY <1>1, <1>2, <1>5, <1>6, <2>1, <2>2, <2>3 DEF Init, TypeInv, TypeOK
<1>8. ServedSavesAreStored
  BY <1>4 DEF ServedSavesAreStored
<1>9. ReadOutstanding
  BY <1>3, <1>5 DEF ReadOutstanding
<1>10. LastMoveWins
  <2>1. PendingSaves(date) = {}
    BY <1>3, <1>5 DEF PendingSaves
  <2>2. date \notin pending
    BY <2>1 DEF pending
  <2>3. LastRequest = r /\ served # Len(requests)
    BY <1>4, <1>5 DEF LastRequest
  <2> QED
    BY <1>3, <1>9, <2>2, <2>3 DEF LastMoveWins
<1>11. DatesAreKept
  BY <1>2, <1>3, <1>4, <1>5, <1>6, <1>9 DEF DatesAreKept, Reading
<1> QED
  BY <1>7, <1>8, <1>10, <1>11 DEF Inv

LEMMA InvKept == Inv /\ [Next]_vars => Inv'
<1> SUFFICES ASSUME Inv, [Next]_vars PROVE Inv'
  OBVIOUS
<1>1. CASE BeforeDiaryButtonClicked \/ AfterDiaryButtonClicked
  BY <1>1, MoveKeeps DEF BeforeDiaryButtonClicked, AfterDiaryButtonClicked
<1>2. CASE SaveButtonClicked
  BY <1>2, SaveKeeps
<1>3. CASE TextViewDidBeginEditing \/ Type \/ TextViewDidEndEditing
  BY <1>3, EditingKeeps
<1>4. CASE ReadAnswered
  BY <1>4, ReadAnsweredKeeps
<1>5. CASE Network
  BY <1>5, ServesKeeps, AnswerArrives, RefusedSaveKeeps, FailedReadKeeps,
     LostConnectionKeeps DEF Network
<1>6. CASE UNCHANGED vars
  <2>1. held' = held /\ pending' = pending /\ Reading' = Reading
        /\ ReadOutstanding' = ReadOutstanding
    BY <1>6 DEF vars, held, pending, Latest, PendingSaves, Reading, ReadOutstanding
  <2>2. TypeInv' /\ ServedSavesAreStored'
    BY <1>6 DEF vars, Inv, TypeInv, TypeOK, ServedSavesAreStored
  <2>3. LastMoveWins'
    BY <1>6, <2>1 DEF vars, Inv, LastMoveWins, LastRequest, LastCallback, ScreenShows
  <2>4. DatesAreKept'
    BY <1>6, <2>1 DEF vars, Inv, DatesAreKept
  <2> QED
    BY <2>2, <2>3, <2>4 DEF Inv
<1> QED
  BY <1>1, <1>2, <1>3, <1>4, <1>5, <1>6 DEF Next, User

LEMMA InvHolds == Spec => []Inv
<1>1. Init => Inv
  BY InvInit
<1>2. Inv /\ [Next]_vars => Inv'
  BY InvKept
<1> QED
  BY <1>1, <1>2, PTL DEF Spec

\* The types of the screen, the client and the database.
THEOREM TypeCorrect == Spec => []TypeOK
<1>1. Inv => TypeOK
  BY DEF Inv, TypeInv
<1> QED
  BY <1>1, InvHolds, PTL

\* CalendarDiary.swift: once the reads have come to rest, the screen shows what
\* is held under its date, however quickly the user moved.
THEOREM TheScreenSettles == Spec => []SettledScreenShowsItsDate
<1>1. Inv => SettledScreenShowsItsDate
  <2> SUFFICES ASSUME Inv, ~Reading, ~touched, ~overtaken, ~failed
               PROVE  Entry(text, about) =
                         IF Latest(date) = NoDiary THEN Entry(Placeholder, date)
                         ELSE Latest(date)
    BY DEF SettledScreenShowsItsDate
  <2>1. ScreenShows
    BY DEF Inv, LastMoveWins, Reading
  <2>2. held[date] = Latest(date)
    BY DEF held, Inv, TypeInv, TypeOK
  <2> QED
    BY <2>1, <2>2 DEF ScreenShows
<1> QED
  BY <1>1, InvHolds, PTL

\* CalendarDiary.swift: a user who waits for the reads saves every diary under
\* the date it was written for, and everything read back belongs to its key.
THEOREM PatienceKeepsDates == Spec => []PatientWriterKeepsDates
<1>1. Inv => PatientWriterKeepsDates
  BY DEF Inv, DatesAreKept, PatientWriterKeepsDates
<1> QED
  BY <1>1, InvHolds, PTL

=============================================================================
