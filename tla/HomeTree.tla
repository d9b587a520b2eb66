------------------------------ MODULE HomeTree ------------------------------
(***************************************************************************)
(* The tree of the home screen: ViewController, its ObservableViewModel    *)
(* and the FirebaseDatabase service, whose static `data` outlives screens  *)
(* and accounts.                                                           *)
(*                                                                         *)
(* Each time the screen appears it asks for the children of diary/<uid>,   *)
(* and, without waiting, loads the picture of the level that `data` holds  *)
(* at that moment on a background queue.  The answer updates `data` only:  *)
(* nothing assigns storage.value, and fetchData replaces the Observable    *)
(* that setUpBinding has bound, so its listener never runs.                *)
(*                                                                         *)
(* The database client answers requests in order; a read of the whole node *)
(* always goes to the server, behind the saves made before it.  The step   *)
(* that serves a request also delivers its answer.                         *)
(***************************************************************************)
EXTENDS TreeLevel, SequencesExt

CONSTANTS
    Users,          \* accounts that log in on this device
    NoUser,
    InitialCounts,  \* diaries an account may already have
    MaxVisits,      \* bound on appearances of the home screen
    MaxDiaries,     \* bound on diaries written
    MaxFaults       \* bound on failed or lost reads and failed picture loads

ASSUME CountsAssumption == InitialCounts \subseteq Nat

ASSUME NoUserAssumption == NoUser \notin Users

NoPicture == -1

VARIABLES
    data,      \* FirebaseDatabase.data
    user,      \* Auth.auth().currentUser
    screen,    \* "home", "away" (a screen pushed over it) or "login"
    shown,     \* imageView.image of the newest home screen: a level
    loads,     \* picture loads of that screen not yet delivered
    requests,  \* reads of diary/<uid> and saves under it, in order
    count,     \* children of diary/<uid> in the database
    \* history
    counted,   \* the account whose count `data` holds
    basis,     \* the count `data` held when the home screen last appeared
    failed,    \* a read of the last appearance failed or was lost
    racing,    \* older loads were under way when it appeared, or one failed
    visits, diaries, faults

vars == <<data, user, screen, shown, loads, requests, count, counted, basis,
          failed, racing, visits, diaries, faults>>

Requests == [kind : {"count", "save"}, user : Users]

IsSave(r) == r.kind = "save"

CountOutstanding == \E n \in 1..Len(requests) : ~IsSave(requests[n])

SavePlaces == {n \in 1..Len(requests) : IsSave(requests[n])}

\* The saves are left, in their order.
CountsAreLost ==
    \E p \in [1..Cardinality(SavePlaces) -> SavePlaces] :
        /\ \A j, k \in DOMAIN p : j < k => p[j] < p[k]
        /\ requests' = [n \in DOMAIN p |-> requests[p[n]]]

TypeOK ==
    /\ data.diaryUsage \in Nat
    /\ data.treeLevel \in Levels
    /\ user \in Users \cup {NoUser}
    /\ screen \in {"home", "away", "login"}
    /\ shown \in Levels \cup {NoPicture}
    /\ loads \in Seq(Levels)
    /\ requests \in Seq(Requests)
    /\ count \in [Users -> Nat]
    /\ counted \in Users \cup {NoUser}
    /\ (user = NoUser) <=> (screen = "login")

\* The static initial value does not fit together: 20 diaries are level 3.
Init ==
    /\ data = [diaryUsage |-> 20, treeLevel |-> 2]
    /\ user = NoUser
    /\ screen = "login"
    /\ shown = NoPicture
    /\ loads = <<>>
    /\ requests = <<>>
    /\ count \in [Users -> InitialCounts]
    /\ counted = NoUser
    /\ basis = 0
    /\ failed = FALSE
    /\ racing = FALSE
    /\ visits = 0
    /\ diaries = 0
    /\ faults = 0

-----------------------------------------------------------------------------
(* The home screen                                                         *)

\* fetchData: checkDiaryUsage asks for the count of the current account.
CheckDiaryUsage(u, times) ==
    requests' = requests \o [n \in 1..times |-> [kind |-> "count", user |-> u]]

\* setBindTreeImage: the level is read now, the picture comes later.
SetBindTreeImage(old, times) ==
    loads' = old \o [n \in 1..times |-> data.treeLevel]

Appear ==
    /\ visits < MaxVisits
    /\ visits' = visits + 1
    /\ screen' = "home"
    /\ basis' = IF counted = NoUser THEN 0 ELSE data.diaryUsage
    /\ failed' = FALSE
    /\ UNCHANGED <<data, count, counted, diaries, faults>>

\* A new ViewController: viewDidLoad fetches once and loads twice, the second
\* time through bind, and viewWillAppear fetches and loads again.
HomeLoads(u) ==
    /\ Appear
    /\ user' = u
    /\ CheckDiaryUsage(u, 2)
    /\ SetBindTreeImage(<<>>, 3)
    /\ shown' = NoPicture
    /\ racing' = FALSE

\* loginButtonClicked, after which the home screen is pushed.
Login ==
    /\ screen = "login"
    /\ \E u \in Users : HomeLoads(u)

\* homeButtonClicked on the calendar pushes another home screen.
HomeButtonClicked ==
    /\ screen = "away"
    /\ HomeLoads(user)

\* Mutant: the picture is loaded by viewDidLoad only.
ReappearWithoutPicture ==
    /\ screen = "away"
    /\ Appear
    /\ CheckDiaryUsage(user, 1)
    /\ racing' = (loads # <<>>)
    /\ UNCHANGED <<user, shown, loads>>

\* viewWillAppear when the screen over it is left.
ViewWillAppear ==
    /\ screen = "away"
    /\ Appear
    /\ CheckDiaryUsage(user, 1)
    /\ SetBindTreeImage(loads, 1)
    /\ racing' = (loads # <<>>)
    /\ UNCHANGED <<user, shown>>

\* One of the buttons that push another screen.
PushScreen ==
    /\ screen = "home"
    /\ screen' = "away"
    /\ UNCHANGED <<data, user, shown, loads, requests, count, counted, basis,
                   failed, racing, visits, diaries, faults>>

\* A diary is saved on another screen, under a date that had none.
SaveDiary ==
    /\ screen = "away"
    /\ diaries < MaxDiaries
    /\ diaries' = diaries + 1
    /\ requests' = Append(requests, [kind |-> "save", user |-> user])
    /\ UNCHANGED <<data, user, screen, shown, loads, count, counted, basis,
                   failed, racing, visits, faults>>

\* logoutButtonClicked on MyPage: `data` keeps what it holds.
Logout ==
    /\ screen = "away"
    /\ screen' = "login"
    /\ user' = NoUser
    /\ UNCHANGED <<data, shown, loads, requests, count, counted, basis, failed,
                   racing, visits, diaries, faults>>

-----------------------------------------------------------------------------
(* The answers                                                             *)

\* A picture arrives; the loads run side by side and end in any order.
PictureLoaded ==
    /\ \E n \in 1..Len(loads) :
         /\ shown' = loads[n]
         /\ loads' = RemoveAt(loads, n)
    /\ UNCHANGED <<data, user, screen, requests, count, counted, basis, failed,
                   racing, visits, diaries, faults>>

\* `try?` swallows a failed load.
PictureFails ==
    /\ faults < MaxFaults
    /\ faults' = faults + 1
    /\ \E n \in 1..Len(loads) : loads' = RemoveAt(loads, n)
    /\ racing' = TRUE
    /\ UNCHANGED <<data, user, screen, shown, requests, count, counted, basis,
                   failed, visits, diaries>>

SaveServed ==
    /\ requests # <<>>
    /\ IsSave(Head(requests))
    /\ requests' = Tail(requests)
    /\ count' = [count EXCEPT ![Head(requests).user] = @ + 1]
    /\ UNCHANGED <<data, user, screen, shown, loads, counted, basis, failed,
                   racing, visits, diaries, faults>>

\* The completion of checkDiaryUsage.  Without data nothing is assigned.
CountAnswered ==
    /\ requests # <<>>
    /\ ~IsSave(Head(requests))
    /\ requests' = Tail(requests)
    /\ LET u == Head(requests).user
       IN  IF count[u] > 0
           THEN /\ data' = [diaryUsage |-> count[u],
                            treeLevel |-> SetTreeLevel(count[u], data.treeLevel)]
                /\ counted' = u
           ELSE UNCHANGED <<data, counted>>
    /\ UNCHANGED <<user, screen, shown, loads, count, basis, failed, racing,
                   visits, diaries, faults>>

\* A read fails, its error is printed; or the connection is lost and the
\* reads on it are never answered, while the saves are sent again.
CountFails ==
    /\ CountOutstanding
    /\ faults < MaxFaults
    /\ faults' = faults + 1
    /\ failed' = TRUE
    /\ \/ /\ ~IsSave(Head(requests))
          /\ requests' = Tail(requests)
       \/ CountsAreLost
    /\ UNCHANGED <<data, user, screen, shown, loads, count, counted, basis,
                   racing, visits, diaries>>

Next ==
    \/ Login
    \/ HomeButtonClicked
    \/ ViewWillAppear
    \/ PushScreen
    \/ SaveDiary
    \/ Logout
    \/ PictureLoaded
    \/ PictureFails
    \/ SaveServed
    \/ CountAnswered
    \/ CountFails

Spec == Init /\ [][Next]_vars

-----------------------------------------------------------------------------
\* When the home screen has no read outstanding, the service holds the count
\* and the level of the account logged in, whoever used the device before and
\* whatever answers were still on their way at the login: the last read wins.
\* Only an account without diaries, or with too many, keeps an older level.
LastCountWins ==
    screen = "home" /\ ~CountOutstanding /\ ~failed /\ count[user] \in 1..MostDiaries
        => data = [diaryUsage |-> count[user], treeLevel |-> LevelOf(count[user])]

\* README.md: the tree grows as diaries are written.  While the counts that
\* arrive are one account's, the level of the service never goes down.
TreeNeverShrinks ==
    [][counted' = counted /\ counted # NoUser
          => data'.treeLevel >= data.treeLevel]_vars

\* README.md: the home screen shows a tree grown to the user's diaries.  It
\* does if the service held their number when the screen appeared, for any
\* accounts and answers before, and whatever answers come while its pictures
\* are loaded; but for pictures of two visits that race, or a failed load.
HomeShowsAKnownCount ==
    screen = "home" /\ loads = <<>> /\ ~racing
    /\ count[user] \in 1..MostDiaries /\ basis = count[user]
        => shown = LevelOf(count[user])

\* The same line, without the condition: once the number of the user's diaries
\* has arrived and the pictures are loaded, the tree has the level of that
\* number.
HomeShowsTheUsersTree ==
    screen = "home" /\ loads = <<>> /\ ~racing /\ ~CountOutstanding /\ ~failed
    /\ count[user] \in 1..MostDiaries
        => shown = LevelOf(count[user])

=============================================================================
