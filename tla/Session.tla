------------------------------ MODULE Session -------------------------------
(***************************************************************************)
(* The app as a whole: the stack of screens and what each of them knows of  *)
(* the user (Login, Register, MyPage, ViewController, Plus, EmotionImage,   *)
(* Calendar, CalendarDiary), calls to FirebaseAuth that end at any time,    *)
(* saved diaries and their analysis, and the database client with the       *)
(* credential its connection carries.                                       *)
(*                                                                          *)
(* The client is the one of RealtimeClient seen from further away: its      *)
(* connection is a FIFO, and the server serves and answers in one step.     *)
(* What RealtimeClient leaves out is kept here: whose token it is.          *)
(***************************************************************************)
EXTENDS Integers, FiniteSets, Sequences, SequencesExt, TLC

CONSTANTS
  Users,
  NoUser,       \* no current user, an uid that is nil, an auth token that is nil
  None,
  MostDiaries,  \* setTreeLevel knows no level beyond this number
  LastDay,      \* bound of the model: days that pass
  MaxScreens,   \* bound of the model: height of the stack
  MaxOf, MaxEvents  \* bounds of the model: events of each kind, and of all kinds

\* What the user and the world do: the model bounds how often.
Events == {"call", "push", "back", "save", "midnight", "fault", "death"}

ASSUME SessionAssumption ==
  /\ NoUser \notin Users /\ None \notin Users \cup {NoUser} /\ None \notin Nat
  /\ MostDiaries \in Nat /\ LastDay \in Nat \ {0}
  /\ MaxScreens \in Nat /\ MaxOf \in [Events -> Nat] /\ MaxEvents \in Nat

\* A token fetch has been asked for, waits for a refresh, or has an answer on its
\* way to the main queue: the token of that user, in that session.
Fetches == [phase : {"asked", "refreshing", "answered"}, user : Users \cup {NoUser}, session : Nat]

ASSUME FetchAssumption == None \notin Fetches

\* What stops the app. Nothing has if the cause is None.
Causes == {"no user", "level", "address", "index", "answer"}

ASSUME CauseAssumption == None \notin Causes

VARIABLES
  up,           \* "running", "trapped" (a runtime error) or "dead"
  stack,        \* the navigation controller's screens, the last one in front
  currentUser,  \* Auth.auth().currentUser, which a restart keeps
  session,      \* numbers the values of currentUser since the launch
  calls,        \* calls of FirebaseAuth under way
  main,         \* blocks FirebaseAuth has dispatched to the main queue
  posts,        \* requests to the analysis service under way
  address,      \* the address of that service is filled in (postTest: url)
  conn,         \* state of the database client; "idle" before its first use
  fetch,        \* the token fetch of a connection attempt, or None
  authToken,    \* authToken of FPersistentConnection
  puts,         \* outstanding writes
  reads,        \* outstanding reads
  wire,         \* requests sent and not yet served
  cred,         \* the user the server takes the connection for
  accounts,     \* FirebaseAuth's accounts
  records,      \* Users/<uid>
  diaries,      \* diary/<uid>/<day>: the save it comes from, or None
  today,
  \* history
  cause,        \* what the last runtime error was
  strayed,      \* the user has gone back from the login screen, or from a call under way
  hurried,      \* a call was made while another was under way
  overtaken,    \* the last token stored replaced a newer one
  gone,         \* writes of Users that were refused, died with the process or were never made
  used          \* the events so far, of each kind

authVars   == <<currentUser, session>>
clientVars == <<conn, fetch, authToken, puts, reads, wire, cred>>
serverVars == <<records, diaries>>
vars == <<up, stack, authVars, calls, main, posts, address, clientVars, accounts, serverVars, today,
          cause, strayed, hurried, overtaken, gone, used>>

Spend(what) ==
  /\ used[what] < MaxOf[what] /\ FoldFunction(+, 0, used) < MaxEvents
  /\ used' = [used EXCEPT ![what] = @ + 1]

-----------------------------------------------------------------------------
\* Screens

Days == 1..LastDay

Kinds == {"login", "register", "home", "mypage", "plus", "image", "calendar", "diary"}

\* id: the view controller; uid: the user it found when it loaded; session: of
\* MyPage's User object; about: the save an image answers, the day of a diary
\* screen; asOf: the saves made before its read; found: what its read brought
\* (the number of diaries, or the days that have one).
NewScreen(kind, id, user) ==
  [kind |-> kind, id |-> id, uid |-> IF kind \in {"login", "register"} THEN NoUser ELSE user,
   session |-> IF kind = "mypage" THEN session ELSE 0,
   about |-> None, asOf |-> IF kind = "calendar" THEN used.save ELSE 0, found |-> None]

Screen(kind, id) == NewScreen(kind, id, currentUser)

Top == stack[Len(stack)]
InFront(kind) == up = "running" /\ Top.kind = kind

Ids(S) == {x.id : x \in S}
OnStack(id) == id \in Ids(Range(stack))

\* Blocks and requests keep their view controller alive.
FreshId ==
  LET taken == Ids(Range(stack) \cup calls \cup posts \cup Range(reads) \cup Range(main))
  IN  Max(taken \cup {0}) + 1

\* A Swift runtime error.
Trap(why) == up' = "trapped" /\ cause' = why
NoTrap == UNCHANGED <<up, cause>>

-----------------------------------------------------------------------------
\* The database client

\* The first screen that asks for the database creates the client.
Opened == IF conn = "idle" THEN "disconnected" ELSE conn

Send(queue, req) == IF conn = "connected" THEN Append(queue, req) ELSE queue

PutRequest(p)  == [kind |-> "put", put |-> p]
AuthRequest(u) == [kind |-> "auth", user |-> u]
GetRequest(r)  == [kind |-> "get", id |-> r.id]

\* The client has been told of every change of the user.
Announced == \A b \in Range(main) : b.kind # "notify"

\* setValue or removeValue of a path. own: it is the current user's, and the client
\* has been told.
Put(path, uid, day, value) ==
  LET p == [path |-> path, uid |-> uid, day |-> day, value |-> value,
            session |-> session, own |-> uid = currentUser /\ Announced]
  IN  puts' = Append(puts, p) /\ wire' = Send(wire, PutRequest(p))

\* getData of all diaries of a user, for a screen. Outstanding reads are sent when
\* there is a connection: at once, or by restoreState.
GetData(screen) ==
  LET r == [id |-> screen.id, uid |-> screen.uid, for |-> screen.kind]
  IN  reads' = Append(reads, r) /\ wire' = Send(wire, GetRequest(r))

\* tryScheduleReconnect: the retry block asks FirebaseAuth for a token.
Retry ==
  /\ up = "running" /\ conn = "disconnected" /\ fetch = None
  /\ conn' = "gettingToken"
  /\ fetch' = [phase |-> "asked", user |-> NoUser, session |-> 0]
  /\ UNCHANGED <<up, stack, authVars, calls, main, posts, address, authToken, puts, reads, wire, cred,
                 accounts, serverVars, today, cause, strayed, hurried, overtaken, gone, used>>

\* getTokenForcingRefresh on FirebaseAuth's queue: the token of the user of that
\* moment is there, or has to be refreshed first.
TokenIsLookedUp ==
  /\ up = "running" /\ fetch # None /\ fetch.phase = "asked"
  /\ \/ /\ fetch' = [phase |-> "answered", user |-> currentUser, session |-> session]
        /\ main' = Append(main, [kind |-> "token", id |-> 0])
     \/ /\ currentUser # NoUser
        /\ fetch' = [phase |-> "refreshing", user |-> currentUser, session |-> session]
        /\ UNCHANGED main
  /\ UNCHANGED <<up, stack, authVars, calls, posts, address, conn, authToken, puts, reads, wire, cred,
                 accounts, serverVars, today, cause, strayed, hurried, overtaken, gone, used>>

TokenIsRefreshed ==
  /\ up = "running" /\ fetch # None /\ fetch.phase = "refreshing"
  /\ fetch' = [fetch EXCEPT !.phase = "answered"]
  /\ main' = Append(main, [kind |-> "token", id |-> 0])
  /\ UNCHANGED <<up, stack, authVars, calls, posts, address, conn, authToken, puts, reads, wire, cred,
                 accounts, serverVars, today, cause, strayed, hurried, overtaken, gone, used>>

\* The callback of the fetch: openNetworkConnectionWithContext stores the token.
TokenArrives ==
  /\ conn' = "connecting" /\ fetch' = None
  /\ authToken' = [user |-> fetch.user, session |-> fetch.session]
  /\ overtaken' = (fetch.session < authToken.session)
  /\ UNCHANGED <<puts, reads, wire, cred>>

\* Mutant: a token that arrives while there is no connection is not kept.
RefreshWhenConnected(user, number) ==
  /\ IF conn \notin {"authenticating", "connected"} THEN UNCHANGED <<authToken, overtaken>>
     ELSE authToken' = [user |-> user, session |-> number] /\ overtaken' = FALSE
  /\ wire' = IF conn \in {"authenticating", "connected"} THEN Append(wire, AuthRequest(user)) ELSE wire
  /\ UNCHANGED <<conn, fetch, puts, reads, cred>>

\* refreshAuthToken, for each change of the current user that is announced.
RefreshAuthToken(user, number) ==
  /\ IF conn = "idle" THEN UNCHANGED <<authToken, overtaken>>
     ELSE authToken' = [user |-> user, session |-> number] /\ overtaken' = FALSE
  /\ wire' = IF conn \in {"authenticating", "connected"} THEN Append(wire, AuthRequest(user)) ELSE wire
  /\ UNCHANGED <<conn, fetch, puts, reads, cred>>

PutRequests == [i \in DOMAIN puts |-> PutRequest(puts[i])]
GetRequests == [i \in DOMAIN reads |-> GetRequest(reads[i])]

\* Mutant: the reads go out first.
RestoreGetsFirst(first) == wire' = first \o GetRequests \o PutRequests

\* restoreState: all outstanding writes, then the reads.
RestoreState(first) == wire' = first \o PutRequests \o GetRequests

\* Mutant: a token is only sent when it changes.
ReadyWithoutAuth ==
  /\ up = "running" /\ conn = "connecting"
  /\ conn' = "connected" /\ RestoreState(<<>>)
  /\ UNCHANGED <<up, stack, authVars, calls, main, posts, address, fetch, authToken, puts, reads, cred,
                 accounts, serverVars, today, cause, strayed, hurried, overtaken, gone, used>>

\* onReady and restoreAuth.
OnReady ==
  /\ up = "running" /\ conn = "connecting"
  /\ IF authToken.user = NoUser
     THEN conn' = "connected" /\ RestoreState(<<>>)
     ELSE conn' = "authenticating" /\ wire' = <<AuthRequest(authToken.user)>>
  /\ UNCHANGED <<up, stack, authVars, calls, main, posts, address, fetch, authToken, puts, reads, cred,
                 accounts, serverVars, today, cause, strayed, hurried, overtaken, gone, used>>

\* Mutant: writes that were sent are forgotten too.
DisconnectForgetsPuts ==
  /\ conn' = "disconnected" /\ wire' = <<>> /\ cred' = NoUser /\ fetch' = None
  /\ reads' = IF conn = "connected" THEN <<>> ELSE reads
  /\ puts' = SelectSeq(puts, LAMBDA p : PutRequest(p) \notin Range(wire))
  /\ UNCHANGED authToken

\* onDisconnect: reads that were sent are forgotten, writes and other reads kept.
Disconnect ==
  /\ conn' = "disconnected" /\ wire' = <<>> /\ cred' = NoUser /\ fetch' = None
  /\ reads' = IF conn = "connected" THEN <<>> ELSE reads
  /\ UNCHANGED <<puts, authToken>>

\* The connection is lost, or the token of an attempt cannot be refreshed.
ConnectionLost ==
  /\ up = "running"
  /\ \/ conn \in {"connecting", "authenticating", "connected"}
     \/ fetch # None /\ fetch.phase = "refreshing"
  /\ Spend("fault")
  /\ Disconnect
  /\ UNCHANGED <<up, stack, authVars, calls, main, posts, address, accounts, serverVars, today, cause,
                 strayed, hurried, overtaken, gone>>

\* The offline timer of a read that has not been sent.
ReadTimesOut ==
  /\ up = "running" /\ conn # "connected"
  /\ \E i \in DOMAIN reads : reads' = RemoveAt(reads, i)
  /\ UNCHANGED <<up, stack, authVars, calls, main, posts, address, conn, fetch, authToken, puts, wire, cred,
                 accounts, serverVars, today, cause, strayed, hurried, overtaken, gone, used>>

-----------------------------------------------------------------------------
\* The server, whose rules let users at their own data only

ServeAuth ==
  /\ up # "dead" /\ wire # <<>> /\ Head(wire).kind = "auth"
  /\ cred' = Head(wire).user
  /\ IF conn = "authenticating"
     THEN conn' = "connected" /\ RestoreState(Tail(wire))
     ELSE wire' = Tail(wire) /\ UNCHANGED conn
  /\ UNCHANGED <<up, stack, authVars, calls, main, posts, address, fetch, authToken, puts, reads, accounts,
                 serverVars, today, cause, strayed, hurried, overtaken, gone, used>>

ServePut ==
  /\ up # "dead" /\ wire # <<>> /\ Head(wire).kind = "put"
  /\ wire' = Tail(wire)
  /\ LET p == Head(wire).put
         allowed == cred = p.uid
     IN  /\ \E i \in DOMAIN puts :
              /\ puts[i] = p /\ \A j \in 1..(i - 1) : puts[j] # p
              /\ puts' = RemoveAt(puts, i)
         /\ diaries' = IF allowed /\ p.path = "diary"
                       THEN [diaries EXCEPT ![p.uid][p.day] = p.value] ELSE diaries
         /\ records' = IF allowed /\ p.path = "Users"
                       THEN IF p.value = None THEN records \ {p.uid} ELSE records \cup {p.uid}
                       ELSE records
         /\ gone' = IF ~allowed /\ p.path = "Users" THEN gone \cup {p.uid} ELSE gone
  /\ UNCHANGED <<up, stack, authVars, calls, main, posts, address, conn, fetch, authToken, reads, cred,
                 accounts, today, cause, strayed, hurried, overtaken, used>>

DaysWithDiary(u) == {d \in Days : diaries[u][d] # None}
DiaryUsage(u) == Cardinality(DaysWithDiary(u))

Found(id, what) ==
  stack' = [i \in DOMAIN stack |-> IF stack[i].id = id THEN [stack[i] EXCEPT !.found = what] ELSE stack[i]]

\* The completion of checkDiaryUsage (a picture for the level of the count; a
\* level that is still nil stops the app) or of getDiaryDates.
ReadAnswered(r) ==
  CASE cred # r.uid \/ (r.for = "image" /\ DiaryUsage(r.uid) = 0) -> NoTrap /\ UNCHANGED stack
    [] cred = r.uid /\ r.for = "calendar" -> NoTrap /\ Found(r.id, DaysWithDiary(r.uid))
    [] OTHER -> IF DiaryUsage(r.uid) > MostDiaries THEN Trap("level") /\ UNCHANGED stack
                ELSE NoTrap /\ Found(r.id, DiaryUsage(r.uid))

ServeGet ==
  /\ up = "running" /\ wire # <<>> /\ Head(wire).kind = "get"
  /\ wire' = Tail(wire)
  /\ \E i \in DOMAIN reads :
       /\ reads[i].id = Head(wire).id
       /\ \A j \in 1..(i - 1) : reads[j].id # Head(wire).id
       /\ reads' = RemoveAt(reads, i)
       /\ ReadAnswered(reads[i])
  /\ UNCHANGED <<authVars, calls, main, posts, address, conn, fetch, authToken, puts, cred, accounts,
                 serverVars, today, strayed, hurried, overtaken, gone, used>>

-----------------------------------------------------------------------------
\* Loading screens

\* Screens are pushed only by a controller that is on the stack, and load at once.
\* ViewController, MyPage, EmotionImage, Calendar and CalendarDiary unwrap the uid
\* at once; Plus does so when it saves.
Loads(screen) ==
  IF screen.kind \in {"login", "register", "plus"} \/ screen.uid # NoUser
  THEN NoTrap ELSE Trap("no user")

Reads(screen) ==
  IF screen.kind \in {"image", "calendar"} /\ screen.uid # NoUser
  THEN GetData(screen) ELSE UNCHANGED <<reads, wire>>

UsesDatabase(screen) == screen.kind \notin {"login", "register"}

\* pushViewController and viewDidLoad of the new screen.
Push(screen) ==
  /\ stack' = Append(stack, screen)
  /\ Loads(screen) /\ Reads(screen)
  /\ conn' = IF UsesDatabase(screen) THEN Opened ELSE conn

\* LoginViewController: with a current user it pushes the home screen when it loads.
LoginScreens(user, id) ==
  <<NewScreen("login", id, user)>>
    \o IF user = NoUser THEN <<>> ELSE <<NewScreen("home", id + 1, user)>>

\* Buttons of the home screen and the calendar, and the register button.
Goes == {<<"login", "register">>, <<"home", "mypage">>, <<"home", "plus">>, <<"home", "calendar">>,
         <<"calendar", "home">>, <<"calendar", "diary">>}

ButtonClicked(from, to) ==
  /\ InFront(from) /\ Len(stack) < MaxScreens
  /\ Spend("push")
  /\ \E day \in IF to = "diary" THEN 1..today ELSE {today} :
        Push([Screen(to, FreshId) EXCEPT !.about = IF to = "diary" THEN day ELSE None])
  /\ UNCHANGED <<authVars, calls, main, posts, address, fetch, authToken, puts, cred, accounts,
                 serverVars, today, strayed, hurried, overtaken, gone>>

\* A call of this screen is under way, or its answer waits in the main queue.
Waiting(id) == id \in Ids(calls \cup Range(main))

\* Mutant: the root screen can be left.
BackFromAny ==
  /\ up = "running"
  /\ Spend("back")
  /\ stack' = SubSeq(stack, 1, Len(stack) - 1)
  /\ strayed' = (strayed \/ Top.kind = "login" \/ Waiting(Top.id))
  /\ UNCHANGED <<up, authVars, calls, main, posts, address, clientVars, accounts, serverVars, today, cause,
                 hurried, overtaken, gone>>

\* The navigation bar's back button.
Back ==
  /\ up = "running" /\ Len(stack) > 1
  /\ Spend("back")
  /\ stack' = SubSeq(stack, 1, Len(stack) - 1)
  /\ strayed' = (strayed \/ Top.kind = "login" \/ Waiting(Top.id))
  /\ UNCHANGED <<up, authVars, calls, main, posts, address, clientVars, accounts, serverVars, today, cause,
                 hurried, overtaken, gone>>

-----------------------------------------------------------------------------
\* Accounts

\* updateCurrentUser: the change is announced on the main queue, before the
\* completion of the call that made it.
UpdateCurrentUser(user, completion) ==
  /\ currentUser' = user /\ session' = session + 1
  /\ main' = main \o <<[kind |-> "notify", id |-> 0, user |-> user, session |-> session + 1]>>
                  \o completion

Completion(c) == <<[kind |-> c.kind, id |-> c.id, user |-> c.user]>>

\* Clicks that call FirebaseAuth: what the call does is decided by its answer.
Call(kind, user, number) ==
  /\ up = "running" /\ Spend("call")
  /\ calls' = calls \cup {[kind |-> kind, id |-> Top.id, user |-> user, session |-> number]}
  /\ hurried' = (hurried \/ calls # {} \/ \E b \in Range(main) : b.kind # "token")
  /\ UNCHANGED <<up, stack, authVars, main, posts, address, clientVars, accounts, serverVars, today, cause,
                 strayed, overtaken, gone>>

LoginButtonClick    == InFront("login") /\ \E u \in Users : Call("signIn", u, 0)
RegisterButtonClick == InFront("register") /\ \E u \in Users : Call("createUser", u, 0)
DeleteUserClicked   == InFront("mypage") /\ Call("delete", Top.uid, Top.session)

CanSucceed(c) == (c.kind = "createUser") = (c.user \notin accounts)

\* What FirebaseAuth's server has when a call is done.
Executed(c) ==
  CASE c.kind = "signIn" -> accounts
    [] c.kind = "createUser" -> accounts \cup {c.user}
    [] c.kind = "delete" -> accounts \ {c.user}

\* A deletion ends the session only if it is that of the same User object.
CallSucceeds(c) ==
  /\ up = "running" /\ CanSucceed(c)
  /\ calls' = calls \ {c}
  /\ accounts' = Executed(c)
  /\ IF c.kind = "delete"
     THEN IF c.session = session THEN UpdateCurrentUser(NoUser, Completion(c))
          ELSE main' = main \o Completion(c) /\ UNCHANGED authVars
     ELSE UpdateCurrentUser(c.user, Completion(c))
  /\ UNCHANGED <<up, stack, posts, address, clientVars, serverVars, today, cause, strayed, hurried,
                 overtaken, gone, used>>

\* The completion with an error only prints; the call may have been executed.
CallFails(c) ==
  /\ up = "running"
  /\ calls' = calls \ {c}
  /\ \/ ~CanSucceed(c) /\ UNCHANGED <<accounts, gone, used>>
     \/ /\ CanSucceed(c) /\ Spend("fault")
        /\ accounts' \in {accounts, Executed(c)}
        /\ gone' = gone \cup (IF accounts' = accounts THEN {} ELSE {c.user})
  /\ UNCHANGED <<up, stack, authVars, main, posts, address, clientVars, serverVars, today, cause, strayed,
                 hurried, overtaken>>

\* Mutant: the login screen does not come up.
LogoutStays ==
  /\ InFront("mypage")
  /\ Spend("push")
  /\ IF currentUser = NoUser THEN UNCHANGED <<authVars, main>> ELSE UpdateCurrentUser(NoUser, <<>>)
  /\ UNCHANGED <<up, stack, calls, posts, address, clientVars, accounts, serverVars, today, cause, strayed,
                 hurried, overtaken, gone>>

\* signOut, and the login screen.
LogoutClicked ==
  /\ InFront("mypage") /\ Len(stack) < MaxScreens
  /\ Spend("push")
  /\ stack' = Append(stack, Screen("login", FreshId))
  /\ IF currentUser = NoUser THEN UNCHANGED <<authVars, main>> ELSE UpdateCurrentUser(NoUser, <<>>)
  /\ UNCHANGED <<up, calls, posts, address, clientVars, accounts, serverVars, today, cause, strayed,
                 hurried, overtaken, gone>>

\* The completions of signIn and createUser show the home screen, that of delete
\* the login screen, if their own screen is still on the stack. createUser and
\* delete write Users/<uid>, the first for whoever is the current user by now.
SignedIn(b) ==
  /\ UNCHANGED <<puts, gone>>
  /\ IF OnStack(b.id) THEN Push(Screen("home", FreshId))
     ELSE NoTrap /\ UNCHANGED <<stack, conn, reads, wire>>

\* Mutant: nothing is written once the user has left the registration.
RegisteredOnStack(b) ==
  /\ IF currentUser # NoUser /\ OnStack(b.id)
     THEN Put("Users", currentUser, None, currentUser) /\ UNCHANGED gone
     ELSE UNCHANGED <<puts, wire, gone>>
  /\ IF OnStack(b.id)
     THEN LET home == Screen("home", FreshId) IN stack' = Append(stack, home) /\ Loads(home)
     ELSE NoTrap /\ UNCHANGED stack
  /\ conn' = Opened
  /\ UNCHANGED reads

Registered(b) ==
  /\ IF currentUser # NoUser
     THEN Put("Users", currentUser, None, currentUser) /\ UNCHANGED gone
     ELSE gone' = gone \cup {b.user} /\ UNCHANGED <<puts, wire>>
  /\ IF OnStack(b.id)
     THEN LET home == Screen("home", FreshId) IN stack' = Append(stack, home) /\ Loads(home)
     ELSE NoTrap /\ UNCHANGED stack
  /\ conn' = Opened
  /\ UNCHANGED reads

Deleted(b) ==
  /\ Put("Users", b.user, None, None)
  /\ stack' = stack \o (IF OnStack(b.id) THEN LoginScreens(currentUser, FreshId) ELSE <<>>)
  /\ NoTrap /\ UNCHANGED <<conn, reads, gone>>

\* The main queue runs its next block.
MainQueue ==
  /\ up = "running" /\ main # <<>>
  /\ main' = Tail(main)
  /\ LET b == Head(main)
     IN  CASE b.kind = "token" -> TokenArrives /\ NoTrap /\ UNCHANGED <<stack, gone>>
           [] b.kind = "notify" ->
                RefreshAuthToken(b.user, b.session) /\ NoTrap /\ UNCHANGED <<stack, gone>>
           [] OTHER ->
                /\ CASE b.kind = "signIn" -> SignedIn(b)
                     [] b.kind = "createUser" -> Registered(b)
                     [] b.kind = "delete" -> Deleted(b)
                /\ UNCHANGED <<fetch, authToken, cred, overtaken>>
  /\ UNCHANGED <<authVars, calls, posts, address, accounts, serverVars, today, strayed, hurried, used>>

-----------------------------------------------------------------------------
\* Diaries and their analysis

\* saveButtonClicked and temporaySaveButtonClicked of the writing screen: the
\* diary is written under today's date; the first also posts the text, and stops
\* the app if the address of the service is left blank.
SaveButtonClicked ==
  /\ InFront("plus") /\ Spend("save")
  /\ IF Top.uid = NoUser
     THEN Trap("no user") /\ UNCHANGED <<puts, wire, posts>>
     ELSE /\ Put("diary", Top.uid, today, used.save + 1)
          /\ \/ NoTrap /\ UNCHANGED posts
             \/ /\ address /\ NoTrap
                /\ posts' = posts \cup {[id |-> Top.id, save |-> used.save + 1]}
             \/ ~address /\ Trap("address") /\ UNCHANGED posts
  /\ UNCHANGED <<stack, authVars, calls, main, address, conn, fetch, authToken, reads, cred, accounts,
                 serverVars, today, strayed, hurried, overtaken, gone>>

\* Both buttons of the calendar diary screen.
SaveOnCalendarDiary ==
  /\ InFront("diary") /\ Spend("save")
  /\ Put("diary", Top.uid, Top.about, used.save + 1)
  /\ UNCHANGED <<up, stack, authVars, calls, main, posts, address, conn, fetch, authToken, reads, cred,
                 accounts, serverVars, today, cause, strayed, hurried, overtaken, gone>>

Image(p) == [Screen("image", FreshId) EXCEPT !.about = p.save]

\* Mutant: the result is shown wherever the user is.
AnalysisShowsAnywhere(p) ==
  /\ up = "running"
  /\ posts' = posts \ {p}
  /\ Push(Image(p))
  /\ UNCHANGED <<authVars, calls, main, address, fetch, authToken, puts, cred, accounts, serverVars, today,
                 strayed, hurried, overtaken, gone, used>>

\* The analysis is there: its screen is pushed if the writing screen is still on
\* the stack. Its random answer may be beyond the end of an array.
AnalysisAnswered(p) ==
  /\ up = "running"
  /\ posts' = posts \ {p}
  /\ IF ~OnStack(p.id) THEN NoTrap /\ UNCHANGED <<stack, conn, reads, wire, used>>
     ELSE \/ Push(Image(p)) /\ UNCHANGED used
          \/ /\ Spend("fault") /\ Trap("index")
             /\ UNCHANGED <<stack, conn, reads, wire>>
  /\ UNCHANGED <<authVars, calls, main, address, fetch, authToken, puts, cred, accounts, serverVars, today,
                 strayed, hurried, overtaken, gone>>

\* The request fails or takes longer than ten seconds: nothing but a print. An
\* answer without the emotion stops the app.
AnalysisFails(p) ==
  /\ up = "running" /\ Spend("fault")
  /\ posts' = posts \ {p}
  /\ NoTrap \/ Trap("answer")
  /\ UNCHANGED <<stack, authVars, calls, main, address, clientVars, accounts, serverVars, today, strayed,
                 hurried, overtaken, gone>>

Midnight ==
  /\ up = "running" /\ today < LastDay /\ Spend("midnight")
  /\ today' = today + 1
  /\ UNCHANGED <<up, stack, authVars, calls, main, posts, address, clientVars, accounts, serverVars, cause,
                 strayed, hurried, overtaken, gone>>

-----------------------------------------------------------------------------
\* The process

\* The process ends, by a runtime error or from outside; calls of FirebaseAuth
\* that were under way may have been executed.
Die ==
  /\ up # "dead"
  /\ IF up = "trapped" THEN UNCHANGED used ELSE Spend("death")
  /\ up' = "dead"
  /\ \E done \in SUBSET {c \in calls : CanSucceed(c)} :
        accounts' = (accounts \cup {c.user : c \in {d \in done : d.kind = "createUser"}})
                       \ {c.user : c \in {d \in done : d.kind = "delete"}}
  /\ gone' = gone \cup {u \in Users : (u \in accounts') # (u \in records)}
  /\ stack' = <<>> /\ calls' = {} /\ main' = <<>> /\ posts' = {}
  /\ conn' = "idle" /\ fetch' = None /\ authToken' = [user |-> NoUser, session |-> 0]
  /\ puts' = <<>> /\ reads' = <<>> /\ wire' = <<>> /\ cred' = NoUser
  /\ overtaken' = FALSE
  /\ UNCHANGED <<authVars, address, serverVars, today, cause, strayed, hurried>>

\* The root screen of the storyboard, for the user the keychain remembers.
Launch ==
  /\ up = "dead"
  /\ up' = "running" /\ cause' = None
  /\ stack' = LoginScreens(currentUser, 1) /\ session' = 1
  /\ conn' = IF currentUser = NoUser THEN "idle" ELSE "disconnected"
  /\ strayed' = FALSE /\ hurried' = FALSE
  /\ UNCHANGED <<currentUser, calls, main, posts, address, fetch, authToken, puts, reads, wire, cred,
                 accounts, serverVars, today, overtaken, gone, used>>

Init ==
  /\ up = "running" /\ cause = None /\ session = 1
  /\ \E known \in SUBSET Users : accounts = known /\ records = known
  /\ currentUser \in accounts \cup {NoUser}
  /\ stack = LoginScreens(currentUser, 1)
  /\ conn = IF currentUser = NoUser THEN "idle" ELSE "disconnected"
  /\ calls = {} /\ main = <<>> /\ posts = {}
  /\ fetch = None /\ authToken = [user |-> NoUser, session |-> 0]
  /\ puts = <<>> /\ reads = <<>> /\ wire = <<>> /\ cred = NoUser
  /\ address \in BOOLEAN
  /\ diaries = [u \in Users |-> [d \in Days |-> None]]
  /\ today = 1
  /\ strayed = FALSE /\ hurried = FALSE /\ overtaken = FALSE /\ gone = {}
  /\ used = [what \in Events |-> 0]

User ==
  \/ \E g \in Goes : ButtonClicked(g[1], g[2])
  \/ Back \/ LoginButtonClick \/ RegisterButtonClick \/ DeleteUserClicked \/ LogoutClicked
  \/ SaveButtonClicked \/ SaveOnCalendarDiary

Services ==
  \/ \E c \in calls : CallSucceeds(c) \/ CallFails(c)
  \/ \E p \in posts : AnalysisAnswered(p) \/ AnalysisFails(p)
  \/ Midnight

Client ==
  \/ Retry \/ TokenIsLookedUp \/ TokenIsRefreshed \/ OnReady \/ ConnectionLost \/ ReadTimesOut
  \/ MainQueue

Server == ServeAuth \/ ServePut \/ ServeGet

Next == User \/ Services \/ Client \/ Server \/ Die \/ Launch

Spec == Init /\ [][Next]_vars

-----------------------------------------------------------------------------
\* Properties

IsScreen(s) ==
  /\ s.kind \in {"login", "register", "home", "mypage", "plus", "image", "calendar", "diary"}
  /\ s.uid \in Users \cup {NoUser}
  /\ s.kind = "diary" => s.about \in 1..today
  /\ s.found # None => IF s.kind = "calendar" THEN s.found \subseteq Days ELSE s.found \in Nat

\* The variables have their types, and a running app has a screen.
TypeOK ==
  /\ up \in {"running", "trapped", "dead"}
  /\ up # "dead" => stack # <<>>
  /\ \A i \in DOMAIN stack : IsScreen(stack[i])
  /\ currentUser \in Users \cup {NoUser} /\ session \in Nat
  /\ conn \in {"idle", "disconnected", "gettingToken", "connecting", "authenticating", "connected"}
  /\ (fetch # None) = (conn = "gettingToken")
  /\ {authToken.user, cred} \subseteq Users \cup {NoUser}
  /\ \A p \in Range(puts) : p.uid \in Users /\ p.path \in {"Users", "diary"}
  /\ \A r \in Range(reads) : r.uid \in Users
  /\ wire # <<>> => conn \in {"authenticating", "connected"}
  /\ {accounts, records, gone} \subseteq SUBSET Users
  /\ diaries \in [Users -> [Days -> Nat \cup {None}]]
  /\ today \in Days /\ {address, strayed, hurried, overtaken} \subseteq BOOLEAN

Settled == calls = {} /\ \A b \in Range(main) : b.kind = "token"

\* Screens keep the uid they found when they loaded, and stay on the stack when
\* the user logs out or the account goes. Still the screen in front is the
\* current user's, unless the user has gone back from the login screen, has left
\* a screen while its call was under way or has made two calls at once.
ScreensActForTheirUser ==
  up = "running" /\ Settled /\ ~strayed /\ ~hurried /\ Top.kind \in {"mypage", "plus", "image", "calendar", "diary"}
    => Top.uid = currentUser

\* A user who makes one call at a time, waits for it and does not go back from the
\* login screen never makes the app unwrap a nil uid; a level stays nil only beyond the last bound
\* of setTreeLevel.
TrapsAreExplained ==
  /\ cause = "no user" => strayed \/ hurried
  /\ cause = "level" => \E u \in Users : DiaryUsage(u) > MostDiaries
  /\ cause = "address" => ~address

\* However late an analysis comes, and however often Save was pressed: a result
\* is shown above the writing screen it belongs to, once for each save.
ResultsAnswerTheirSave ==
  \A i \in DOMAIN stack : stack[i].kind = "image" =>
    /\ \E j \in 1..(i - 1) :
         stack[j].kind = "plus" /\ (stack[j].uid = stack[i].uid \/ hurried \/ strayed)
    /\ \A j \in DOMAIN stack : stack[j].kind = "image" /\ stack[j].about = stack[i].about => j = i

\* The picture of a result is chosen by a count read after the save it answers:
\* when it is shown the diary has left the queue, through reconnections too.
PicturesCountTheirDiary ==
  \A s \in Range(stack) : s.kind = "image" /\ s.found # None =>
    ~ \E p \in Range(puts) : p.path = "diary" /\ p.value = s.about

\* A calendar that has read its dates misses only diaries saved since it loaded.
MarksMissOnlyLaterDiaries ==
  \A s \in Range(stack) : s.kind = "calendar" /\ s.found # None =>
    \A d \in Days : diaries[s.uid][d] # None /\ d \notin s.found => diaries[s.uid][d] > s.asOf

\* A diary is dropped from the queue of writes only when the database has it,
\* when it was refused, or when the process died ("save success" is printed
\* before any of these).
DiariesLeaveTheQueueStored ==
  [][\A p \in Range(puts) : p.path = "diary" /\ p \notin Range(puts') =>
        \/ diaries'[p.uid][p.day] = p.value
        \/ cred # p.uid /\ wire # <<>> /\ Head(wire) = PutRequest(p)
        \/ up' = "dead"]_vars

\* A write for the user of its moment, of whom the client has been told, is refused
\* only if the session changed before it was sent, as when a diary is saved offline
\* and the user logs out, or if an old token overtook a newer one. Others are
\* refused to those who strayed or made two calls at once, and to whoever deleted
\* the account.
RefusalsAreExplained ==
  wire # <<>> /\ Head(wire).kind = "put" /\ Head(wire).put.uid # cred =>
    LET p == Head(wire).put
    IN  IF p.own THEN p.session # session \/ overtaken
                 ELSE strayed \/ hurried \/ (p.path = "Users" /\ p.value = None)

\* Once the changes of the user are announced, a connection carries the current
\* user's token and the server takes it for that user, unless the token of an
\* attempt arrived after the one that should have replaced it.
TokenIsOfTheUser ==
  /\ conn \in {"connecting", "authenticating", "connected"} /\ ~overtaken
       /\ Announced
     => authToken.user = currentUser
  /\ conn = "connected" /\ (\A q \in Range(wire) : q.kind # "auth") => cred = authToken.user

\* An account without its record in Users, or a record without its account: the
\* write that ends it is still to come, was refused, died with the process or was
\* never made because nobody was logged in by then, or two calls were under way at
\* once and the first wrote for the wrong user.
RecordsFollowAccounts ==
  \A u \in Users : (u \in accounts) # (u \in records) =>
    \/ u \in gone \/ hurried
    \/ \E p \in Range(puts) : p.path = "Users" /\ p.uid = u
    \/ \E c \in calls \cup Range(main) : c.kind \in {"createUser", "delete"} /\ c.user = u
=============================================================================
