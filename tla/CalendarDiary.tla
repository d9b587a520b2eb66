---------------------------- MODULE CalendarDiary ---------------------------
(***************************************************************************)
(* CalendarDiaryViewController: one screen that shows the diary of a date, *)
(* lets the user edit and save it, and moves to the day before or after.   *)
(*                                                                         *)
(* The screen runs on the main queue.  A save is handed to the database    *)
(* client and forgotten; a read is answered by a callback that comes back  *)
(* to the main queue later, after any number of other events, and writes   *)
(* the text view without looking at the date shown by then.                *)
(*                                                                         *)
(* The database client is the one of RealtimeClient seen from the app:     *)
(* requests are served and answered in order; the read of a date with a    *)
(* save pending is answered from the client's own queue at once; with the  *)
(* connection, the reads sent on it are lost and the saves are sent again. *)
(***************************************************************************)
EXTENDS DiaryDates, SequencesExt

CONSTANTS
    Picked,       \* days the calendar opens this screen on
    Keys,         \* keys the two buttons may reach (bound on the walk)
    Texts,        \* what a user writes
    Placeholder,  \* the text of placeholderSetting
    Blank,        \* the empty text
    NoDiary,      \* there is nothing under a key
    MaxReads,     \* bound on readDiary calls
    MaxSaves,     \* bound on saves
    MaxFaults     \* bound on lost connections, failed reads, refused saves

ASSUME KeysAssumption ==
    /\ Picked \subseteq Keys
    /\ \A d \in Picked : IsDate(d)

VARIABLES
    date,       \* the date shown, the key of reads and saves
    text,       \* diaryTextView.text
    textColor,  \* diaryTextView.textColor
    editing,    \* the text view is the first responder
    requests,   \* reads and saves of the client, in order
    served,     \* how many of them the server has dealt with
    callbacks,  \* completion blocks of reads waiting in the main queue
    diary,      \* diary/<uid> in the database
    \* history
    about,      \* the date the text on the screen was written for
    touched,    \* the user edited, or saved during the read, since the last move
    overtaken,  \* the last move was answered locally before an earlier read
    failed,     \* a fault may still bear on what the last move shows
    hurried,    \* some move or save was made while a read was outstanding
    reads, saves, faults

screenVars == <<date, text, textColor, editing, about>>
clientVars == <<requests, served, callbacks>>
historyVars == <<touched, overtaken, failed, hurried>>
boundVars == <<reads, saves, faults>>
vars == <<date, text, textColor, editing, requests, served, callbacks, diary,
          about, touched, overtaken, failed, hurried, reads, saves, faults>>

-----------------------------------------------------------------------------
AllTexts == Texts \cup {Placeholder, Blank}
Entries == [text : AllTexts, about : Keys]
Entry(t, d) == [text |-> t, about |-> d]

ASSUME NoDiaryAssumption == NoDiary \notin Entries

Requests == [kind : {"read", "save"}, date : Keys, entry : Entries \cup {NoDiary}]
Callbacks == [date : Keys, status : {"answer", "error"},
              entry : Entries \cup {NoDiary}]

IsRead(r) == r.kind = "read"
IsSave(r) == r.kind = "save"

\* Places of the outstanding saves of a date, served or not.
PendingSaves(d) ==
    {n \in 1..Len(requests) : IsSave(requests[n]) /\ requests[n].date = d}

\* What the client holds for a date: its newest save, or what is stored.
Latest(d) ==
    IF PendingSaves(d) # {} THEN requests[Max(PendingSaves(d))].entry
    ELSE diary[d]

ReadOutstanding == \E n \in 1..Len(requests) : IsRead(requests[n])

\* readDiary was called and its completion has not run.
Reading == ReadOutstanding \/ callbacks # <<>>

TypeOK ==
    /\ date \in Keys
    /\ about \in Keys
    /\ text \in AllTexts
    /\ textColor \in {"black", "lightGray"}
    /\ editing \in BOOLEAN
    /\ requests \in Seq(Requests)
    /\ served \in 0..Len(requests)
    /\ callbacks \in Seq(Callbacks)
    /\ diary \in [Keys -> Entries \cup {NoDiary}]
    /\ {touched, overtaken, failed, hurried} \subseteq BOOLEAN
    /\ \A n \in 1..Len(requests) :
          IsSave(requests[n]) => requests[n].entry # NoDiary

\* viewDidLoad on a picked day: the placeholder, and the first read.  The
\* database holds diaries under some of the days.
Init ==
    /\ date \in Picked
    /\ text = Placeholder
    /\ textColor = "lightGray"
    /\ editing = FALSE
    /\ requests = <<[kind |-> "read", date |-> date, entry |-> NoDiary]>>
    /\ served = 0
    /\ callbacks = <<>>
    /\ diary \in {f \in [Keys -> {NoDiary} \cup Entries] :
                    \A d \in Keys : f[d] # NoDiary =>
                       IsDate(d) /\ f[d].about = d /\ f[d].text \in Texts}
    /\ about = date
    /\ touched = FALSE
    /\ overtaken = FALSE
    /\ failed = FALSE
    /\ hurried = FALSE
    /\ reads = 1
    /\ saves = 0
    /\ faults = 0

-----------------------------------------------------------------------------
(* The buttons and the text view                                           *)

\* readDiary: answered at once from a pending save, or asked of the server.
ReadDiary(d) ==
    /\ reads < MaxReads
    /\ reads' = reads + 1
    /\ IF PendingSaves(d) # {}
       THEN /\ callbacks' = Append(callbacks,
                  [date |-> d, status |-> "answer", entry |-> Latest(d)])
            /\ UNCHANGED requests
       ELSE /\ requests' = Append(requests,
                  [kind |-> "read", date |-> d, entry |-> NoDiary])
            /\ UNCHANGED callbacks
    /\ UNCHANGED served

\* Both buttons: the date moves, the text stays until the read is answered.
MoveTo(d) ==
    /\ d \in Keys
    /\ date' = d
    /\ ReadDiary(d)
    /\ touched' = FALSE
    /\ overtaken' = (PendingSaves(d) # {} /\ ReadOutstanding)
    /\ failed' = (failed /\ \E n \in 1..Len(requests) : IsSave(requests[n]))
    /\ hurried' = (hurried \/ Reading)
    /\ UNCHANGED <<text, textColor, editing, about, diary, saves, faults>>

BeforeDiaryButtonClicked == MoveTo(Before(date))
AfterDiaryButtonClicked == MoveTo(After(date))

\* Both save buttons: whatever the text view shows, under the date shown.
SaveButtonClicked ==
    /\ saves < MaxSaves
    /\ saves' = saves + 1
    /\ requests' = Append(requests,
           [kind |-> "save", date |-> date, entry |-> Entry(text, about)])
    /\ touched' = (touched \/ Reading)
    /\ hurried' = (hurried \/ Reading)
    /\ UNCHANGED <<screenVars, served, callbacks, diary, overtaken, failed,
                   reads, faults>>

\* A grey text is taken for the placeholder and cleared.
TextViewDidBeginEditing ==
    /\ ~editing
    /\ editing' = TRUE
    /\ IF textColor = "lightGray"
       THEN text' = Blank /\ textColor' = "black" /\ about' = date
       ELSE UNCHANGED <<text, textColor, about>>
    /\ touched' = TRUE
    /\ UNCHANGED <<date, clientVars, diary, overtaken, failed, hurried,
                   boundVars>>

Type ==
    /\ editing
    /\ text' \in Texts \cup {Blank}
    /\ about' = date
    /\ touched' = TRUE
    /\ UNCHANGED <<date, textColor, editing, clientVars, diary, overtaken,
                   failed, hurried, boundVars>>

TextViewDidEndEditing ==
    /\ editing
    /\ editing' = FALSE
    /\ IF text = Blank
       THEN text' = Placeholder /\ textColor' = "lightGray" /\ about' = date
       ELSE UNCHANGED <<text, textColor, about>>
    /\ touched' = TRUE
    /\ UNCHANGED <<date, clientVars, diary, overtaken, failed, hurried,
                   boundVars>>

-----------------------------------------------------------------------------
(* The completion block of readDiary                                       *)

\* Mutant: the placeholder is set only when the screen is loaded.
KeepTextWhenNoDiary(c) == UNCHANGED <<text, textColor, about>>

\* placeholderSetting, when there is no data.
PlaceholderSetting(c) ==
    /\ text' = Placeholder
    /\ textColor' = "lightGray"
    /\ about' = c.date

\* An error is only printed.
ReadAnswered ==
    /\ callbacks # <<>>
    /\ callbacks' = Tail(callbacks)
    /\ LET c == Head(callbacks)
       IN  CASE c.status = "error" -> UNCHANGED <<text, textColor, about>>
             [] c.status = "answer" /\ c.entry = NoDiary -> PlaceholderSetting(c)
             [] OTHER -> /\ text' = c.entry.text
                         /\ textColor' = "black"
                         /\ about' = c.entry.about
    /\ UNCHANGED <<date, editing, requests, served, diary, historyVars,
                   boundVars>>

-----------------------------------------------------------------------------
(* The database client and the server                                      *)

NextRequest == requests[served + 1]

SavePlaces == {n \in 1..Len(requests) : IsSave(requests[n])}

\* The saves are left, in their order.
ReadsAreLost ==
    \E p \in [1..Cardinality(SavePlaces) -> SavePlaces] :
        /\ \A j, k \in DOMAIN p : j < k => p[j] < p[k]
        /\ requests' = [n \in DOMAIN p |-> requests[p[n]]]

\* The server deals with the next request: stores the entry or reads it.
ServerServes ==
    /\ served < Len(requests)
    /\ served' = served + 1
    /\ IF IsSave(NextRequest)
       THEN /\ diary' = [diary EXCEPT ![NextRequest.date] = NextRequest.entry]
            /\ UNCHANGED requests
       ELSE /\ requests' = [requests EXCEPT
                  ![served + 1].entry = diary[NextRequest.date]]
            /\ UNCHANGED diary
    /\ UNCHANGED <<screenVars, callbacks, historyVars, boundVars>>

\* The answer of the oldest request reaches the client; that of a read is
\* handed to the main queue, that of a save has no callback.
ResponseArrives ==
    /\ served > 0
    /\ served' = served - 1
    /\ requests' = Tail(requests)
    /\ LET r == Head(requests)
       IN  callbacks' = IF IsRead(r)
                        THEN Append(callbacks, [date |-> r.date,
                                status |-> "answer", entry |-> r.entry])
                        ELSE callbacks
    /\ UNCHANGED <<screenVars, diary, historyVars, boundVars>>

Fault ==
    /\ faults < MaxFaults
    /\ faults' = faults + 1
    /\ failed' = TRUE

\* The server refuses a save, whose entry the client has shown meanwhile.
SaveIsRefused ==
    /\ served < Len(requests)
    /\ IsSave(NextRequest)
    /\ served' = served + 1
    /\ Fault
    /\ UNCHANGED <<screenVars, requests, callbacks, diary, touched, overtaken,
                   hurried, reads, saves>>

\* The server refuses a read, or the offline timer ends it.
ReadFails ==
    /\ \E n \in served + 1 .. Len(requests) :
         /\ IsRead(requests[n])
         /\ requests' = RemoveAt(requests, n)
         /\ callbacks' = Append(callbacks, [date |-> requests[n].date,
                             status |-> "error", entry |-> NoDiary])
    /\ Fault
    /\ UNCHANGED <<screenVars, served, diary, touched, overtaken, hurried,
                   reads, saves>>

\* Mutant: the answers on the way are still expected.
ForgetReadsOnly ==
    /\ requests # <<>>
    /\ ReadsAreLost
    /\ Fault
    /\ UNCHANGED <<screenVars, served, callbacks, diary, touched, overtaken,
                   hurried, reads, saves>>

\* The reads on the connection are never answered, the saves start over.
ConnectionLost ==
    /\ requests # <<>>
    /\ ReadsAreLost
    /\ served' = 0
    /\ Fault
    /\ UNCHANGED <<screenVars, callbacks, diary, touched, overtaken, hurried,
                   reads, saves>>

-----------------------------------------------------------------------------
User ==
    \/ BeforeDiaryButtonClicked
    \/ AfterDiaryButtonClicked
    \/ SaveButtonClicked
    \/ TextViewDidBeginEditing
    \/ Type
    \/ TextViewDidEndEditing

Network ==
    \/ ServerServes
    \/ ResponseArrives
    \/ SaveIsRefused
    \/ ReadFails
    \/ ConnectionLost

Next == User \/ ReadAnswered \/ Network

Spec == Init /\ [][Next]_vars

-----------------------------------------------------------------------------
\* Once the reads have come to rest, the screen shows what the database, or
\* the client's newest save, holds under the date shown, however quickly the
\* user moved: the answers come in the order of the moves, so the last one
\* wins.  Not so after an error or a lost read, after edits, or when the last
\* move was answered locally before an older read.
SettledScreenShowsItsDate ==
    ~Reading /\ ~touched /\ ~overtaken /\ ~failed =>
        Entry(text, about) =
            IF Latest(date) = NoDiary THEN Entry(Placeholder, date)
            ELSE Latest(date)

\* A user who neither moves nor saves while a read is outstanding never saves
\* the diary of one date under another, unless a read fails or is lost: every
\* diary stored or on its way was written for the key it is under.
PatientWriterKeepsDates ==
    ~hurried /\ faults = 0 =>
        /\ \A d \in Keys : diary[d] # NoDiary => diary[d].about = d
        /\ \A n \in 1..Len(requests) :
              IsSave(requests[n]) => requests[n].entry.about = requests[n].date

\* README.md: the diary of the date one wants is read through the calendar.
\* When no read is outstanding, a diary shown belongs to the date shown.
ShownDiaryIsOfShownDate == ~Reading /\ text \in Texts => about = date

=============================================================================
