------------------------------- MODULE Browser -------------------------------
(***************************************************************************)
(* The report page of today in a browser, its script, and the handlers of  *)
(* internal/ui/reportwindow.go it talks to.  A page is a snapshot the      *)
(* server took when it was loaded; its script then changes it by the       *)
(* answers to its requests, which may fail, get lost or come late, while   *)
(* other tabs write notes and delete the day.                              *)
(*                                                                         *)
(* A card stands for a finished session; that and its id are all that is   *)
(* needed of it here.  Reloading abandons the requests of the old page:    *)
(* the server may still handle one that was on its way.                    *)
(***************************************************************************)
EXTENDS Integers, FiniteSets, Functions

CONSTANTS
    Texts,     \* what the user may type, but for U+FEFF and U+0085 at an end:
               \* Go's TrimSpace and the script's trim differ on those
    Empty,     \* ... nothing
    Blank,     \* ... white space only
    TooLong,   \* ... more than 4096 bytes
    MaxId,     \* bound on the sessions of the day
    MaxLive,   \* bound on the changes of the live session
    MaxPolls,  \* bound on the answers to polls under way
    MaxStrays  \* bound on the posts of pages that are gone

ASSUME BrowserAssumption ==
    /\ {Empty, Blank, TooLong} \subseteq Texts /\ Empty # TooLong
    /\ {MaxId, MaxLive, MaxPolls, MaxStrays} \subseteq Nat

Trim(text) == IF text = Blank THEN Empty ELSE text

Notes == {Trim(text) : text \in Texts} \ {TooLong}

NONE == -1

VARIABLES
    rows,     \* the table: id -> note, for today's finished sessions
    next,     \* the id the next session will have
    live,     \* what CurrentSession returns
    stage,    \* the page: "asked" or "shown"
    cards,    \* id -> [mode, note, text]: what a card shows, and its text area
    badge,    \* ids whose segment of the day strip is marked has-note
    mdText,   \* id -> note: the markdown the page was loaded with
    strays,   \* notes posted by a page that is gone: [id, text]
    deleting, \* deleteDay's request: "none", "sent" or "ok"
    widget,   \* the session the live-session element shows
    timer,    \* setTimeout(poll, 5000) is pending
    answers,  \* polls answered by the server, not yet by the page
    held,     \* id -> notes the row has held since the page was asked for
    edited    \* ids whose card was saved on this page (history, like held)

tableVars == <<rows, next, held>>
pageVars == <<stage, cards, badge, mdText, edited>>
netVars == <<strays, deleting>>
liveVars == <<live, widget, timer, answers>>
vars == <<tableVars, pageVars, netVars, liveVars>>

Ids == 1 .. MaxId

\* A card shows its note, an editor, or an editor whose Save is disabled; then
\* text is what was posted, and the request is under way ("saving") or answered.
Shows(note) == [mode |-> "note", note |-> note, text |-> Empty]
Busy == {"saving", "saved", "refused"}

NoFunction == [id \in {} |-> Empty]

Init ==
    /\ rows = NoFunction /\ next = 1 /\ held = [id \in Ids |-> {}]
    /\ stage = "asked"
    /\ cards = NoFunction /\ badge = {} /\ mdText = NoFunction /\ edited = {}
    /\ strays = {} /\ deleting = "none"
    /\ live = 0 /\ widget = NONE /\ timer = FALSE /\ answers = {}

-----------------------------------------------------------------------------
(* The rest of the program, and the other tabs                             *)

\* The table after a statement, and what each row has held since the load.
Store(table) ==
    /\ rows' = table
    /\ held' = [id \in Ids |-> held[id] \cup {table[i] : i \in {id} \cap DOMAIN table}]

Record ==
    /\ next <= MaxId
    /\ next' = next + 1
    /\ Store([id \in DOMAIN rows \cup {next} |->
                IF id = next THEN Empty ELSE rows[id]])
    /\ UNCHANGED <<pageVars, netVars, liveVars>>

OtherTabSaves ==
    /\ \E id \in DOMAIN rows, note \in Notes : Store([rows EXCEPT ![id] = note])
    /\ UNCHANGED <<next, pageVars, netVars, liveVars>>

OtherTabDeletes ==
    /\ rows # NoFunction
    /\ Store(NoFunction)
    /\ UNCHANGED <<next, pageVars, netVars, liveVars>>

SwitchContext ==
    /\ live < MaxLive
    /\ live' = live + 1
    /\ UNCHANGED <<tableVars, pageVars, netVars, widget, timer, answers>>

-----------------------------------------------------------------------------
(* GET /report                                                             *)

HandleReport_ReadsAgain ==
    /\ stage = "asked"
    /\ stage' = "shown"
    /\ cards' = [id \in DOMAIN rows |-> Shows(rows[id])]
    /\ badge' = {id \in DOMAIN rows : rows[id] # Empty}
    /\ \E table \in [DOMAIN rows -> Notes] :
        /\ \A id \in DOMAIN rows : table[id] \in held[id]
        /\ mdText' = table
    /\ timer' = TRUE
    /\ UNCHANGED <<tableVars, edited, netVars, live, widget, answers>>

\* SessionsForDay is read once, for the cards and the markdown; the days of the
\* sidebar come from a read before it and are left out.  The script starts, and
\* polls at once.
HandleReport ==
    /\ stage = "asked"
    /\ stage' = "shown"
    /\ cards' = [id \in DOMAIN rows |-> Shows(rows[id])]
    /\ badge' = {id \in DOMAIN rows : rows[id] # Empty}
    /\ mdText' = rows
    /\ timer' = TRUE
    /\ UNCHANGED <<tableVars, edited, netVars, live, widget, answers>>

\* The posts a page leaves behind: the server may still handle them, or never.
\* At most MaxStrays are remembered, which is to say that the others never are.
Abandoned == {[id |-> id, text |-> cards[id].text] :
                 id \in {i \in DOMAIN cards : cards[i].mode = "saving"}}

Navigate ==
    /\ stage' = "asked"
    /\ cards' = NoFunction /\ badge' = {} /\ mdText' = NoFunction /\ edited' = {}
    /\ strays' \in {posts \in SUBSET (strays \cup Abandoned) :
                       Cardinality(posts) <= MaxStrays}
    /\ deleting' = "none"
    /\ widget' = NONE /\ timer' = FALSE /\ answers' = {}
    /\ held' = [id \in Ids |-> {rows[i] : i \in {id} \cap DOMAIN rows}]
    /\ UNCHANGED <<rows, next, live>>

Reload == stage = "shown" /\ Navigate

-----------------------------------------------------------------------------
(* Notes: the script                                                       *)

Card(id, mode) == stage = "shown" /\ id \in DOMAIN cards /\ cards[id].mode = mode

OnlyCard(id, card) ==
    /\ cards' = [cards EXCEPT ![id] = card]
    /\ UNCHANGED <<tableVars, stage, mdText, netVars, liveVars>>

EditNote(id) ==
    /\ Card(id, "note")
    /\ OnlyCard(id, [cards[id] EXCEPT !.mode = "edit", !.text = cards[id].note])
    /\ UNCHANGED <<badge, edited>>

Type(id) ==
    /\ Card(id, "edit")
    /\ \E text \in Texts : OnlyCard(id, [cards[id] EXCEPT !.text = text])
    /\ UNCHANGED <<badge, edited>>

\* cancelNote reloads the page, and with it every other card.
CancelNote(id) == (\E mode \in {"edit"} \cup Busy : Card(id, mode)) /\ Navigate

SaveNote(id) ==
    /\ Card(id, "edit")
    /\ OnlyCard(id, [cards[id] EXCEPT !.mode = "saving"])
    /\ UNCHANGED <<badge, edited>>

Saved_KeepsBadge(id) ==
    /\ Card(id, "saved")
    /\ OnlyCard(id, Shows(Trim(cards[id].text)))
    /\ edited' = edited \cup {id}
    /\ badge' = badge

\* The answer was ok: the editor is replaced by what was posted.
Saved(id) ==
    /\ Card(id, "saved")
    /\ OnlyCard(id, Shows(Trim(cards[id].text)))
    /\ edited' = edited \cup {id}
    /\ badge' = IF Trim(cards[id].text) = Empty THEN badge \ {id}
                                                  ELSE badge \cup {id}

SaveFailed_StaysDisabled(id) ==
    /\ Card(id, "refused")
    /\ OnlyCard(id, cards[id])
    /\ UNCHANGED <<badge, edited>>

\* Any other answer, or none: Save is enabled again.  The text area always was:
\* what it holds now may have been typed meanwhile.
SaveFailed(id) ==
    /\ Card(id, "refused")
    /\ \E text \in Texts :
        OnlyCard(id, [cards[id] EXCEPT !.mode = "edit", !.text = text])
    /\ UNCHANGED <<badge, edited>>

-----------------------------------------------------------------------------
(* Notes: POST /api/session/note                                           *)

\* 413 for a long text, 500 for a row that is gone, 500 for a failing store.
Accepted(id, text) == text # TooLong /\ id \in DOMAIN rows

SetSessionNote(id, text) == Store([rows EXCEPT ![id] = Trim(text)])

HandleSessionNote_MissingRowOk(id) ==
    /\ Card(id, "saving") /\ cards[id].text # TooLong
    /\ IF id \in DOMAIN rows THEN SetSessionNote(id, cards[id].text)
                             ELSE UNCHANGED <<rows, held>>
    /\ cards' = [cards EXCEPT ![id].mode = "saved"]
    /\ UNCHANGED <<next, stage, badge, mdText, edited, netVars, liveVars>>

HandleSessionNote(id) ==
    /\ Card(id, "saving")
    /\ Accepted(id, cards[id].text)
    /\ SetSessionNote(id, cards[id].text)
    /\ cards' = [cards EXCEPT ![id].mode = "saved"]
    /\ UNCHANGED <<next, stage, badge, mdText, edited, netVars, liveVars>>

\* The handler refuses, the store fails, or the request or its answer is lost,
\* perhaps after the note was stored.
NoteRequestFails(id) ==
    /\ Card(id, "saving")
    /\ \/ UNCHANGED <<rows, held>>
       \/ Accepted(id, cards[id].text) /\ SetSessionNote(id, cards[id].text)
    /\ cards' = [cards EXCEPT ![id].mode = "refused"]
    /\ UNCHANGED <<next, stage, badge, mdText, edited, netVars, liveVars>>

\* A request of a page that is gone is handled after all, or is not.
HandleStray ==
    /\ \E post \in strays :
        /\ strays' = strays \ {post}
        /\ \/ UNCHANGED <<rows, held>>
           \/ Accepted(post.id, post.text) /\ SetSessionNote(post.id, post.text)
    /\ UNCHANGED <<next, pageVars, deleting, liveVars>>

-----------------------------------------------------------------------------
(* Delete day                                                              *)

DeleteDay ==
    /\ stage = "shown" /\ deleting = "none"
    /\ deleting' = "sent"
    /\ UNCHANGED <<tableVars, pageVars, strays, liveVars>>

\* A failure is an alert, or nothing; either way the page stays as it is.
HandleDelete ==
    /\ deleting = "sent"
    /\ \/ Store(NoFunction) /\ deleting' = "ok"
       \/ UNCHANGED <<rows, held>> /\ deleting' = "none"
    /\ UNCHANGED <<next, pageVars, strays, liveVars>>

\* window.location = '/', which redirects to the newest day there is.
Deleted == deleting = "ok" /\ Navigate

-----------------------------------------------------------------------------
(* The live session: poll, and GET /api/session/current                    *)

Poll_AfterAnswer ==
    /\ stage = "shown" /\ timer
    /\ Cardinality(answers) < MaxPolls
    /\ answers' = answers \cup {live}
    /\ timer' = FALSE
    /\ UNCHANGED <<tableVars, pageVars, netVars, live, widget>>

\* The timer is set again at once, whatever becomes of the request.  What the
\* handler answers is what is live when it runs.
Poll ==
    /\ stage = "shown" /\ timer
    /\ Cardinality(answers) < MaxPolls
    /\ answers' = answers \cup {live}
    /\ timer' = TRUE
    /\ UNCHANGED <<tableVars, pageVars, netVars, live, widget>>

\* Answers are shown in the order they come in, which need not be the order
\* they were asked for.
ShowLive(session) ==
    /\ session \in answers
    /\ answers' = answers \ {session} /\ widget' = session
    /\ timer' = TRUE
    /\ UNCHANGED <<tableVars, pageVars, netVars, live>>

\* catch(function(){})
PollFails ==
    /\ \E session \in answers : answers' = answers \ {session}
    /\ UNCHANGED <<tableVars, pageVars, netVars, live, widget, timer>>

-----------------------------------------------------------------------------
Server(id) == HandleSessionNote(id) \/ NoteRequestFails(id)
Answer(id) == Saved(id) \/ SaveFailed(id)
Script(id) == EditNote(id) \/ Type(id) \/ CancelNote(id) \/ SaveNote(id)

Others == Record \/ OtherTabSaves \/ OtherTabDeletes \/ SwitchContext
Load == HandleReport \/ Reload
Deletion == DeleteDay \/ HandleDelete \/ Deleted
Live == Poll \/ PollFails \/ \E session \in 0 .. MaxLive : ShowLive(session)

Next == \/ Others \/ Load \/ HandleStray \/ Deletion \/ Live
        \/ \E id \in Ids : Script(id) \/ Server(id) \/ Answer(id)

\* The server handles a request or the browser gives it up, and tells the
\* script; the browser runs its timers; on the loopback interface a request
\* that is made again and again is answered in the end.  Nothing is assumed of
\* the user and of other tabs.
Spec == /\ Init /\ [][Next]_vars
        /\ \A id \in Ids : WF_vars(Server(id)) /\ WF_vars(Answer(id))
        /\ WF_vars(Poll)
        /\ \A session \in 0 .. MaxLive : SF_vars(ShowLive(session))

-----------------------------------------------------------------------------
\* Every variable stays in its type (reportwindow.go:103-223, 664-796).
BrowserTypeOK ==
    /\ DOMAIN rows \subseteq Ids /\ Range(rows) \subseteq Notes
    /\ next \in 1 .. MaxId + 1
    /\ stage \in {"asked", "shown"}
    /\ DOMAIN cards \subseteq Ids
    /\ Range(cards) \subseteq [mode : {"note", "edit"} \cup Busy, note : Notes,
                               text : Texts]
    /\ badge \subseteq Ids /\ edited \subseteq Ids
    /\ DOMAIN mdText \subseteq Ids /\ Range(mdText) \subseteq Notes
    /\ strays \subseteq [id : Ids, text : Texts]
    /\ deleting \in {"none", "sent", "ok"}
    /\ live \in 0 .. MaxLive /\ widget \in {NONE} \cup 0 .. MaxLive
    /\ timer \in BOOLEAN /\ answers \subseteq 0 .. MaxLive

\* A card never shows a note its session did not have at some time since the
\* page was asked for: not one the server refused, nor one whose session was
\* deleted under the page (reportwindow.go:730-755; sqlite.go:268-279).
ShownWasStored ==
    \A id \in DOMAIN cards : cards[id].mode = "note" => cards[id].note \in held[id]

\* What is copied for the AI says of every session what its card says, but for
\* the cards saved on this page: both come from one read, and other tabs write
\* all the while (reportwindow.go:109-117, 656).
CopyMatchesCards ==
    stage = "shown" =>
        /\ DOMAIN mdText = DOMAIN cards
        /\ \A id \in DOMAIN cards \ edited :
            cards[id].mode = "note" => mdText[id] = cards[id].note

\* The strip is marked where the card shows a note: the template decides by the
\* stored note and the script by the trimmed text, so the server must trim too
\* (reportwindow.go:199, 742-749; timeline.go:265-316).
BadgesAgree ==
    \A id \in DOMAIN cards :
        cards[id].mode = "note" => (id \in badge <=> cards[id].note # Empty)

\* Save ends: the button is enabled again or the editor is gone, whatever the
\* server answers and if it does not (reportwindow.go:730-755).
SaveEnds ==
    \A id \in Ids : Card(id, "saving") ~> \A mode \in Busy : ~Card(id, mode)

\* The live session is shown in the end, if it stays and so does the page,
\* although answers come out of order and some never (reportwindow.go:127-155,
\* 783-796).
WidgetConverges ==
    \A session \in 0 .. MaxLive :
        stage = "shown" /\ live = session
            ~> widget = session \/ live # session \/ stage # "shown"
=============================================================================
