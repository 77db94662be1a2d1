---------------------------- MODULE BrowserProofs ----------------------------
(***************************************************************************)
(* What the page of today shows, for any number of sessions, texts, other  *)
(* tabs and requests that fail, get lost or outlive their page.            *)
(***************************************************************************)
EXTENDS Browser, TLAPS

CardOf == [mode : {"note", "edit"} \cup Busy, note : Notes, text : Texts]

\* The table, what its rows have held, and what is on its way to it.
TableOK ==
    /\ DOMAIN rows \subseteq Ids /\ rows \in [DOMAIN rows -> Notes]
    /\ next \in 1 .. MaxId + 1
    /\ held \in [Ids -> SUBSET Notes]
    /\ \A id \in DOMAIN rows : rows[id] \in held[id]
    /\ strays \subseteq [id : Ids, text : Texts]

PageOK ==
    /\ stage \in {"asked", "shown"}
    /\ DOMAIN cards \subseteq Ids /\ cards \in [DOMAIN cards -> CardOf]
    /\ badge \subseteq Ids /\ edited \subseteq Ids
    /\ DOMAIN mdText \subseteq Ids /\ mdText \in [DOMAIN mdText -> Notes]

LiveOK ==
    /\ deleting \in {"none", "sent", "ok"}
    /\ live \in 0 .. MaxLive /\ widget \in {NONE} \cup 0 .. MaxLive
    /\ timer \in BOOLEAN /\ answers \subseteq 0 .. MaxLive

\* A note the server said it stored was stored since the page was asked for.
AnsweredWasStored ==
    \A id \in DOMAIN cards :
        cards[id].mode = "saved" => Trim(cards[id].text) \in held[id]

BInv ==
    /\ TableOK /\ PageOK /\ LiveOK
    /\ AnsweredWasStored /\ ShownWasStored /\ CopyMatchesCards /\ BadgesAgree

-----------------------------------------------------------------------------
LEMMA TrimIsNote ==
    ASSUME NEW text \in Texts, text # TooLong
    PROVE  Trim(text) \in Notes
BY BrowserAssumption DEF Trim, Notes

LEMMA EmptyIsNote == Empty \in Notes
BY BrowserAssumption DEF Trim, Notes

\* A statement leaves a table, whose notes its rows have held from then on;
\* what a row has held before it still has (sqlite.go:266-279).
LEMMA StoreKeeps ==
    ASSUME TableOK, NEW table, DOMAIN table \subseteq Ids,
           table \in [DOMAIN table -> Notes], Store(table)
    PROVE  /\ DOMAIN rows' \subseteq Ids /\ rows' \in [DOMAIN rows' -> Notes]
           /\ held' \in [Ids -> SUBSET Notes]
           /\ \A id \in DOMAIN rows' : rows'[id] \in held'[id]
           /\ \A id \in Ids : held[id] \subseteq held'[id]
           /\ rows' = table
<1>1. rows' = table
  BY DEF Store
<1>2. \A id \in Ids :
        held'[id] = held[id] \cup {table[i] : i \in {id} \cap DOMAIN table}
  BY DEF Store
<1>3. held' \in [Ids -> SUBSET Notes]
  <2>1. \A id \in Ids : held'[id] \in SUBSET Notes
    BY <1>2 DEF TableOK
  <2>2. held' = [id \in Ids |-> held'[id]]
    BY DEF Store
  <2> QED BY <2>1, <2>2
<1> QED BY <1>1, <1>2, <1>3

\* A note that is put into a row makes the row hold it.
LEMMA PutNote ==
    ASSUME TableOK, NEW id \in DOMAIN rows, NEW note \in Notes,
           Store([rows EXCEPT ![id] = note]),
           next' = next, strays' \subseteq strays
    PROVE  /\ TableOK'
           /\ note \in held'[id]
           /\ \A k \in Ids : held[k] \subseteq held'[k]
<1> DEFINE table == [rows EXCEPT ![id] = note]
<1>1. DOMAIN table = DOMAIN rows /\ table \in [DOMAIN table -> Notes] /\ table[id] = note
  BY DEF TableOK
<1> HIDE DEF table
<1>2. /\ DOMAIN rows' \subseteq Ids /\ rows' \in [DOMAIN rows' -> Notes]
      /\ held' \in [Ids -> SUBSET Notes]
      /\ \A k \in DOMAIN rows' : rows'[k] \in held'[k]
      /\ \A k \in Ids : held[k] \subseteq held'[k]
      /\ rows' = table
  BY <1>1, StoreKeeps DEF TableOK, table
<1> QED BY <1>1, <1>2 DEF TableOK

\* As long as the script does nothing, what rows hold more disturbs no page.
LEMMA PageStands ==
    ASSUME BInv, UNCHANGED pageVars, \A id \in Ids : held[id] \subseteq held'[id]
    PROVE  /\ PageOK' /\ AnsweredWasStored'
           /\ ShownWasStored' /\ CopyMatchesCards' /\ BadgesAgree'
<1> USE DEF BInv, PageOK, pageVars
<1>1. PageOK'
  OBVIOUS
<1>2. AnsweredWasStored' /\ ShownWasStored'
  BY DEF AnsweredWasStored, ShownWasStored
<1>3. CopyMatchesCards' /\ BadgesAgree'
  BY DEF CopyMatchesCards, BadgesAgree
<1> QED BY <1>1, <1>2, <1>3

\* A page that is asked for has no cards, and rows hold what they hold then.
LEMMA NavigateStep == ASSUME BInv, Navigate PROVE BInv'
<1>1. TableOK'
  <2>1. \A id \in Ids : held'[id] = {rows[i] : i \in {id} \cap DOMAIN rows}
    BY DEF Navigate
  <2>2. held' \in [Ids -> SUBSET Notes]
    <3>1. \A id \in Ids : held'[id] \in SUBSET Notes
      BY <2>1 DEF BInv, TableOK
    <3>2. held' = [id \in Ids |-> held'[id]]
      BY DEF Navigate
    <3> QED BY <3>1, <3>2
  <2>3. \A id \in DOMAIN rows : rows[id] \in held'[id]
    BY <2>1 DEF BInv, TableOK
  <2>4. strays' \subseteq [id : Ids, text : Texts]
    <3>1. Abandoned \subseteq [id : Ids, text : Texts]
      BY DEF Abandoned, BInv, PageOK, CardOf
    <3> QED BY <3>1 DEF Navigate, BInv, TableOK
  <2> QED BY <2>2, <2>3, <2>4 DEF Navigate, BInv, TableOK
<1>2. PageOK'
  BY DEF Navigate, PageOK, NoFunction
<1>3. LiveOK'
  BY DEF Navigate, LiveOK, BInv, NONE
<1>4. cards' = NoFunction /\ stage' = "asked"
  BY DEF Navigate
<1> QED
  BY <1>1, <1>2, <1>3, <1>4 DEF BInv, AnsweredWasStored, ShownWasStored,
                                CopyMatchesCards, BadgesAgree, NoFunction

\* A card that becomes or stays an editor shows no note.
LEMMA EditorStep ==
    ASSUME BInv, NEW id \in DOMAIN cards, NEW card \in CardOf,
           card.mode \notin {"note", "saved"}, OnlyCard(id, card),
           UNCHANGED <<badge, edited>>
    PROVE  BInv'
<1>1. /\ cards' = [cards EXCEPT ![id] = card] /\ DOMAIN cards' = DOMAIN cards
      /\ UNCHANGED <<tableVars, stage, mdText, netVars, liveVars>>
  BY DEF OnlyCard
<1>2. \A k \in DOMAIN cards' : cards'[k] = IF k = id THEN card ELSE cards[k]
  BY <1>1
<1>3. TableOK' /\ LiveOK'
  BY <1>1 DEF BInv, TableOK, LiveOK, tableVars, netVars, liveVars
<1>4. PageOK'
  BY <1>1 DEF BInv, PageOK
<1>5. AnsweredWasStored' /\ ShownWasStored'
  BY <1>1, <1>2 DEF BInv, AnsweredWasStored, ShownWasStored, tableVars
<1>6. CopyMatchesCards' /\ BadgesAgree'
  BY <1>1, <1>2 DEF BInv, CopyMatchesCards, BadgesAgree
<1> QED BY <1>3, <1>4, <1>5, <1>6 DEF BInv

\* The script shows what the server said it stored (reportwindow.go:730-755).
LEMMA SavedStep ==
    ASSUME BInv, NEW id \in Ids, Saved(id)
    PROVE  BInv'
<1> DEFINE note == Trim(cards[id].text)
<1>1. /\ id \in DOMAIN cards /\ cards[id].mode = "saved"
      /\ cards' = [cards EXCEPT ![id] = Shows(note)] /\ DOMAIN cards' = DOMAIN cards
      /\ UNCHANGED <<tableVars, stage, mdText, netVars, liveVars>>
      /\ edited' = edited \cup {id}
      /\ badge' = IF note = Empty THEN badge \ {id} ELSE badge \cup {id}
  BY DEF Saved, OnlyCard, Card
<1>2. note \in held[id] /\ note \in Notes
  BY <1>1 DEF BInv, AnsweredWasStored, TableOK
<1> HIDE DEF note
<1>3. Shows(note) \in CardOf /\ Shows(note).mode = "note" /\ Shows(note).note = note
  BY <1>2, BrowserAssumption DEF Shows, CardOf
<1>4. \A k \in DOMAIN cards' : cards'[k] = IF k = id THEN Shows(note) ELSE cards[k]
  BY <1>1
<1>5. TableOK' /\ LiveOK'
  BY <1>1 DEF BInv, TableOK, LiveOK, tableVars, netVars, liveVars
<1>6. PageOK'
  BY <1>1, <1>3 DEF BInv, PageOK
<1>7. AnsweredWasStored' /\ ShownWasStored'
  BY <1>1, <1>2, <1>3, <1>4 DEF BInv, AnsweredWasStored, ShownWasStored, tableVars
<1>8. CopyMatchesCards'
  BY <1>1, <1>4 DEF BInv, CopyMatchesCards
<1>9. BadgesAgree'
  BY <1>1, <1>3, <1>4 DEF BInv, BadgesAgree
<1> QED BY <1>5, <1>6, <1>7, <1>8, <1>9 DEF BInv

\* A post is answered, or fails, perhaps after its note was stored: the note
\* of an answer that was ok is one the row holds (reportwindow.go:194-223).
LEMMA ServerStep ==
    ASSUME BInv, NEW id \in Ids, Server(id)
    PROVE  BInv'
<1> DEFINE text == cards[id].text
<1>1. /\ id \in DOMAIN cards /\ cards[id].mode = "saving"
      /\ cards[id] \in CardOf /\ text \in Texts
  BY DEF Server, HandleSessionNote, NoteRequestFails, Card, BInv, PageOK, CardOf
<1>2. PICK mode \in {"saved", "refused"} :
        /\ cards' = [cards EXCEPT ![id].mode = mode]
        /\ \/ mode = "refused" /\ UNCHANGED <<rows, held>>
           \/ Accepted(id, text) /\ SetSessionNote(id, text)
  BY DEF Server, HandleSessionNote, NoteRequestFails
<1>3. UNCHANGED <<next, stage, badge, mdText, edited, netVars, liveVars>>
  BY DEF Server, HandleSessionNote, NoteRequestFails
<1>4. /\ TableOK' /\ \A k \in Ids : held[k] \subseteq held'[k]
      /\ mode = "saved" => Trim(text) \in held'[id]
  <2>1. CASE mode = "refused" /\ UNCHANGED <<rows, held>>
    BY <2>1, <1>3 DEF BInv, TableOK, netVars
  <2>2. CASE Accepted(id, text) /\ SetSessionNote(id, text)
    <3>1. id \in DOMAIN rows /\ Trim(text) \in Notes
      BY <1>1, <2>2, TrimIsNote DEF Accepted
    <3>2. Store([rows EXCEPT ![id] = Trim(text)])
      BY <2>2 DEF SetSessionNote
    <3>3. next' = next /\ strays' \subseteq strays
      BY <1>3 DEF netVars
    <3> HIDE DEF text
    <3> QED BY <3>1, <3>2, <3>3, PutNote DEF BInv
  <2> QED BY <1>2, <2>1, <2>2
<1>5. /\ DOMAIN cards' = DOMAIN cards /\ cards' \in [DOMAIN cards -> CardOf]
      /\ \A k \in DOMAIN cards \ {id} : cards'[k] = cards[k]
      /\ cards'[id].mode = mode /\ cards'[id].text = text
  BY <1>1, <1>2 DEF BInv, PageOK, CardOf, Busy
<1>6. LiveOK' /\ PageOK'
  BY <1>3, <1>5 DEF BInv, PageOK, LiveOK, netVars, liveVars
<1>7. DOMAIN cards \subseteq Ids
  BY DEF BInv, PageOK
<1>8. AnsweredWasStored'
  BY <1>4, <1>5, <1>7 DEF BInv, AnsweredWasStored
<1>9. ShownWasStored'
  BY <1>4, <1>5, <1>7 DEF BInv, ShownWasStored
<1>10. CopyMatchesCards' /\ BadgesAgree'
  BY <1>3, <1>5 DEF BInv, CopyMatchesCards, BadgesAgree
<1> QED BY <1>4, <1>6, <1>8, <1>9, <1>10 DEF BInv

\* The rest of the program and other tabs change the table only.
LEMMA OthersStep == ASSUME BInv, Others PROVE BInv'
<1>1. CASE Record
  <2> DEFINE table == [id \in DOMAIN rows \cup {next} |->
                          IF id = next THEN Empty ELSE rows[id]]
  <2>1. Store(table) /\ next <= MaxId /\ next' = next + 1
        /\ UNCHANGED <<pageVars, netVars, liveVars>>
    BY <1>1 DEF Record
  <2>2. DOMAIN table \subseteq Ids /\ table \in [DOMAIN table -> Notes]
    BY <2>1, EmptyIsNote, BrowserAssumption DEF BInv, TableOK, Ids
  <2> HIDE DEF table
  <2>3. TableOK' /\ \A id \in Ids : held[id] \subseteq held'[id]
    BY <2>1, <2>2, StoreKeeps, BrowserAssumption DEF BInv, TableOK, netVars
  <2>4. LiveOK'
    BY <2>1 DEF BInv, LiveOK, netVars, liveVars
  <2> QED BY <2>1, <2>3, <2>4, PageStands DEF BInv
<1>2. CASE OtherTabSaves
  <2>1. PICK id \in DOMAIN rows, note \in Notes : Store([rows EXCEPT ![id] = note])
    BY <1>2 DEF OtherTabSaves
  <2>2. UNCHANGED <<next, pageVars, netVars, liveVars>>
    BY <1>2 DEF OtherTabSaves
  <2>3. TableOK' /\ \A k \in Ids : held[k] \subseteq held'[k]
    BY <2>1, <2>2, PutNote DEF BInv, netVars
  <2>4. LiveOK'
    BY <2>2 DEF BInv, LiveOK, netVars, liveVars
  <2> QED BY <2>2, <2>3, <2>4, PageStands DEF BInv
<1>3. CASE OtherTabDeletes
  <2>1. Store(NoFunction) /\ UNCHANGED <<next, pageVars, netVars, liveVars>>
    BY <1>3 DEF OtherTabDeletes
  <2>2. TableOK' /\ \A k \in Ids : held[k] \subseteq held'[k]
    BY <2>1, StoreKeeps DEF BInv, TableOK, NoFunction, netVars
  <2>3. LiveOK'
    BY <2>1 DEF BInv, LiveOK, netVars, liveVars
  <2> QED BY <2>1, <2>2, <2>3, PageStands DEF BInv
<1>4. CASE SwitchContext
  <2>1. UNCHANGED <<tableVars, pageVars, netVars>>
    BY <1>4 DEF SwitchContext
  <2>2. TableOK' /\ \A k \in Ids : held[k] \subseteq held'[k]
    BY <2>1 DEF BInv, TableOK, tableVars, netVars
  <2>3. LiveOK'
    BY <1>4, BrowserAssumption DEF SwitchContext, BInv, LiveOK, netVars
  <2> QED BY <2>1, <2>2, <2>3, PageStands DEF BInv
<1> QED BY <1>1, <1>2, <1>3, <1>4 DEF Others

\* Cards, strip and markdown are made from one read (reportwindow.go:103-121).
LEMMA ReportStep == ASSUME BInv, HandleReport PROVE BInv'
<1>1. /\ stage' = "shown" /\ timer' = TRUE
      /\ cards' = [id \in DOMAIN rows |-> Shows(rows[id])]
      /\ badge' = {id \in DOMAIN rows : rows[id] # Empty}
      /\ mdText' = rows
      /\ UNCHANGED <<tableVars, edited, netVars, live, widget, answers>>
  BY DEF HandleReport
<1>2. \A id \in DOMAIN cards' :
        /\ rows[id] \in Notes /\ rows[id] \in held[id]
        /\ cards'[id].mode = "note" /\ cards'[id].note = rows[id]
  BY <1>1 DEF BInv, TableOK, Shows
<1>3. TableOK' /\ LiveOK'
  BY <1>1 DEF BInv, TableOK, LiveOK, tableVars, netVars
<1>4. PageOK'
  <2>1. \A id \in DOMAIN rows : Shows(rows[id]) \in CardOf
    BY BrowserAssumption DEF BInv, TableOK, Shows, CardOf
  <2> QED BY <1>1, <2>1 DEF BInv, TableOK, PageOK
<1>5. AnsweredWasStored' /\ ShownWasStored'
  BY <1>1, <1>2 DEF AnsweredWasStored, ShownWasStored, tableVars
<1>6. CopyMatchesCards' /\ BadgesAgree'
  BY <1>1, <1>2 DEF CopyMatchesCards, BadgesAgree
<1> QED BY <1>3, <1>4, <1>5, <1>6 DEF BInv

\* A post of a page that is gone changes the table, not the page.
LEMMA StrayStep == ASSUME BInv, HandleStray PROVE BInv'
<1>1. PICK post \in strays :
        /\ strays' = strays \ {post}
        /\ \/ UNCHANGED <<rows, held>>
           \/ Accepted(post.id, post.text) /\ SetSessionNote(post.id, post.text)
  BY DEF HandleStray
<1>2. UNCHANGED <<next, pageVars, deleting, liveVars>>
  BY DEF HandleStray
<1>3. TableOK' /\ \A k \in Ids : held[k] \subseteq held'[k]
  <2>1. CASE UNCHANGED <<rows, held>>
    BY <2>1, <1>1, <1>2 DEF BInv, TableOK
  <2>2. CASE Accepted(post.id, post.text) /\ SetSessionNote(post.id, post.text)
    <3>1. post.id \in DOMAIN rows /\ post.text \in Texts /\ post.text # TooLong
      BY <2>2 DEF Accepted, BInv, TableOK
    <3>2. Trim(post.text) \in Notes
      BY <3>1, TrimIsNote
    <3>3. Store([rows EXCEPT ![post.id] = Trim(post.text)])
      BY <2>2 DEF SetSessionNote
    <3>4. next' = next /\ strays' \subseteq strays
      BY <1>1, <1>2
    <3> QED BY <3>1, <3>2, <3>3, <3>4, PutNote DEF BInv
  <2> QED BY <1>1, <2>1, <2>2
<1>4. LiveOK'
  BY <1>2 DEF BInv, LiveOK, liveVars
<1> QED BY <1>2, <1>3, <1>4, PageStands DEF BInv

LEMMA DeletionStep == ASSUME BInv, DeleteDay \/ HandleDelete PROVE BInv'
<1>1. UNCHANGED <<next, pageVars, strays, liveVars>> /\ deleting' \in {"none", "sent", "ok"}
  BY DEF DeleteDay, HandleDelete, tableVars
<1>2. TableOK' /\ \A k \in Ids : held[k] \subseteq held'[k]
  <2>1. CASE UNCHANGED <<rows, held>>
    BY <2>1, <1>1 DEF BInv, TableOK
  <2>2. CASE Store(NoFunction)
    BY <2>2, <1>1, StoreKeeps DEF BInv, TableOK, NoFunction
  <2> QED BY <2>1, <2>2 DEF DeleteDay, HandleDelete, tableVars
<1>3. LiveOK'
  BY <1>1 DEF BInv, LiveOK, liveVars
<1> QED BY <1>1, <1>2, <1>3, PageStands DEF BInv

LEMMA LiveStep == ASSUME BInv, Live PROVE BInv'
<1>1. UNCHANGED <<tableVars, pageVars, netVars, live>>
  BY DEF Live, Poll, PollFails, ShowLive
<1>2. TableOK' /\ \A k \in Ids : held[k] \subseteq held'[k]
  BY <1>1 DEF BInv, TableOK, tableVars, netVars
<1>3. LiveOK'
  BY <1>1 DEF Live, Poll, PollFails, ShowLive, BInv, LiveOK, netVars
<1> QED BY <1>1, <1>2, <1>3, PageStands DEF BInv

LEMMA CardActions ==
    ASSUME BInv, NEW id \in Ids, Script(id) \/ Answer(id)
    PROVE  BInv'
<1> USE DEF Card
<1>1. \A k \in DOMAIN cards : cards[k] \in CardOf
  BY DEF BInv, PageOK
<1>2. CASE EditNote(id)
  <2> DEFINE card == [cards[id] EXCEPT !.mode = "edit", !.text = cards[id].note]
  <2>1. id \in DOMAIN cards /\ OnlyCard(id, card) /\ UNCHANGED <<badge, edited>>
    BY <1>2 DEF EditNote
  <2>2. cards[id] \in CardOf /\ cards[id].note \in Texts
    <3>1. Notes \subseteq Texts
      BY BrowserAssumption DEF Notes, Trim
    <3> QED BY <1>1, <2>1, <3>1 DEF CardOf
  <2>3. card \in CardOf /\ card.mode = "edit"
    BY <2>2 DEF CardOf
  <2> QED BY <2>1, <2>3, EditorStep
<1>3. CASE Type(id)
  <2>1. PICK text \in Texts : OnlyCard(id, [cards[id] EXCEPT !.text = text])
    BY <1>3 DEF Type
  <2> DEFINE card == [cards[id] EXCEPT !.text = text]
  <2>2. /\ id \in DOMAIN cards /\ cards[id].mode = "edit"
        /\ UNCHANGED <<badge, edited>>
    BY <1>3 DEF Type
  <2>3. card \in CardOf /\ card.mode = "edit"
    BY <1>1, <2>2 DEF CardOf
  <2> QED BY <2>1, <2>2, <2>3, EditorStep
<1>4. CASE CancelNote(id)
  BY <1>4, NavigateStep DEF CancelNote
<1>5. CASE SaveNote(id)
  <2> DEFINE card == [cards[id] EXCEPT !.mode = "saving"]
  <2>1. id \in DOMAIN cards /\ OnlyCard(id, card) /\ UNCHANGED <<badge, edited>>
    BY <1>5 DEF SaveNote
  <2>2. card \in CardOf /\ card.mode = "saving"
    BY <1>1, <2>1 DEF CardOf, Busy
  <2> QED BY <2>1, <2>2, EditorStep
<1>6. CASE Saved(id)
  BY <1>6, SavedStep
<1>7. CASE SaveFailed(id)
  <2>1. PICK text \in Texts :
            OnlyCard(id, [cards[id] EXCEPT !.mode = "edit", !.text = text])
    BY <1>7 DEF SaveFailed
  <2> DEFINE card == [cards[id] EXCEPT !.mode = "edit", !.text = text]
  <2>2. id \in DOMAIN cards /\ UNCHANGED <<badge, edited>>
    BY <1>7 DEF SaveFailed
  <2>3. card \in CardOf /\ card.mode = "edit"
    BY <1>1, <2>2 DEF CardOf
  <2> QED BY <2>1, <2>2, <2>3, EditorStep
<1> QED BY <1>2, <1>3, <1>4, <1>5, <1>6, <1>7 DEF Script, Answer

LEMMA InitBInv == Init => BInv
<1> SUFFICES ASSUME Init PROVE BInv
  OBVIOUS
<1>1. TableOK /\ PageOK /\ LiveOK
  <2>1. TableOK
    BY BrowserAssumption DEF Init, TableOK, NoFunction
  <2>2. PageOK
    BY DEF Init, PageOK, NoFunction
  <2>3. LiveOK
    <3>1. timer \in BOOLEAN
      BY DEF Init
    <3>2. live \in 0 .. MaxLive /\ answers \subseteq 0 .. MaxLive
      BY BrowserAssumption DEF Init
    <3> QED BY <3>1, <3>2 DEF Init, LiveOK
  <2> QED BY <2>1, <2>2, <2>3
<1> QED
  BY <1>1 DEF Init, BInv, NoFunction, AnsweredWasStored, ShownWasStored,
              CopyMatchesCards, BadgesAgree

LEMMA StepBInv == BInv /\ [Next]_vars => BInv'
<1> SUFFICES ASSUME BInv, [Next]_vars PROVE BInv'
  OBVIOUS
<1>1. CASE Load
  BY <1>1, ReportStep, NavigateStep DEF Load, Reload
<1>2. CASE Deletion
  BY <1>2, DeletionStep, NavigateStep DEF Deletion, Deleted
<1>3. ASSUME NEW id \in Ids, Script(id) \/ Server(id) \/ Answer(id) PROVE BInv'
  BY <1>3, CardActions, ServerStep
<1>4. CASE UNCHANGED vars
  <2>1. UNCHANGED <<tableVars, pageVars, netVars, liveVars>>
    BY <1>4 DEF vars
  <2>2. /\ TableOK' /\ LiveOK'
        /\ \A k \in Ids : held[k] \subseteq held'[k]
    BY <2>1 DEF BInv, TableOK, LiveOK, tableVars, netVars, liveVars
  <2> QED BY <2>1, <2>2, PageStands DEF BInv
<1> QED
  BY <1>1, <1>2, <1>3, <1>4, OthersStep, StrayStep, LiveStep DEF Next

THEOREM BrowserInvariance == Spec => []BInv
BY InitBInv, StepBInv, PTL DEF Spec

\* Every variable stays in its type (reportwindow.go:103-223, 664-796).
THEOREM BrowserTypeCorrect == Spec => []BrowserTypeOK
<1>1. BInv => BrowserTypeOK
  BY DEF BInv, TableOK, PageOK, LiveOK, CardOf, BrowserTypeOK, Range
<1> QED BY <1>1, BrowserInvariance, PTL

\* No card ever shows a note its session has not had since the page was asked
\* for, for any number of cards, tabs and lost or late requests
\* (reportwindow.go:730-755; sqlite.go:268-279).
THEOREM CardsShowStoredNotes == Spec => []ShownWasStored
<1>1. BInv => ShownWasStored
  BY DEF BInv
<1> QED BY <1>1, BrowserInvariance, PTL

\* What is copied for the AI agrees with the cards not edited on the page
\* (reportwindow.go:109-117, 656).
THEOREM CopyAgrees == Spec => []CopyMatchesCards
<1>1. BInv => CopyMatchesCards
  BY DEF BInv
<1> QED BY <1>1, BrowserInvariance, PTL

\* The strip is marked exactly where a card shows a note
\* (reportwindow.go:199, 742-749; timeline.go:265-316).
THEOREM StripAgrees == Spec => []BadgesAgree
<1>1. BInv => BadgesAgree
  BY DEF BInv
<1> QED BY <1>1, BrowserInvariance, PTL
=============================================================================
