---------------------------- MODULE SessionStore ----------------------------
(***************************************************************************)
(* The sessions table of internal/storage/sqlite.go and the statements     *)
(* that read and write it.  A table is a set of rows; each statement is an *)
(* operator from a table to the table it leaves.  One SQL statement is     *)
(* atomic: the connection pool has one connection (SetMaxOpenConns(1)).    *)
(*                                                                         *)
(* Abstractions: RFC3339 strings and seconds are integers of one clock; a  *)
(* note is NoNote or the identity (start and label) of the card its author *)
(* was looking at, which is what a note is about.                          *)
(***************************************************************************)
EXTENDS Integers

CONSTANTS
    DayLen,      \* clock units in a local day
    MinSession,  \* min_session_secs: closing a shorter session deletes it
    NoNote,      \* the empty note
    Names,       \* context types and labels
    NoText       \* the empty string, a label like any other

ASSUME StoreAssumption == /\ DayLen \in Nat \ {0}
                          /\ MinSession \in Nat
                          /\ NoText \in Names

\* A NULL column, and a time that was never set (time.Time.IsZero).
NULL == -1

\* date_local, "2006-01-02" of the local time
DateLocal(t) == t \div DayLen

-----------------------------------------------------------------------------
\* AUTOINCREMENT: an id is never given twice, whatever was deleted.
NextId_MaxPlusOne(rows, seq) ==
    CHOOSE n \in 1 .. seq + 1 : /\ \A r \in rows : r.id < n
                                /\ n = 1 \/ \E r \in rows : r.id = n - 1

NextId(rows, seq) == seq + 1

\* INSERT of a session in progress: no end, no duration, a checkpoint.
NewRow(id, ctx, t) ==
    [id |-> id, day |-> DateLocal(t), type |-> ctx.type, label |-> ctx.label,
     start |-> t, end |-> NULL, dur |-> 0, ckpt |-> TRUE, note |-> NoNote]

OpenSession(rows, id, ctx, t) == rows \cup {NewRow(id, ctx, t)}

\* A session below the minimum is deleted, any other finalised.  An id that
\* is not in the table is not an error: the statement affects no row.
CloseSession(rows, id, end, dur) ==
    IF dur < MinSession
    THEN {r \in rows : r.id # id}
    ELSE {IF r.id = id THEN [r EXCEPT !.end = end, !.dur = dur, !.ckpt = FALSE]
                       ELSE r : r \in rows}

\* RecoverCheckpoints closes each row r it selected at start + duration_secs.
RecoverCheckpoint(rows, r) ==
    CloseSession(rows, r.id, r.start + r.dur, r.dur)

DeleteDay(rows, day) == {r \in rows : r.day # day}

SetSessionNote(rows, id, note) ==
    {IF r.id = id THEN [r EXCEPT !.note = note] ELSE r : r \in rows}

-----------------------------------------------------------------------------
\* Queries.  SessionsForDay has no filter on is_checkpoint.
OpenRows(rows) == {r \in rows : r.ckpt}

OpenIds(rows) == {r.id : r \in OpenRows(rows)}

SessionsForDay(rows, day) == {r \in rows : r.day = day}

Rows(ids) ==
    [id : ids, day : Int, type : Names, label : Names, start : Nat,
     end : Nat \cup {NULL}, dur : Nat, ckpt : BOOLEAN,
     note : {NoNote} \cup [start : Nat, label : Names]]
=============================================================================
