--------------------------- MODULE MySqlConnector ---------------------------
(***************************************************************************)
(* The MySQL connection class, its results, rows and fields: what a        *)
(* program reads through them, which statement the rows belong to, and     *)
(* what becomes of the handles, results and fields.  A statement either    *)
(* fails, has no result set (an update) or has one of Tables.              *)
(***************************************************************************)
EXTENDS Integers, SequencesExt, FiniteSetsExt

CONSTANTS Names,        \* the columns' names, in order; two may be equal
          Tables,       \* the result sets: sequences of rows of Names' width
          Null,         \* the value of a column that is NULL
          MaxLost       \* bound on handles and on results that are lost

VARIABLES my,           \* mysqlconnector: mysql and result
          prog,         \* the program: the last statement with a result, the row it holds, its use of operator[]
          lost          \* history: what nothing points to any more

vars == <<my, prog, lost>>

NoResult == [there |-> FALSE, left |-> <<>>, stored |-> FALSE, rows |-> <<>>, cur_iter |-> 0]

Init ==
  /\ my = [handle |-> "none", result |-> NoResult]
  /\ prog = [state |-> "start", last |-> <<>>, ret |-> -1, row |-> 0, copied |-> FALSE]
  /\ lost = [handles |-> 0, results |-> 0, twice |-> FALSE, dangling |-> FALSE]

\* the text a column's value is turned into ends at its first NUL byte, while
\* the length is the column's own; a NULL column is an empty text
Field(name, value) ==
  LET bytes == IF value = Null THEN <<>> ELSE value
      end   == SelectInSeq(bytes, LAMBDA b : b = "NUL")
  IN [name |-> name, value |-> IF end = 0 THEN bytes ELSE SubSeq(bytes, 1, end - 1), length |-> Len(bytes)]

\* a row of fetchall: m_vfields holds every column, m_fields the last one of a name
Row(columns) == [vfields |-> [i \in DOMAIN Names |-> Field(Names[i], columns[i])], deleted |-> FALSE]

Named(row, name) == {i \in DOMAIN row.vfields : row.vfields[i].name = name}

\* get_value, operator[](std::string): field_exists or an exception
GetValue(row, name) == row.vfields[CHOOSE i \in Named(row, name) : \A j \in Named(row, name) : j <= i]

Crash == my' = my /\ prog' = [prog EXCEPT !.state = "crashed"] /\ UNCHANGED lost

Throw(m) == my' = m /\ prog' = [prog EXCEPT !.state = IF @ = "start" THEN "start" ELSE "up", !.ret = -1]

\* connect: it overwrites the handle, and throws at each of its three calls
Connected(outcome) == [my EXCEPT !.handle = outcome]

OldHandle == IF my.handle \in {"none", "null"} THEN 0 ELSE 1

\* the constructor; the handle of one that throws is lost with the object
Construct ==
  /\ prog.state = "start" /\ lost.handles < MaxLost
  /\ \/ my' = Connected("up") /\ prog' = [prog EXCEPT !.state = "up"] /\ UNCHANGED lost
     \/ Throw(my) /\ \E made \in {0, 1} : lost' = [lost EXCEPT !.handles = @ + made]

\* the statement itself: it fails, or its result replaces the one before, which
\* nothing deletes
Query(m, h) ==
  \/ /\ my' = m /\ lost' = h
     /\ prog' = [prog EXCEPT !.ret = -1]
  \/ /\ my' = [m EXCEPT !.result = [NoResult EXCEPT !.there = TRUE]]
     /\ lost' = [h EXCEPT !.results = @ + (IF m.result.there THEN 1 ELSE 0)]
     /\ prog' = [prog EXCEPT !.ret = -1, !.last = <<>>, !.row = 0]
  \/ \E t \in Tables :
       /\ my' = [m EXCEPT !.result = [NoResult EXCEPT !.there = TRUE, !.stored = TRUE, !.left = t]]
       /\ lost' = [h EXCEPT !.results = @ + (IF m.result.there THEN 1 ELSE 0)]
       /\ prog' = [prog EXCEPT !.ret = Len(t), !.last = t, !.row = 0]

\* execute: the ping fails on a connection that is not up, and may fail on one
\* that is; then it connects anew, losing the handle it had
Execute ==
  /\ prog.state = "up" /\ lost.results < MaxLost /\ lost.handles < MaxLost
  /\ \/ my.handle = "null" /\ Crash
     \/ my.handle = "up" /\ Query(my, lost)
     \/ my.handle \in {"up", "init"} /\ LET h == [lost EXCEPT !.handles = @ + OldHandle]
                                        IN \/ Query(Connected("up"), h)
                                           \/ \E outcome \in {"null", "init"} : Throw(Connected(outcome)) /\ lost' = h

\* fetchall: the rows the stored result still has are appended
FetchAll ==
  /\ prog.state = "up"
  /\ \/ ~(my.result.there /\ my.result.stored) /\ Crash
     \/ /\ my.result.there /\ my.result.stored
        /\ my' = [my EXCEPT !.result.rows = @ \o [i \in DOMAIN my.result.left |-> Row(my.result.left[i])],
                            !.result.left = <<>>]
        /\ UNCHANGED <<prog, lost>>

\* next: nullptr past the last row
NextRow ==
  /\ prog.state = "up" /\ my.result.there
  /\ LET i == my.result.cur_iter + 1
     IN \/ /\ i <= Len(my.result.rows)
           /\ my' = [my EXCEPT !.result.cur_iter = i]
           /\ prog' = [prog EXCEPT !.row = i]
           /\ lost' = [lost EXCEPT !.dangling = @ \/ my.result.rows[i].deleted]
        \/ i > Len(my.result.rows) /\ prog' = [prog EXCEPT !.row = 0] /\ UNCHANGED <<my, lost>>

\* reset_iter
ResetIter ==
  /\ prog.state = "up" /\ my.result.there
  /\ my' = [my EXCEPT !.result.cur_iter = 0]
  /\ UNCHANGED <<prog, lost>>

\* operator[](unsigned int) of the result: a copy of the row, whose destructor
\* deletes the fields it shares with the row
CopyRow ==
  /\ prog.state = "up" /\ my.result.rows # <<>>
  /\ \E i \in DOMAIN my.result.rows :
       /\ my' = [my EXCEPT !.result.rows[i].deleted = TRUE]
       /\ lost' = [lost EXCEPT !.twice = @ \/ my.result.rows[i].deleted]
  /\ prog' = [prog EXCEPT !.copied = TRUE]

\* deleting the rows deletes their fields
RowsDeleted(h) == [h EXCEPT !.twice = @ \/ \E i \in DOMAIN my.result.rows : my.result.rows[i].deleted]

\* mysqlresult::free, which leaves the iterator where it is
Free ==
  /\ prog.state = "up" /\ my.result.there
  /\ my' = [my EXCEPT !.result.rows = <<>>]
  /\ lost' = RowsDeleted(lost)
  /\ prog' = [prog EXCEPT !.row = 0]

\* ~mysqlconnector: the result's rows, then the connection
Destroy ==
  /\ prog.state = "up"
  /\ my' = [handle |-> "none", result |-> NoResult]
  /\ lost' = RowsDeleted(lost)
  /\ prog' = [prog EXCEPT !.state = "gone", !.row = 0]

Next == Construct \/ Execute \/ FetchAll \/ NextRow \/ ResetIter \/ CopyRow \/ Free \/ Destroy
-----------------------------------------------------------------------------
Shown(row, name) == LET i == Max({j \in DOMAIN Names : Names[j] = name}) IN row[i]

\* The rows a program gets are those of the last statement that had a result,
\* each of them once and in order, whatever was executed, fetched or fetched
\* again since, and a name shows its last column, cut at a NUL byte and with
\* the column's length.  No field is deleted twice and no row with deleted
\* fields is handed out, unless the program has used the result's operator[].
RowsAreTheResults ==
  /\ my.result.rows # <<>> => Len(my.result.rows) = Len(prog.last)
  /\ prog.row > 0 /\ my.result.rows # <<>> =>
       \A name \in ToSet(Names) :
         LET value == Shown(prog.last[prog.row], name)
             f     == GetValue(my.result.rows[prog.row], name)
         IN /\ f.length = IF value = Null THEN 0 ELSE Len(value)
            /\ value # Null => IsPrefix(f.value, value) /\ "NUL" \notin ToSet(f.value)
  /\ lost.twice \/ lost.dangling => prog.copied
=============================================================================
