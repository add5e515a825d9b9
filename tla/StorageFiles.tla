---------------------------- MODULE StorageFiles ----------------------------
(***************************************************************************)
(* One table's CSV file, used by several processes (a server, the command   *)
(* line, a test) through db/storage.c.  A file is an inode: the table's     *)
(* path and the path of storage_delete's temporary file name one each or    *)
(* none, and a process goes on with the inode it opened whatever the path   *)
(* names meanwhile.  flock locks inodes.  What a process writes reaches its *)
(* file when stdio flushes it, and all of it only if the disk has room and  *)
(* the process lives.                                                       *)
(***************************************************************************)
EXTENDS TableIndex

CONSTANTS Procs,       \* the processes
          Deleters,    \* those that call storage_delete
          Existing,    \* the contents that the file may have at the start
          Inserts,     \* the statements of INSERT: columns, values
          Deletes,     \* the statements of DELETE: has_where, column, op, value
          Probes,      \* the values that an index is asked for
          Faults,      \* a subset of {"short", "crash", "rename"}
          MaxCalls,    \* bound on the calls
          MaxInodes    \* bound on the files created

ASSUME DeletersAssumption == Deleters \subseteq Procs
ASSUME MaxInodesAssumption == MaxInodes \in Nat \ {0}
ASSUME MaxCallsAssumption == MaxCalls \in Nat

None   == 0
Inodes == 1 .. MaxInodes

InsertType == [columns : Seq(Texts), values : Seq(Texts)]
DeleteType == [has_where : BOOLEAN, column : Texts, op : Operators, value : Texts]
ASSUME StatementsAssumption ==
  /\ \A s \in Inserts : /\ s \in InsertType
                        /\ Len(s.columns) = Len(s.values) /\ s.columns # <<>>
  /\ Deletes \subseteq DeleteType
ASSUME ProbesAssumption == Probes \subseteq Texts

VARIABLES
  path,      \* the inode of data/<table>.csv
  temp,      \* the inode of data/<table>.tmp
  text,      \* the contents of the files
  created,   \* the number of files created so far
  proc,      \* what every process is doing
  view,      \* the table a process loaded last, and from which inode
  torn,      \* which kind of call had its write cut short, if any
  calls      \* the number of calls so far

vars == <<path, temp, text, created, proc, view, torn, calls>>

\* pc: "lock" (file open, waiting for flock), "locked", "flush" (everything is
\* in the stdio buffer), "rename"; call: the operation with its statement;
\* fp: the open table file; tp: the open temporary file; buf: what is to be
\* written.
Idle == [pc |-> "idle"]

LoadCall      == [kind |-> "load"]
InsertCall(s) == [kind |-> "insert", stmt |-> s]
DeleteCall(s) == [kind |-> "delete", stmt |-> s]
Busy(p)  == proc[p] # Idle
Is(p, pc, kind) == Busy(p) /\ proc[p].pc = pc /\ proc[p].call.kind = kind
NoView == [inode |-> None, table |-> ReadTable(<<>>)]

TypeOK == /\ path \in Inodes \cup {None} /\ temp \in Inodes \cup {None}
          /\ path = temp => path = None
          /\ created \in 0 .. MaxInodes
          /\ \A i \in Inodes : /\ text[i] \in Texts
                               /\ i > created => text[i] = <<>>
          /\ \A p \in Procs : Busy(p) => /\ proc[p].fp \in 1 .. created
                                         /\ proc[p].tp \in 0 .. created
          /\ torn \in {"none", "insert", "delete"}
          /\ calls \in 0 .. MaxCalls

Init == /\ \/ /\ path = None /\ created = 0
              /\ text = [i \in Inodes |-> <<>>]
           \/ /\ path = 1 /\ created = 1
              /\ \E t \in Existing : text = [i \in Inodes |-> IF i = 1 THEN t ELSE <<>>]
        /\ temp = None
        /\ proc = [p \in Procs |-> Idle]
        /\ view = [p \in Procs |-> NoView]
        /\ torn = "none"
        /\ calls = 0

-----------------------------------------------------------------------------
(* Opening and locking *)

Start(p, call, inode) ==
  /\ ~Busy(p) /\ calls < MaxCalls
  /\ calls' = calls + 1
  /\ proc' = [proc EXCEPT ![p] = [pc |-> "lock", call |-> call, fp |-> inode,
                                  tp |-> None, buf |-> <<>>]]

\* storage_insert: fopen(path, "a+") creates the file.
OpenForInsert(p, s) ==
  /\ \/ /\ path # None
        /\ Start(p, InsertCall(s), path)
        /\ UNCHANGED <<path, created>>
     \/ /\ path = None /\ created < MaxInodes
        /\ Start(p, InsertCall(s), created + 1)
        /\ path' = created + 1 /\ created' = created + 1
  /\ UNCHANGED <<temp, text, view, torn>>

\* storage_load_table and storage_delete: fopen(path, "r") needs the file.
OpenForRead(p, call) ==
  /\ path # None
  /\ Start(p, call, path)
  /\ UNCHANGED <<path, temp, text, created, view, torn>>

Exclusive(p) == proc[p].call.kind # "load"

\* LOCK_SH is compatible with LOCK_SH only.
Compatible(p, q) == ~Exclusive(p) /\ ~Exclusive(q)

\* Deviation: flock is not called.
LockAtOnce(p) ==
  /\ Busy(p) /\ proc[p].pc = "lock"
  /\ proc' = [proc EXCEPT ![p].pc = "locked"]
  /\ UNCHANGED <<path, temp, text, created, view, torn, calls>>

\* storage_lock_file: flock of the inode that was opened.
Lock(p) ==
  /\ Busy(p) /\ proc[p].pc = "lock"
  /\ \A q \in Procs \ {p} :
       Busy(q) /\ proc[q].pc # "lock" /\ proc[q].fp = proc[p].fp => Compatible(p, q)
  /\ proc' = [proc EXCEPT ![p].pc = "locked"]
  /\ UNCHANGED <<path, temp, text, created, view, torn, calls>>

\* flock(LOCK_UN) and fclose
Close(p) == proc' = [proc EXCEPT ![p] = Idle]

-----------------------------------------------------------------------------
(* storage_load_table *)

Load(p) ==
  LET t == ReadTable(text[proc[p].fp]) IN
  /\ Is(p, "locked", "load")
  /\ view' = [view EXCEPT ![p] = IF t.ok THEN [inode |-> proc[p].fp, table |-> t]
                                         ELSE NoView]
  /\ Close(p)
  /\ UNCHANGED <<path, temp, text, created, torn, calls>>

-----------------------------------------------------------------------------
(* storage_insert *)

\* The rows that validate_primary_key and get_next_auto_id walk through.
Rows(t) == ToSet(ReadTable(t).rows)

\* Does storage_get_next_auto_id meet integers only?
IdsAreIntegers(t) ==
  LET k == ColumnIndex(ReadHeader(t).fields, Id)
  IN  \A row \in Rows(t) : IsInteger(row[k])

NextAutoId(t) ==
  LET k == ColumnIndex(ReadHeader(t).fields, Id)
  IN  Decimal(Max({0} \cup {ParseInteger(row[k]) : row \in Rows(t)}) + 1)

\* Is the id new?  storage_validate_primary_key compares the texts.
PrimaryKeyValid(t, columns, values) ==
  LET k == ColumnIndex(columns, Id)
  IN  k # 0 => /\ values[k] # <<>>
               /\ \A row \in Rows(t) : row[k] # values[k]

\* Must storage_insert make up the id?
NeedsId(s, columns) == ColumnIndex(columns, Id) # 0 /\ ColumnIndex(s.columns, Id) = 0

ValueOf(s, column) == s.values[ColumnIndex(s.columns, column)]

\* The columns of a table that this statement creates.
NewColumns(s) == IF ColumnIndex(s.columns, Id) = 0 THEN <<Id>> \o s.columns ELSE s.columns

\* The checks of a statement against the columns of an existing table.
FitsColumns(s, columns) ==
  /\ Len(columns) = Len(s.columns) + (IF NeedsId(s, columns) THEN 1 ELSE 0)
  /\ \A c \in ToSet(columns) :
       ColumnIndex(s.columns, c) # 0 \/ (NeedsId(s, columns) /\ c = Id)

\* ordered_values, for a new table or an existing one
OrderedValues(s, t, columns) ==
  [k \in DOMAIN columns |->
     IF columns[k] = Id /\ NeedsId(s, columns)
       THEN NextAutoId(t) ELSE ValueOf(s, columns[k])]

\* What storage_insert hands to stdio, or a refusal.
Written(s, t) ==
  LET header  == ReadHeader(t)
      columns == IF header.fields = <<>> THEN NewColumns(s) ELSE header.fields
      values  == OrderedValues(s, t, columns)
      refused == [ok |-> FALSE, buf |-> <<>>, row |-> <<>>]
  IN  CASE ~header.ok -> refused
        [] header.fields # <<>> /\ ~FitsColumns(s, columns) -> refused
        [] ColumnIndex(columns, Id) # 0 /\ ~ReadTable(t).ok -> refused
        [] NeedsId(s, columns) /\ ~IdsAreIntegers(t) -> refused
        [] ~NeedsId(s, columns) /\ ~PrimaryKeyValid(t, columns, values) -> refused
        [] OTHER -> [ok |-> TRUE, row |-> values,
                     buf |-> (IF header.fields = <<>> THEN WriteRow(columns) ELSE <<>>)
                               \o WriteRow(values)]

Insert(p) ==
  LET w == Written(proc[p].call.stmt, text[proc[p].fp]) IN
  /\ Is(p, "locked", "insert")
  /\ \/ ~w.ok /\ Close(p)
     \/ w.ok /\ proc' = [proc EXCEPT ![p].pc = "flush", ![p].buf = w.buf]
  /\ UNCHANGED <<path, temp, text, created, view, torn, calls>>

\* fflush, with its result ignored, flock(LOCK_UN), fclose: the file is open
\* for appending.
FlushInsert(p) ==
  /\ Is(p, "flush", "insert")
  /\ text' = [text EXCEPT ![proc[p].fp] = @ \o proc[p].buf]
  /\ Close(p)
  /\ UNCHANGED <<path, temp, created, view, torn, calls>>

-----------------------------------------------------------------------------
(* storage_delete *)

\* storage_row_matches_where, or every row
Matches(s, columns, row) ==
  s.has_where => Holds(row[ColumnIndex(columns, s.column)], s.op, s.value)

Rewritten(s, t) ==
  LET kept == At(t.rows, {k \in DOMAIN t.rows : ~Matches(s, t.columns, t.rows[k])})
  IN  WriteRow(t.columns) \o FlattenSeq([k \in DOMAIN kept |-> WriteRow(kept[k])])

\* The table is read; fopen(temp_path, "w") creates the file or empties it; a
\* WHERE on an unknown column is noticed at the first row.
Delete(p) ==
  LET s == proc[p].call.stmt
      t == ReadTable(text[proc[p].fp])
      inode == IF temp = None THEN created + 1 ELSE temp
  IN
  /\ Is(p, "locked", "delete")
  /\ \/ /\ ~t.ok
        /\ Close(p)
        /\ UNCHANGED <<temp, text, created>>
     \/ /\ t.ok /\ inode <= MaxInodes
        /\ text' = [text EXCEPT ![inode] = <<>>]
        /\ created' = Max({created, inode})
        /\ IF t.rows # <<>> /\ s.has_where /\ ColumnIndex(t.columns, s.column) = 0
             THEN Close(p) /\ temp' = None
             ELSE /\ proc' = [proc EXCEPT ![p].pc = "flush", ![p].tp = inode,
                                          ![p].buf = Rewritten(s, t)]
                  /\ temp' = inode
  /\ UNCHANGED <<path, view, torn, calls>>

\* Writing a file from its beginning, over what another writer left there.
Over(new, old) == new \o SubSeq(old, Len(new) + 1, Len(old))

\* Deviation: the old file is closed, and its lock given back, before rename.
FlushDeleteUnlocks(p) ==
  /\ Is(p, "flush", "delete")
  /\ text' = [text EXCEPT ![proc[p].tp] = Over(proc[p].buf, @)]
  /\ proc' = [proc EXCEPT ![p].pc = "rename", ![p].fp = proc[p].tp]
  /\ UNCHANGED <<path, temp, created, view, torn, calls>>

\* fflush and fclose of the temporary file, with their results ignored
FlushDelete(p) ==
  /\ Is(p, "flush", "delete")
  /\ text' = [text EXCEPT ![proc[p].tp] = Over(proc[p].buf, @)]
  /\ proc' = [proc EXCEPT ![p].pc = "rename"]
  /\ UNCHANGED <<path, temp, created, view, torn, calls>>

\* Deviation: the temporary name stays.
RenameKeepsTemp(p) ==
  /\ Is(p, "rename", "delete") /\ temp # None
  /\ path' = temp
  /\ Close(p)
  /\ UNCHANGED <<temp, text, created, view, torn, calls>>

\* rename, then flock(LOCK_UN) and fclose of the old file
Rename(p) ==
  /\ Is(p, "rename", "delete") /\ temp # None
  /\ path' = temp /\ temp' = None
  /\ Close(p)
  /\ UNCHANGED <<text, created, view, torn, calls>>

\* rename fails: the temporary file is removed.
RenameFails(p) ==
  /\ Is(p, "rename", "delete")
  /\ "rename" \in Faults \/ temp = None
  /\ temp' = None
  /\ Close(p)
  /\ UNCHANGED <<path, text, created, view, torn, calls>>

-----------------------------------------------------------------------------
(* Faults *)

\* A part of what p has to flush is in its file, and no more will be: buf is
\* longer than what fits on the disk or than stdio's buffer.  At most one
\* write of a behaviour is cut short.
CutShort(p) ==
  /\ torn = "none" /\ proc[p].pc = "flush"
  /\ torn' = proc[p].call.kind
  /\ \E n \in 0 .. Len(proc[p].buf) - 1 :
       LET part == SubSeq(proc[p].buf, 1, n) IN
       text' = IF proc[p].call.kind = "insert"
                 THEN [text EXCEPT ![proc[p].fp] = @ \o part]
                 ELSE [text EXCEPT ![proc[p].tp] = Over(part, @)]

\* The disk is full: storage_insert returns SUCCESS, storage_delete goes on.
ShortFlush(p) ==
  /\ "short" \in Faults /\ Busy(p)
  /\ CutShort(p)
  /\ IF proc[p].call.kind = "insert" THEN Close(p)
                                     ELSE proc' = [proc EXCEPT ![p].pc = "rename"]
  /\ UNCHANGED <<path, temp, created, view, calls>>

\* The process dies; its locks go with it, its files stay.
Crash(p) ==
  /\ "crash" \in Faults /\ Busy(p)
  /\ CutShort(p) \/ UNCHANGED <<text, torn>>
  /\ Close(p)
  /\ view' = [view EXCEPT ![p] = NoView]
  /\ UNCHANGED <<path, temp, created, calls>>

Step(p) == \/ Lock(p) \/ Load(p) \/ Insert(p) \/ FlushInsert(p)
           \/ Delete(p) \/ FlushDelete(p) \/ Rename(p) \/ RenameFails(p)

Next == \E p \in Procs : \/ \E s \in Inserts : OpenForInsert(p, s)
                         \/ OpenForRead(p, LoadCall)
                         \/ p \in Deleters /\ \E s \in Deletes : OpenForRead(p, DeleteCall(s))
                         \/ Step(p) \/ ShortFlush(p) \/ Crash(p)

Spec == Init /\ [][Next]_vars

-----------------------------------------------------------------------------
(* Properties *)

Table == ReadTable(text[path])

\* The statements keep to one line: storage_write_csv_value would write a line
\* break, but fgets reads by lines.  A column has a name.
PlainStatements ==
  \A s \in Inserts : s.columns \in Seq(Plain \ {<<>>}) /\ s.values \in Seq(Plain)

\* A file as storage_insert and storage_delete leave it: whole lines that are
\* read, and no row that is a blank line.  The one column of a table is its id,
\* or the nameless column of a file that was empty when storage_delete copied it.
WellFormed(t) ==
  \/ t = <<>>
  \/ LET table == ReadTable(t) IN
     /\ t[Len(t)] = Newline /\ table.ok
     /\ Len(table.columns) > 1 \/ table.columns \in {<<Id>>, <<<<>>>>}
     /\ Len(table.columns) = 1 => \A k \in DOMAIN table.rows : table.rows[k][1] # <<>>

IdsOnce(table) ==
  LET k == ColumnIndex(table.columns, Id) IN
  \A i, j \in DOMAIN table.rows : table.rows[i][k] = table.rows[j][k] => i = j

\* The files at the start are such files, and their ids are unique.
WellFormedExisting ==
  \A t \in Existing :
    /\ t \in Texts /\ WellFormed(t)
    /\ ColumnIndex(ReadTable(t).columns, Id) # 0 => IdsOnce(ReadTable(t))

\* Two processes that create the table together, or insert while another one
\* deletes or dies, never give two of its rows the same id (as text),
\* provided that an unfinished write cannot have cut an id short.
IdsUnique ==
  path # None /\ Table.ok =>
    LET k == ColumnIndex(Table.columns, Id) IN
    k # 0 /\ (k = Len(Table.columns) => torn = "none") => IdsOnce(Table)

\* What a process is about to write was computed from the file as it is now:
\* flock keeps all others from changing the file between the reading and the
\* writing.  The file that a DELETE has copied is still the table, so that
\* rename replaces nothing else; this needs that only one process deletes.
WritesAreCurrent ==
  \A p \in Procs :
    /\ Is(p, "flush", "insert") =>
         proc[p].buf = Written(proc[p].call.stmt, text[proc[p].fp]).buf
    /\ Is(p, "flush", "delete") \/ Is(p, "rename", "delete") =>
         proc[p].fp = path /\ proc[p].buf = Rewritten(proc[p].call.stmt, Table)

\* The values that have been put into a column from outside.
Given(column) ==
  {ValueOf(s, column) : s \in {z \in Inserts : ColumnIndex(z.columns, column) # 0}}
    \cup UNION {LET t == ReadTable(e)
                IN  {row[k] : row \in ToSet(t.rows),
                              k \in {l \in DOMAIN t.columns : t.columns[l] = column}} :
                  e \in Existing}

\* A row that a load returns was inserted, at most its last value cut short: a
\* row appended to an unfinished line is never read as one row with it.  It
\* takes the comma of a second column, and no second unfinished write.
NoGluedRow ==
  \A p \in Procs, s \in Inserts :
    LET t == view[p].table IN
    t.columns = NewColumns(s) =>
      \A row \in ToSet(t.rows), k \in DOMAIN t.columns :
        t.columns[k] # Id => \E v \in Given(t.columns[k]) : IsPrefix(row[k], v)

\* An offset taken when the table was loaded still leads to the same row, or to
\* an error, as long as the file has not been replaced: inserts and unfinished
\* writes of others do not make storage_read_row_at_offset return another row.
\* In a table of one column a torn row and the row after it are one.
OffsetReadsLoadedRow ==
  \A p \in Procs :
    view[p].inode # None /\ view[p].inode = path =>
      LET t == view[p].table IN
      torn = "none" \/ Len(t.columns) > 1 => \A k \in DOMAIN t.rows :
        LET r == RowAtOffset(text[path], t.offsets[k], Len(t.columns))
        IN  r.ok => r.row = t.rows[k]

\* index_query_equals and index_query_range find the rows that a scan with
\* storage_compare_with_operator finds, each once, in every column that has an
\* order and, for equality, one spelling per number.
IndexMatchesScan ==
  \A p \in Procs :
    LET t == view[p].table IN
    \A col \in DOMAIN t.columns, value \in Probes : IndexAgreesWithScan(t, col, value)

\* The table that p's DELETE puts in place of one with columns has its columns
\* and exactly its rows that do not match, in their order.  In a table of one
\* column a torn row may be an empty text, which the copy has as a blank line.
OnlyMatchesLeave(p) ==
  LET s   == proc[p].call.stmt
      new == ReadTable(text[path'])
  IN  Table.columns # <<>> /\ (torn = "none" \/ Len(Table.columns) > 1) =>
        /\ Table.ok /\ new.ok /\ new.columns = Table.columns
        /\ new.rows = At(Table.rows, {k \in DOMAIN Table.rows :
                           ~Matches(s, Table.columns, Table.rows[k])})

\* When storage_delete replaces the file, only the rows that match are gone,
\* whatever others did since the DELETE read them, unless the copy itself was
\* cut short.
DeleteKeepsOthers ==
  [][\A p \in Deleters :
       path' # path /\ Is(p, "rename", "delete") /\ torn # "delete" =>
         OnlyMatchesLeave(p)]_vars

RowReadBack(p) ==
  LET w   == Written(proc[p].call.stmt, text[proc[p].fp])
      new == ReadTable(text'[path'])
  IN  new.ok /\ new.rows = Append(Table.rows, w.row)

\* An INSERT that returns SUCCESS has added its row, with the values as they
\* were given, and changed no other, if no write has been cut short and the
\* file was not replaced while it waited for the lock.
InsertIsReadBack ==
  [][\A p \in Procs :
       FlushInsert(p) /\ torn = "none" /\ proc[p].fp = path => RowReadBack(p)]_vars

\* As presentation_qa.md has it, flock protects concurrent reads and writes of
\* the CSV file: an INSERT that returns SUCCESS has added its row.
InsertIsNotLost == [][\A p \in Procs : FlushInsert(p) => RowReadBack(p)]_vars
=============================================================================
