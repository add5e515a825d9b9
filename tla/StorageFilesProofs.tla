------------------------- MODULE StorageFilesProofs -------------------------
(***************************************************************************)
(* Proofs about StorageFiles, for every number of processes, every table    *)
(* text, every statement and every fault, as long as one process deletes.   *)
(* First the files and locks, where Written, Rewritten and ReadTable are    *)
(* never expanded; then the contents of the files, for statements whose     *)
(* values keep to one line: what INSERT has written is read back, DELETE    *)
(* keeps the other rows, ids stay unique, no row is made of a torn line,    *)
(* offsets stay valid and an index answers as a scan does.                  *)
(***************************************************************************)
EXTENDS StorageFiles, TableIndexProofs

OneDeleter == \A p, q \in Deleters : p = q

\* The paths and the inodes they name.
FilesInv ==
  /\ created \in 0 .. MaxInodes
  /\ path \in 0 .. created /\ temp \in 0 .. created
  /\ path = temp => path = None
  /\ DOMAIN text = Inodes /\ DOMAIN proc = Procs

\* The record of a process inside a call.
Working(r) ==
  /\ r \in [pc : {"lock", "locked", "flush", "rename"}, call : {r.call},
            fp : 1 .. created, tp : 0 .. created, buf : {r.buf}]
  /\ r.call.kind \in {"load", "insert", "delete"}
  /\ r.pc = "flush" => r.call.kind # "load"
  /\ r.pc = "rename" => r.call.kind = "delete"

\* A process outside a call, or in one: it has the table open, not the temporary
\* file; the deleting process has the present table open, and its temporary
\* file is the one that has the name.
ProcInv(p) ==
  LET r == proc[p] IN
  \/ r = Idle
  \/ /\ Working(r)
     /\ r.fp # temp
     /\ r.call.kind = "delete" =>
          /\ p \in Deleters /\ r.fp = path
          /\ r.pc \in {"flush", "rename"} => r.tp = temp /\ temp # None

\* flock: who shares an inode behind the lock shares LOCK_SH.
LocksInv ==
  \A p, q \in Procs :
    /\ p # q /\ Busy(p) /\ Busy(q)
    /\ proc[p].pc # "lock" /\ proc[q].pc # "lock" /\ proc[p].fp = proc[q].fp
    => Compatible(p, q)

\* WritesAreCurrent for one process.
Current(p) ==
  /\ Is(p, "flush", "insert") =>
       proc[p].buf = Written(proc[p].call.stmt, text[proc[p].fp]).buf
  /\ Is(p, "flush", "delete") \/ Is(p, "rename", "delete") =>
       proc[p].fp = path /\ proc[p].buf = Rewritten(proc[p].call.stmt, Table)

\* The inductive invariant.
IndInv == /\ FilesInv /\ LocksInv
          /\ \A p \in Procs : ProcInv(p) /\ Current(p)

-----------------------------------------------------------------------------
LEMMA MaxOfTwo ==
  ASSUME NEW a \in Int, NEW b \in Int, a <= b
  PROVE  Max({a, b}) = b /\ Max({b, a}) = b
<1>1. \A m : (m \in {a, b} /\ \A n \in {a, b} : m >= n) <=> m = b
  OBVIOUS
<1>2. {a, b} = {b, a}
  OBVIOUS
<1>3. Max({a, b}) = b
  BY <1>1 DEF Max
<1> QED BY <1>2, <1>3

LEMMA BusyIsWorking ==
  ASSUME NEW p \in Procs, ProcInv(p), Busy(p)
  PROVE  /\ Working(proc[p]) /\ proc[p].fp # temp
         /\ proc[p].call.kind = "delete" =>
              /\ p \in Deleters /\ proc[p].fp = path
              /\ proc[p].pc \in {"flush", "rename"} => proc[p].tp = temp /\ temp # None
  BY DEF ProcInv, Busy

LEMMA WorkingIsBusy ==
  ASSUME NEW r, Working(r)
  PROVE  r # Idle
<1>1. r.pc # "idle"
  BY DEF Working
<1> QED BY <1>1 DEF Idle

\* A process that does nothing keeps its part of the invariant, if its file
\* stays as it is once it has read it, does not become the temporary file, and
\* the names stay if the process deletes.
LEMMA OtherKept ==
  ASSUME FilesInv, NEW q \in Procs, ProcInv(q), Current(q), proc'[q] = proc[q],
         created' \in Nat, created <= created',
         Busy(q) =>
           /\ proc[q].fp # temp'
           /\ \/ text'[proc[q].fp] = text[proc[q].fp]
              \/ proc[q].pc \in {"lock", "locked"}
           /\ proc[q].call.kind = "delete" => UNCHANGED <<path, temp>>
  PROVE  ProcInv(q)' /\ Current(q)'
<1>1. CASE proc[q] = Idle
  BY <1>1 DEF ProcInv, Current, Is, Busy
<1>2. CASE Busy(q)
  <2> DEFINE r == proc[q]
  <2>1. Working(r) /\ Busy(q)'
    BY <1>2, BusyIsWorking DEF Busy
  <2>2. Working(r)'
    BY <2>1 DEF Working, FilesInv
  <2>3. ProcInv(q)'
    BY <1>2, <2>2, BusyIsWorking DEF ProcInv
  <2>4. Current(q)'
    BY <1>2, <2>1, BusyIsWorking DEF Current, Is, Table
  <2> QED BY <2>3, <2>4
<1> QED BY <1>1, <1>2 DEF Busy

\* The locks of a step that takes none.
LEMMA LocksKept ==
  ASSUME LocksInv, NEW p \in Procs, \A q \in Procs \ {p} : proc'[q] = proc[q],
         \/ proc'[p] = Idle
         \/ proc'[p].pc = "lock"
         \/ /\ Busy(p) /\ proc[p].pc # "lock"
            /\ proc'[p].fp = proc[p].fp /\ proc'[p].call = proc[p].call
  PROVE  LocksInv'
  BY DEF LocksInv, Busy, Compatible, Exclusive

\* A process that closes its file.
LEMMA Closed ==
  ASSUME FilesInv, LocksInv, NEW p \in Procs, Close(p)
  PROVE  /\ proc'[p] = Idle /\ DOMAIN proc' = Procs
         /\ \A q \in Procs \ {p} : proc'[q] = proc[q]
         /\ ProcInv(p)' /\ Current(p)' /\ LocksInv'
<1>1. /\ proc'[p] = Idle /\ DOMAIN proc' = Procs
      /\ \A q \in Procs \ {p} : proc'[q] = proc[q]
  BY DEF Close, FilesInv
<1> QED BY <1>1, LocksKept DEF ProcInv, Current, Is, Busy

\* The record that fopen leaves behind.
Opened(call, inode) ==
  [pc |-> "lock", call |-> call, fp |-> inode, tp |-> None, buf |-> <<>>]

LEMMA Started ==
  ASSUME FilesInv, LocksInv, NEW p \in Procs, NEW call, NEW inode \in Nat \ {0},
         Start(p, call, inode),
         call.kind \in {"load", "insert", "delete"},
         created' \in Nat, inode <= created', inode # temp',
         call.kind = "delete" => p \in Deleters /\ inode = path'
  PROVE  /\ ~Busy(p) /\ DOMAIN proc' = Procs
         /\ \A q \in Procs \ {p} : proc'[q] = proc[q]
         /\ ProcInv(p)' /\ Current(p)' /\ LocksInv'
<1>1. /\ proc'[p] = Opened(call, inode) /\ DOMAIN proc' = Procs /\ ~Busy(p)
      /\ \A q \in Procs \ {p} : proc'[q] = proc[q]
  BY DEF Start, FilesInv, Opened
<1>2. /\ proc'[p].pc = "lock" /\ proc'[p].call = call /\ proc'[p].fp = inode
      /\ proc'[p].tp = 0
  BY <1>1 DEF Opened, None
<1>3. Working(proc[p])'
  BY <1>1 DEF Working, Opened, None
<1>4. ProcInv(p)'
  BY <1>2, <1>3 DEF ProcInv
<1>5. Current(p)'
  BY <1>2 DEF Current, Is
<1> QED BY <1>1, <1>2, <1>4, <1>5, LocksKept

LEMMA OpenForInsertStep ==
  ASSUME IndInv, NEW p \in Procs, NEW s \in Inserts, OpenForInsert(p, s)
  PROVE  IndInv'
<1>0. FilesInv /\ LocksInv /\ \A q \in Procs : ProcInv(q) /\ Current(q)
  BY DEF IndInv
<1>1. InsertCall(s).kind = "insert"
  BY DEF InsertCall
<1>2. UNCHANGED <<temp, text>>
  BY DEF OpenForInsert
<1>3. /\ created' \in 0 .. MaxInodes /\ created <= created'
      /\ path' \in 1 .. created' /\ path' # temp'
      /\ Start(p, InsertCall(s), path')
      /\ path # None => path' = path
  BY <1>0, <1>2, MaxInodesAssumption DEF OpenForInsert, FilesInv, None
<1>4. /\ DOMAIN proc' = Procs /\ \A q \in Procs \ {p} : proc'[q] = proc[q]
      /\ ProcInv(p)' /\ Current(p)' /\ LocksInv'
  BY <1>0, <1>1, <1>3, Started
<1>5. FilesInv'
  BY <1>0, <1>2, <1>3, <1>4, MaxInodesAssumption DEF FilesInv
<1>6. ASSUME NEW q \in Procs \ {p} PROVE ProcInv(q)' /\ Current(q)'
  <2>1. Busy(q) => proc[q].fp # temp /\ (proc[q].call.kind = "delete" => path' = path)
    BY <1>0, <1>3, BusyIsWorking DEF Working, None
  <2> QED BY <1>0, <1>2, <1>3, <1>4, <2>1, MaxInodesAssumption, OtherKept
<1> QED BY <1>4, <1>5, <1>6 DEF IndInv

LEMMA OpenForReadStep ==
  ASSUME IndInv, NEW p \in Procs, NEW call, OpenForRead(p, call),
         call.kind = "load" \/ (call.kind = "delete" /\ p \in Deleters)
  PROVE  IndInv'
<1>0. FilesInv /\ LocksInv /\ \A q \in Procs : ProcInv(q) /\ Current(q)
  BY DEF IndInv
<1>1. UNCHANGED <<path, temp, text, created>> /\ Start(p, call, path) /\ path # None
  BY DEF OpenForRead
<1>2. created \in Nat /\ path \in 1 .. created /\ path # temp
  BY <1>0, <1>1 DEF FilesInv, None
<1>3. /\ DOMAIN proc' = Procs /\ \A q \in Procs \ {p} : proc'[q] = proc[q]
      /\ ProcInv(p)' /\ Current(p)' /\ LocksInv'
  BY <1>0, <1>1, <1>2, Started
<1>4. ASSUME NEW q \in Procs \ {p} PROVE ProcInv(q)' /\ Current(q)'
  BY <1>0, <1>1, <1>2, <1>3, OtherKept, BusyIsWorking
<1> QED BY <1>0, <1>1, <1>3, <1>4 DEF IndInv, FilesInv

LEMMA LockFileStep ==
  ASSUME IndInv, NEW p \in Procs, Lock(p)
  PROVE  IndInv'
<1>0. FilesInv /\ LocksInv /\ \A q \in Procs : ProcInv(q) /\ Current(q)
  BY DEF IndInv
<1>1. /\ UNCHANGED <<path, temp, text, created>> /\ Busy(p) /\ proc[p].pc = "lock"
      /\ proc' = [proc EXCEPT ![p].pc = "locked"] /\ created \in Nat
      /\ \A q \in Procs \ {p} :
           Busy(q) /\ proc[q].pc # "lock" /\ proc[q].fp = proc[p].fp => Compatible(p, q)
  BY <1>0 DEF Lock, FilesInv
<1>2. Working(proc[p])
  BY <1>0, <1>1, BusyIsWorking
<1>3. /\ DOMAIN proc' = Procs /\ \A q \in Procs \ {p} : proc'[q] = proc[q]
      /\ proc'[p] = [proc[p] EXCEPT !.pc = "locked"]
  BY <1>0, <1>1 DEF FilesInv
<1>4. /\ proc'[p].pc = "locked" /\ proc'[p].call = proc[p].call /\ proc'[p].fp = proc[p].fp
      /\ Working(proc[p])'
  BY <1>1, <1>2, <1>3 DEF Working
<1>5. ProcInv(p)' /\ Current(p)'
  BY <1>0, <1>1, <1>4, BusyIsWorking DEF ProcInv, Current, Is
<1>6. ASSUME NEW q \in Procs \ {p} PROVE ProcInv(q)' /\ Current(q)'
  BY <1>0, <1>1, <1>3, OtherKept, BusyIsWorking
<1>7. LocksInv'
  BY <1>0, <1>1, <1>3, <1>4 DEF LocksInv, Busy, Compatible, Exclusive
<1> QED BY <1>0, <1>1, <1>3, <1>5, <1>6, <1>7 DEF IndInv, FilesInv

-----------------------------------------------------------------------------
(* Steps with the file open *)

\* What a step of another process must leave alone.
Undisturbed(q) ==
  Busy(q) =>
    /\ proc[q].fp # temp'
    /\ \/ text'[proc[q].fp] = text[proc[q].fp]
       \/ proc[q].pc \in {"lock", "locked"}
    /\ proc[q].call.kind = "delete" => UNCHANGED <<path, temp>>

LEMMA StepKept ==
  ASSUME IndInv, NEW p \in Procs, FilesInv', created <= created',
         \A q \in Procs \ {p} : proc'[q] = proc[q] /\ Undisturbed(q),
         ProcInv(p)', Current(p)', LocksInv'
  PROVE  IndInv'
<1>1. created' \in Nat
  BY DEF FilesInv
<1>2. ASSUME NEW q \in Procs \ {p} PROVE ProcInv(q)' /\ Current(q)'
  BY <1>1, OtherKept DEF IndInv, Undisturbed
<1> QED BY <1>2 DEF IndInv

LEMMA CloseStep ==
  ASSUME IndInv, NEW p \in Procs, Close(p), created \in Nat, created <= created',
         created' \in 0 .. MaxInodes, path' \in 0 .. created', temp' \in 0 .. created',
         path' = temp' => path' = None, DOMAIN text' = Inodes,
         \A q \in Procs \ {p} : Undisturbed(q)
  PROVE  IndInv'
<1>1. FilesInv /\ LocksInv
  BY DEF IndInv
<1>2. /\ DOMAIN proc' = Procs /\ \A q \in Procs \ {p} : proc'[q] = proc[q]
      /\ ProcInv(p)' /\ Current(p)' /\ LocksInv'
  BY <1>1, Closed
<1>3. FilesInv'
  BY <1>2 DEF FilesInv
<1> QED BY <1>2, <1>3, StepKept

\* Nothing happens to the files.
LEMMA NothingDisturbs ==
  ASSUME IndInv, UNCHANGED <<path, temp, text, created>>
  PROVE  \A q \in Procs : Undisturbed(q)
  BY BusyIsWorking DEF IndInv, Undisturbed

\* A write to a file that nobody has opened as the table.
LEMMA OtherFileWritten ==
  ASSUME IndInv, NEW i \in Inodes, NEW new, text' = [text EXCEPT ![i] = new],
         temp' = temp, path' = path,
         \A q \in Procs : Busy(q) => proc[q].fp # i
  PROVE  \A q \in Procs : Undisturbed(q)
<1>1. DOMAIN text = Inodes /\ created \in 0 .. MaxInodes
  BY DEF IndInv, FilesInv
<1>2. ASSUME NEW q \in Procs, Busy(q) PROVE proc[q].fp \in Inodes /\ proc[q].fp # temp
  BY <1>1, <1>2, BusyIsWorking, MaxInodesAssumption DEF IndInv, Working, Inodes
<1> QED BY <1>1, <1>2 DEF Undisturbed

\* A write to the table by a process that has it locked exclusively.
LEMMA OwnFileWritten ==
  ASSUME IndInv, NEW p \in Procs, Busy(p), proc[p].pc # "lock", Exclusive(p),
         NEW new, text' = [text EXCEPT ![proc[p].fp] = new],
         temp' = temp, path' = path
  PROVE  \A q \in Procs \ {p} : Undisturbed(q)
<1>1. DOMAIN text = Inodes /\ created \in 0 .. MaxInodes
  BY DEF IndInv, FilesInv
<1>2. ASSUME NEW q \in Procs \ {p}, Busy(q) PROVE proc[q].fp \in Inodes /\ proc[q].fp # temp
  BY <1>1, <1>2, BusyIsWorking, MaxInodesAssumption DEF IndInv, Working, Inodes
<1>3. ASSUME NEW q \in Procs \ {p}, Busy(q), proc[q].pc # "lock" PROVE proc[q].fp # proc[p].fp
  BY <1>3 DEF IndInv, LocksInv, Compatible
<1> QED BY <1>1, <1>2, <1>3 DEF Undisturbed

\* Only one process deletes, and the file it copies to is nobody's table.
LEMMA OthersDoNotDelete ==
  ASSUME OneDeleter, IndInv, NEW p \in Procs, Busy(p), proc[p].call.kind = "delete"
  PROVE  \A q \in Procs \ {p} : Busy(q) => proc[q].call.kind # "delete"
  BY BusyIsWorking DEF IndInv, OneDeleter

LEMMA LoadStep ==
  ASSUME IndInv, NEW p \in Procs, Load(p)
  PROVE  IndInv'
<1>1. UNCHANGED <<path, temp, text, created>> /\ Close(p)
  BY DEF Load
<1>2. FilesInv /\ created \in Nat
  BY DEF IndInv, FilesInv
<1> QED BY <1>1, <1>2, NothingDisturbs, CloseStep DEF FilesInv

LEMMA InsertStep ==
  ASSUME IndInv, NEW p \in Procs, Insert(p)
  PROVE  IndInv'
<1> DEFINE w == Written(proc[p].call.stmt, text[proc[p].fp])
<1>0. FilesInv /\ created \in Nat /\ LocksInv /\ ProcInv(p)
  BY DEF IndInv, FilesInv
<1>1. /\ UNCHANGED <<path, temp, text, created>>
      /\ Busy(p) /\ proc[p].pc = "locked" /\ proc[p].call.kind = "insert"
      /\ Close(p) \/ proc' = [proc EXCEPT ![p].pc = "flush", ![p].buf = w.buf]
  BY DEF Insert, Is
<1>2. CASE Close(p)
  BY <1>0, <1>1, <1>2, NothingDisturbs, CloseStep DEF FilesInv
<1>3. CASE proc' = [proc EXCEPT ![p].pc = "flush", ![p].buf = w.buf]
  <2>1. Working(proc[p]) /\ proc[p].fp # temp
    BY <1>0, <1>1, BusyIsWorking
  <2> DEFINE buf == w.buf
  <2>2. proc' = [proc EXCEPT ![p].pc = "flush", ![p].buf = buf]
    BY <1>3
  <2> HIDE DEF w, buf
  <2>3. /\ DOMAIN proc' = Procs /\ \A q \in Procs \ {p} : proc'[q] = proc[q]
        /\ proc'[p] = [proc[p] EXCEPT !.pc = "flush", !.buf = buf]
    BY <1>0, <2>2 DEF FilesInv
  <2>4. /\ proc'[p].pc = "flush" /\ proc'[p].buf = buf
        /\ proc'[p].call = proc[p].call /\ proc'[p].fp = proc[p].fp
        /\ Working(proc[p])'
    BY <1>1, <2>1, <2>3 DEF Working
  <2>5. ProcInv(p)'
    BY <1>1, <2>1, <2>4 DEF ProcInv
  <2>6. Current(p)'
    BY <1>1, <2>4 DEF Current, Is, w, buf
  <2>7. LocksInv' /\ FilesInv'
    BY <1>0, <1>1, <2>3, <2>4, LocksKept DEF FilesInv
  <2> QED BY <1>0, <1>1, <2>3, <2>5, <2>6, <2>7, NothingDisturbs, StepKept
<1> QED BY <1>1, <1>2, <1>3

LEMMA FlushInsertStep ==
  ASSUME IndInv, NEW p \in Procs, FlushInsert(p)
  PROVE  IndInv'
<1>0. FilesInv /\ created \in Nat
  BY DEF IndInv, FilesInv
<1>1. /\ UNCHANGED <<path, temp, created>> /\ Close(p)
      /\ Busy(p) /\ proc[p].pc = "flush" /\ proc[p].call.kind = "insert"
      /\ text' = [text EXCEPT ![proc[p].fp] = text[proc[p].fp] \o proc[p].buf]
  BY DEF FlushInsert, Is
<1>2. \A q \in Procs \ {p} : Undisturbed(q)
  BY <1>1, OwnFileWritten DEF Exclusive
<1> QED BY <1>0, <1>1, <1>2, CloseStep DEF FilesInv

\* The table is copied to the temporary file, which no process has open as the
\* table: it is new, or it has the name temp.
LEMMA DeleteStep ==
  ASSUME OneDeleter, IndInv, NEW p \in Procs, Delete(p)
  PROVE  IndInv'
<1> DEFINE t == ReadTable(text[proc[p].fp])
           inode == IF temp = None THEN created + 1 ELSE temp
           new == Rewritten(proc[p].call.stmt, t)
<1>0. /\ FilesInv /\ LocksInv /\ \A q \in Procs : ProcInv(q) /\ Current(q)
      /\ created \in Nat
  BY DEF IndInv, FilesInv
<1>1. Busy(p) /\ proc[p].pc = "locked" /\ proc[p].call.kind = "delete" /\ path' = path
  BY DEF Delete, Is
<1>2. Working(proc[p]) /\ proc[p].fp # temp /\ p \in Deleters /\ proc[p].fp = path
  BY <1>0, <1>1, BusyIsWorking
<1>3. \/ Close(p) /\ UNCHANGED <<temp, text, created>>
      \/ /\ inode <= MaxInodes /\ text' = [text EXCEPT ![inode] = <<>>]
         /\ created' = Max({created, inode})
         /\ \/ Close(p) /\ temp' = None
            \/ /\ proc' = [proc EXCEPT ![p].pc = "flush", ![p].tp = inode, ![p].buf = new]
               /\ temp' = inode
  BY DEF Delete
<1>4. CASE Close(p) /\ UNCHANGED <<temp, text, created>>
  BY <1>0, <1>1, <1>4, NothingDisturbs, CloseStep DEF FilesInv
<1>5. CASE /\ inode <= MaxInodes /\ text' = [text EXCEPT ![inode] = <<>>]
           /\ created' = Max({created, inode})
           /\ \/ Close(p) /\ temp' = None
              \/ /\ proc' = [proc EXCEPT ![p].pc = "flush", ![p].tp = inode, ![p].buf = new]
                 /\ temp' = inode
  <2>1. /\ inode \in 1 .. MaxInodes /\ created \in 0 .. MaxInodes
        /\ temp # None => inode = temp /\ inode <= created
        /\ temp = None => inode = created + 1
    BY <1>0, <1>5, MaxInodesAssumption DEF FilesInv, None
  <2>2. /\ created' \in 0 .. MaxInodes /\ created <= created' /\ inode \in 1 .. created'
    <3>1. CASE created <= inode
      BY <1>5, <2>1, <3>1, MaxOfTwo, MaxInodesAssumption
    <3>2. CASE inode <= created
      BY <1>5, <2>1, <3>2, MaxOfTwo, MaxInodesAssumption
    <3> QED BY <2>1, <3>1, <3>2, MaxInodesAssumption
  <2>3. ASSUME NEW q \in Procs, Busy(q) PROVE proc[q].fp \in 1 .. created /\ proc[q].fp # inode
    <3>1. proc[q].fp \in 1 .. created /\ proc[q].fp # temp
      BY <1>0, <2>3, BusyIsWorking DEF Working
    <3> QED BY <2>1, <3>1
  <2>4. text' = [text EXCEPT ![inode] = <<>>] /\ DOMAIN text = Inodes
    BY <1>0, <1>5 DEF FilesInv
  <2>5. CASE Close(p) /\ temp' = None
    <3>1. ASSUME NEW q \in Procs \ {p} PROVE Undisturbed(q)
      <4>1. SUFFICES ASSUME Busy(q) PROVE Undisturbed(q)
        BY DEF Undisturbed
      <4>2. proc[q].call.kind # "delete"
        BY <1>1, <4>1, OthersDoNotDelete
      <4>3. proc[q].fp \in Inodes /\ proc[q].fp # inode /\ proc[q].fp # 0
        BY <2>1, <2>3, <4>1, MaxInodesAssumption DEF Inodes
      <4> QED BY <2>4, <2>5, <4>2, <4>3 DEF Undisturbed, None
    <3>2. path \in 0 .. created' /\ DOMAIN text' = Inodes
      BY <1>0, <2>1, <2>2, <2>4 DEF FilesInv
    <3> QED BY <1>0, <1>1, <2>2, <2>5, <3>1, <3>2, CloseStep DEF None
  <2>6. CASE proc' = [proc EXCEPT ![p].pc = "flush", ![p].tp = inode, ![p].buf = new]
             /\ temp' = inode
    <3>1. text'[path] = text[path] /\ path # inode /\ path # None
      BY <1>1, <1>2, <2>1, <2>3, <2>4, MaxInodesAssumption DEF Inodes, None
    <3>2. Table' = t /\ path \in 0 .. created' /\ DOMAIN text' = Inodes
      BY <1>0, <1>1, <1>2, <2>1, <2>2, <2>4, <3>1 DEF Table, FilesInv
    <3> HIDE DEF inode, new
    <3>3. /\ DOMAIN proc' = Procs /\ \A q \in Procs \ {p} : proc'[q] = proc[q]
          /\ proc'[p] = [proc[p] EXCEPT !.pc = "flush", !.tp = inode, !.buf = new]
      BY <1>0, <2>6 DEF FilesInv
    <3>4. /\ proc'[p].pc = "flush" /\ proc'[p].buf = new /\ proc'[p].tp = inode
          /\ proc'[p].call = proc[p].call /\ proc'[p].fp = proc[p].fp
          /\ Working(proc[p])'
      <4>1. proc[p].fp \in 1 .. created'
        BY <1>0, <1>2, <2>2 DEF Working
      <4>2. /\ proc'[p].pc = "flush" /\ proc'[p].buf = new /\ proc'[p].tp = inode
            /\ proc'[p].call = proc[p].call /\ proc'[p].fp = proc[p].fp
        BY <1>2, <3>3 DEF Working
      <4>3. proc'[p] \in [pc : {"flush"}, call : {proc[p].call}, fp : {proc[p].fp},
                          tp : {inode}, buf : {new}]
        BY <1>2, <3>3 DEF Working
      <4>4. proc'[p] \in [pc : {"lock", "locked", "flush", "rename"}, call : {proc'[p].call},
                          fp : 1 .. created', tp : 0 .. created', buf : {proc'[p].buf}]
        BY <2>2, <4>1, <4>2, <4>3
      <4> QED BY <1>1, <4>2, <4>4 DEF Working
    <3>5. ProcInv(p)'
      BY <1>1, <1>2, <2>1, <2>6, <3>1, <3>4 DEF ProcInv, None
    <3>6. Current(p)'
      BY <1>1, <1>2, <3>2, <3>4 DEF Current, Is, new
    <3>7. LocksInv' /\ FilesInv'
      BY <1>0, <1>1, <2>2, <2>6, <3>1, <3>2, <3>3, <3>4, LocksKept DEF FilesInv
    <3>8. ASSUME NEW q \in Procs \ {p} PROVE Undisturbed(q)
      <4>1. SUFFICES ASSUME Busy(q) PROVE Undisturbed(q)
        BY DEF Undisturbed
      <4>2. proc[q].call.kind # "delete"
        BY <1>1, <4>1, OthersDoNotDelete
      <4>3. proc[q].fp \in Inodes /\ proc[q].fp # inode
        BY <2>1, <2>3, <4>1, MaxInodesAssumption DEF Inodes
      <4> QED BY <2>4, <2>6, <4>2, <4>3 DEF Undisturbed
    <3> QED BY <2>2, <3>3, <3>5, <3>6, <3>7, <3>8, StepKept
  <2> QED BY <1>5, <2>5, <2>6
<1> QED BY <1>3, <1>4, <1>5

\* The temporary file gets its text, all of it or a part.
LEMMA TempWritten ==
  ASSUME IndInv, NEW p \in Procs, Is(p, "flush", "delete"), NEW new,
         text' = [text EXCEPT ![proc[p].tp] = new],
         proc' = [proc EXCEPT ![p].pc = "rename"],
         UNCHANGED <<path, temp, created>>
  PROVE  IndInv'
<1>0. /\ FilesInv /\ LocksInv /\ \A q \in Procs : ProcInv(q) /\ Current(q)
      /\ created \in Nat
  BY DEF IndInv, FilesInv
<1>1. Busy(p) /\ proc[p].pc = "flush" /\ proc[p].call.kind = "delete"
  BY DEF Is
<1>2. /\ Working(proc[p]) /\ proc[p].fp # temp /\ p \in Deleters /\ proc[p].fp = path
      /\ proc[p].tp = temp /\ temp # None
  BY <1>0, <1>1, BusyIsWorking
<1>3. temp \in Inodes /\ path \in Inodes /\ path # temp /\ DOMAIN text = Inodes
  BY <1>0, <1>2, MaxInodesAssumption DEF FilesInv, Working, Inodes, None
<1>4. \A q \in Procs : Undisturbed(q)
  BY <1>0, <1>2, <1>3, BusyIsWorking, OtherFileWritten
<1>5. Table' = Table /\ DOMAIN text' = Inodes
  BY <1>2, <1>3 DEF Table
<1>6. /\ DOMAIN proc' = Procs /\ \A q \in Procs \ {p} : proc'[q] = proc[q]
      /\ proc'[p] = [proc[p] EXCEPT !.pc = "rename"]
  BY <1>0 DEF FilesInv
<1>7. /\ proc'[p].pc = "rename" /\ proc'[p].buf = proc[p].buf /\ proc'[p].tp = proc[p].tp
      /\ proc'[p].call = proc[p].call /\ proc'[p].fp = proc[p].fp
      /\ Working(proc[p])'
  BY <1>1, <1>2, <1>6 DEF Working
<1>8. ProcInv(p)'
  BY <1>1, <1>2, <1>7 DEF ProcInv
<1>9. Current(p)'
  BY <1>0, <1>1, <1>2, <1>5, <1>7 DEF Current, Is
<1>10. LocksInv' /\ FilesInv'
  BY <1>0, <1>1, <1>5, <1>6, <1>7, LocksKept DEF FilesInv
<1> QED BY <1>0, <1>4, <1>6, <1>8, <1>9, <1>10, StepKept

LEMMA FlushDeleteStep ==
  ASSUME IndInv, NEW p \in Procs, FlushDelete(p)
  PROVE  IndInv'
  BY TempWritten DEF FlushDelete

\* rename: those that have the old file open go on with it; none of them deletes.
LEMMA RenameStep ==
  ASSUME OneDeleter, IndInv, NEW p \in Procs, Rename(p) \/ RenameFails(p)
  PROVE  IndInv'
<1>0. FilesInv /\ created \in Nat
  BY DEF IndInv, FilesInv
<1>1. /\ Busy(p) /\ proc[p].call.kind = "delete" /\ Close(p)
      /\ path' \in {path, temp} /\ temp' = None
      /\ UNCHANGED <<text, created>>
  BY DEF Rename, RenameFails, Is
<1>2. ASSUME NEW q \in Procs \ {p} PROVE Undisturbed(q)
  <2>1. SUFFICES ASSUME Busy(q) PROVE Undisturbed(q)
    BY DEF Undisturbed
  <2>2. proc[q].call.kind # "delete"
    BY <1>1, <2>1, OthersDoNotDelete
  <2>3. proc[q].fp \in 1 .. created
    BY <2>1, BusyIsWorking DEF IndInv, Working
  <2> QED BY <1>0, <1>1, <2>2, <2>3 DEF Undisturbed, None
<1> QED BY <1>0, <1>1, <1>2, CloseStep DEF FilesInv, None

\* Where a write that is cut short has left its part.
LEMMA CutShortWrites ==
  ASSUME IndInv, NEW p \in Procs, Busy(p), CutShort(p)
  PROVE  /\ proc[p].pc = "flush"
         /\ \/ /\ proc[p].call.kind = "insert"
               /\ \E new : text' = [text EXCEPT ![proc[p].fp] = new]
            \/ /\ proc[p].call.kind = "delete"
               /\ \E new : text' = [text EXCEPT ![proc[p].tp] = new]
<1>1. Working(proc[p]) /\ proc[p].pc = "flush"
  BY BusyIsWorking DEF IndInv, CutShort
<1>2. proc[p].call.kind \in {"insert", "delete"}
  BY <1>1 DEF Working
<1>3. PICK n \in 0 .. Len(proc[p].buf) - 1 :
        LET part == SubSeq(proc[p].buf, 1, n) IN
        text' = IF proc[p].call.kind = "insert"
                  THEN [text EXCEPT ![proc[p].fp] = @ \o part]
                  ELSE [text EXCEPT ![proc[p].tp] = Over(part, @)]
  BY DEF CutShort
<1> QED BY <1>1, <1>2, <1>3

LEMMA ShortFlushStep ==
  ASSUME IndInv, NEW p \in Procs, ShortFlush(p)
  PROVE  IndInv'
<1>0. FilesInv /\ created \in Nat
  BY DEF IndInv, FilesInv
<1>1. /\ Busy(p) /\ CutShort(p) /\ UNCHANGED <<path, temp, created>>
      /\ IF proc[p].call.kind = "insert" THEN Close(p)
                                         ELSE proc' = [proc EXCEPT ![p].pc = "rename"]
  BY DEF ShortFlush
<1>2. proc[p].pc = "flush"
  BY <1>1, CutShortWrites
<1>3. CASE /\ proc[p].call.kind = "insert"
           /\ \E new : text' = [text EXCEPT ![proc[p].fp] = new]
  <2>1. \A q \in Procs \ {p} : Undisturbed(q)
    BY <1>1, <1>2, <1>3, OwnFileWritten DEF Exclusive
  <2> QED BY <1>0, <1>1, <1>3, <2>1, CloseStep DEF FilesInv
<1>4. CASE /\ proc[p].call.kind = "delete"
           /\ \E new : text' = [text EXCEPT ![proc[p].tp] = new]
  BY <1>1, <1>2, <1>4, TempWritten DEF Is
<1> QED BY <1>1, <1>3, <1>4, CutShortWrites

LEMMA CrashStep ==
  ASSUME IndInv, NEW p \in Procs, Crash(p)
  PROVE  IndInv'
<1>0. FilesInv /\ created \in Nat
  BY DEF IndInv, FilesInv
<1>1. Busy(p) /\ Close(p) /\ UNCHANGED <<path, temp, created>> /\ (CutShort(p) \/ UNCHANGED text)
  BY DEF Crash
<1>2. \A q \in Procs \ {p} : Undisturbed(q)
  <2>1. CASE UNCHANGED text
    BY <1>1, <2>1, NothingDisturbs
  <2>2. CASE /\ CutShort(p) /\ proc[p].call.kind = "insert"
             /\ \E new : text' = [text EXCEPT ![proc[p].fp] = new]
    BY <1>1, <2>2, CutShortWrites, OwnFileWritten DEF Exclusive
  <2>3. CASE /\ CutShort(p) /\ proc[p].call.kind = "delete"
             /\ \E new : text' = [text EXCEPT ![proc[p].tp] = new]
    <3>1. proc[p].pc = "flush"
      BY <1>1, <2>3, CutShortWrites
    <3>2. proc[p].tp = temp /\ temp # None
      BY <1>1, <2>3, <3>1, BusyIsWorking DEF IndInv
    <3>3. temp \in Inodes
      BY <1>0, <3>2, MaxInodesAssumption DEF FilesInv, Inodes, None
    <3> QED BY <1>1, <2>3, <3>2, <3>3, BusyIsWorking, OtherFileWritten DEF IndInv
  <2> QED BY <1>1, <2>1, <2>2, <2>3, CutShortWrites
<1>3. DOMAIN text' = Inodes
  BY <1>0, <1>1, CutShortWrites DEF FilesInv
<1> QED BY <1>0, <1>1, <1>2, <1>3, CloseStep DEF FilesInv

-----------------------------------------------------------------------------
LEMMA IndInit == Init => IndInv
<1> SUFFICES ASSUME Init PROVE IndInv
  OBVIOUS
<1>1. FilesInv
  BY MaxInodesAssumption DEF Init, FilesInv, None, Inodes
<1>2. \A p \in Procs : proc[p] = Idle
  BY DEF Init
<1>3. LocksInv /\ \A p \in Procs : ProcInv(p) /\ Current(p)
  BY <1>2 DEF LocksInv, ProcInv, Current, Is, Busy
<1> QED BY <1>1, <1>3 DEF IndInv

LEMMA IndNext ==
  ASSUME OneDeleter, IndInv, [Next]_vars
  PROVE  IndInv'
<1>1. CASE UNCHANGED vars
  BY <1>1 DEF vars, IndInv, FilesInv, LocksInv, ProcInv, Working, Current, Is, Busy,
              Compatible, Exclusive, Table
<1>2. CASE Next
  <2>1. PICK p \in Procs :
          \/ \E s \in Inserts : OpenForInsert(p, s)
          \/ OpenForRead(p, LoadCall)
          \/ p \in Deleters /\ \E s \in Deletes : OpenForRead(p, DeleteCall(s))
          \/ Step(p) \/ ShortFlush(p) \/ Crash(p)
    BY <1>2 DEF Next
  <2>2. CASE \E s \in Inserts : OpenForInsert(p, s)
    BY <2>2, OpenForInsertStep
  <2>3. CASE OpenForRead(p, LoadCall)
    BY <2>3, OpenForReadStep DEF LoadCall
  <2>4. CASE p \in Deleters /\ \E s \in Deletes : OpenForRead(p, DeleteCall(s))
    <3>1. PICK s \in Deletes : OpenForRead(p, DeleteCall(s))
      BY <2>4
    <3>2. DeleteCall(s).kind = "delete"
      BY DEF DeleteCall
    <3> QED BY <2>4, <3>1, <3>2, OpenForReadStep
  <2>5. CASE Step(p)
    BY <2>5, LockFileStep, LoadStep, InsertStep, FlushInsertStep, DeleteStep,
       FlushDeleteStep, RenameStep DEF Step
  <2>6. CASE ShortFlush(p) \/ Crash(p)
    BY <2>6, ShortFlushStep, CrashStep
  <2> QED BY <2>1, <2>2, <2>3, <2>4, <2>5, <2>6
<1> QED BY <1>1, <1>2

\* The inductive invariant of the files and locks.
THEOREM FilesInvariance ==
  ASSUME OneDeleter
  PROVE  Spec => []IndInv
  BY IndInit, IndNext, PTL DEF Spec

\* What a process flushes was computed from the table as it is when it is
\* flushed, and rename replaces the file that the DELETE has copied, for every
\* number of inserting and loading processes, whatever write is cut short, whoever
\* dies and whether or not rename succeeds, provided that one process deletes.
THEOREM CurrentWrites ==
  ASSUME OneDeleter
  PROVE  Spec => []WritesAreCurrent
<1>1. IndInv => WritesAreCurrent
  BY DEF IndInv, Current, WritesAreCurrent
<1> QED BY <1>1, FilesInvariance, PTL

\* flock excludes: two processes behind the lock of one file both only read.
THEOREM LockExcludes ==
  ASSUME OneDeleter
  PROVE  Spec => []LocksInv
<1>1. IndInv => LocksInv
  BY DEF IndInv
<1> QED BY <1>1, FilesInvariance, PTL

-----------------------------------------------------------------------------
(* Columns *)

LEMMA MinIs ==
  ASSUME NEW S, S \subseteq Nat, S # {}
  PROVE  Min(S) \in S
<1>1. \E m \in S : \A k \in S : m =< k
  BY LeastExists
<1> QED BY <1>1 DEF Min

LEMMA ColumnIndexIs ==
  ASSUME NEW A, NEW columns \in Seq(A), NEW name
  PROVE  /\ ColumnIndex(columns, name) \in 0 .. Len(columns) /\ Len(columns) \in Nat
         /\ ColumnIndex(columns, name) # 0 => columns[ColumnIndex(columns, name)] = name
         /\ ColumnIndex(columns, name) = 0 => \A k \in 1 .. Len(columns) : columns[k] # name
<1> DEFINE found == {k \in DOMAIN columns : columns[k] = name}
<1>1. Len(columns) \in Nat /\ DOMAIN columns = 1 .. Len(columns)
  BY LenProperties
<1>2. CASE found = {}
  <2>1. ColumnIndex(columns, name) = 0
    BY <1>2 DEF ColumnIndex
  <2> QED BY <1>1, <1>2, <2>1
<1>3. CASE found # {}
  <2>1. ColumnIndex(columns, name) = Min(found)
    BY <1>3 DEF ColumnIndex
  <2>2. found \subseteq 1 .. Len(columns)
    BY <1>1
  <2>3. found \subseteq Nat
    BY <1>1, <2>2
  <2>4. Min(found) \in found
    BY <1>3, <2>3, MinIs
  <2>5. Min(found) \in 1 .. Len(columns) /\ columns[Min(found)] = name
    BY <2>2, <2>4
  <2>6. Min(found) \in 0 .. Len(columns) /\ Min(found) # 0
    BY <1>1, <2>5
  <2> QED BY <1>1, <2>1, <2>5, <2>6
<1> QED BY <1>2, <1>3

\* The columns of a table as INSERT takes them.
Columns(s, t) == IF ReadHeader(t).fields = <<>> THEN NewColumns(s) ELSE ReadHeader(t).fields

\* The value that a statement gives to a column.
LEMMA ValueOfIs ==
  ASSUME PlainStatements, NEW s \in Inserts, NEW column, ColumnIndex(s.columns, column) # 0
  PROVE  ValueOf(s, column) \in Plain /\ ValueOf(s, column) \in Given(column)
<1> DEFINE k == ColumnIndex(s.columns, column)
<1>1. /\ s.columns \in Seq(Plain \ {<<>>}) /\ s.values \in Seq(Plain)
      /\ Len(s.columns) = Len(s.values)
  BY StatementsAssumption DEF PlainStatements
<1>2. k \in 0 .. Len(s.columns) /\ Len(s.columns) \in Nat
  BY <1>1, ColumnIndexIs
<1>3. k \in 1 .. Len(s.values)
  BY <1>1, <1>2
<1>4. s.values[k] \in Plain
  BY <1>1, <1>3, ElementOfSeq
<1> QED BY <1>4 DEF ValueOf, Given

LEMMA NewColumnsFacts ==
  ASSUME PlainStatements, NEW s \in Inserts
  PROVE  /\ NewColumns(s) \in Seq(Plain) /\ Len(NewColumns(s)) \in Nat \ {0}
         /\ Len(NewColumns(s)) > 1 \/ NewColumns(s) = <<Id>>
         /\ \A k \in 1 .. Len(NewColumns(s)) :
              NewColumns(s)[k] # Id => ColumnIndex(s.columns, NewColumns(s)[k]) # 0
         /\ ColumnIndex(s.columns, Id) # 0 => NewColumns(s) = s.columns
<1>1. /\ s.columns \in Seq(Plain \ {<<>>}) /\ s.columns # <<>>
  BY StatementsAssumption DEF PlainStatements
<1>2. s.columns \in Seq(Plain) /\ Len(s.columns) \in Nat \ {0}
  <2>1. Plain \ {<<>>} \subseteq Plain
    OBVIOUS
  <2>2. s.columns \in Seq(Plain)
    BY <1>1, <2>1, SeqMonotonic
  <2> QED BY <1>1, <2>2, EmptySeq, LenProperties
<1>3. Id \in Plain
  <2>1. "i" \in Chars \ {Newline} /\ "d" \in Chars \ {Newline}
    <3>1. "i" = Characters[20] /\ "d" = Characters[18] /\ DOMAIN Characters = 1 .. 22
      BY CharacterList
    <3>2. "i" # Newline /\ "d" # Newline
      BY DEF Newline
    <3> QED BY <3>1, <3>2 DEF Chars, ToSet
  <2> QED BY <2>1 DEF Id, Plain
<1>4. CASE ColumnIndex(s.columns, Id) = 0
  <2> DEFINE a == <<Id>>
             N == a \o s.columns
  <2>1. a \in Seq(Plain) /\ Len(a) = 1 /\ a[1] = Id
    BY <1>3
  <2>2. NewColumns(s) = N
    BY <1>4 DEF NewColumns
  <2> HIDE DEF a
  <2>3. /\ N \in Seq(Plain) /\ Len(N) = Len(a) + Len(s.columns)
        /\ \A k \in 1 .. Len(a) : N[k] = a[k]
        /\ \A k \in 1 .. Len(s.columns) : N[Len(a) + k] = s.columns[k]
    BY <1>2, <2>1, ConcatFacts
  <2> HIDE DEF N
  <2>4. ASSUME NEW k \in 1 .. Len(N), N[k] # Id PROVE ColumnIndex(s.columns, N[k]) # 0
    <3>1. k # 1
      <4>1. N[1] = Id
        BY <2>1, <2>3
      <4> QED BY <2>4, <4>1
    <3> DEFINE j == k - 1
    <3>2. j \in 1 .. Len(s.columns) /\ Len(a) + j = k
      BY <1>2, <2>1, <2>3, <3>1
    <3> HIDE DEF j
    <3>3. N[k] = s.columns[j]
      BY <2>3, <3>2
    <3> QED BY <1>2, <3>2, <3>3, ColumnIndexIs
  <2>5. Len(N) \in Nat \ {0} /\ Len(N) > 1
    BY <1>2, <2>1, <2>3
  <2> QED BY <1>4, <2>2, <2>3, <2>4, <2>5
<1>5. CASE ColumnIndex(s.columns, Id) # 0
  <2>1. NewColumns(s) = s.columns
    BY <1>5 DEF NewColumns
  <2>2. \A k \in 1 .. Len(s.columns) : ColumnIndex(s.columns, s.columns[k]) # 0
    BY <1>2, ColumnIndexIs
  <2>3. Len(s.columns) > 1 \/ s.columns = <<Id>>
    <3> SUFFICES ASSUME ~(Len(s.columns) > 1) PROVE s.columns = <<Id>>
      OBVIOUS
    <3>1. Len(s.columns) = 1
      <4> DEFINE n == Len(s.columns)
      <4>1. n \in Nat \ {0} /\ ~(n > 1)
        BY <1>2
      <4> HIDE DEF n
      <4>2. n = 1
        BY <4>1
      <4> QED BY <4>2 DEF n
    <3>2. ColumnIndex(s.columns, Id) \in 0 .. 1 /\ s.columns[ColumnIndex(s.columns, Id)] = Id
      BY <1>2, <1>5, <3>1, ColumnIndexIs
    <3>3. ColumnIndex(s.columns, Id) = 1
      BY <1>5, <3>2
    <3>4. s.columns[1] = Id
      BY <3>2, <3>3
    <3> QED BY <1>2, <3>1, <3>4
  <2> QED BY <1>2, <2>1, <2>2, <2>3
<1> QED BY <1>4, <1>5

-----------------------------------------------------------------------------
(* Ids *)

LEMMA MaxIs ==
  ASSUME NEW n \in Nat, NEW f, \A k \in 1 .. n : f[k] \in Int, NEW S,
         \A x : x \in S <=> x = 0 \/ \E k \in 1 .. n : x = f[k]
  PROVE  Max(S) \in Nat /\ \A x \in S : x <= Max(S)
<1> DEFINE U(m) == {0} \cup {f[k] : k \in 1 .. m}
           M == {m \in 0 .. n : \E x \in U(m) : \A y \in U(m) : x >= y}
<1>1. 0 \in M
  OBVIOUS
<1>2. ASSUME NEW m \in 0 .. n - 1, m \in M PROVE m + 1 \in M
  <2>1. PICK x \in U(m) : \A y \in U(m) : x >= y
    BY <1>2
  <2>2. f[m + 1] \in Int /\ m + 1 \in 0 .. n
    OBVIOUS
  <2>3. \A y : y \in U(m + 1) <=> y \in U(m) \/ y = f[m + 1]
    <3>1. \A k : k \in 1 .. m + 1 <=> k \in 1 .. m \/ k = m + 1
      OBVIOUS
    <3> QED BY <3>1
  <2>4. \A y \in U(m) : y \in Int
    OBVIOUS
  <2> HIDE DEF U
  <2>5. CASE f[m + 1] > x
    <3>1. \A y \in U(m + 1) : f[m + 1] >= y
      BY <2>1, <2>2, <2>3, <2>4, <2>5
    <3> QED BY <2>2, <2>3, <3>1
  <2>6. CASE ~(f[m + 1] > x)
    <3>1. \A y \in U(m + 1) : x >= y
      BY <2>1, <2>2, <2>3, <2>4, <2>6
    <3> QED BY <2>1, <2>2, <2>3, <3>1
  <2> QED BY <2>5, <2>6
<1>3. n \in M
  <2> HIDE DEF M
  <2>1. \A m \in 0 .. n : m \in M
    BY <1>1, <1>2, IntervalInduction
  <2> QED BY <2>1
<1>4. \E x \in S : \A y \in S : x >= y
  <2>1. S = U(n)
    OBVIOUS
  <2> QED BY <1>3, <2>1
<1>5. Max(S) \in S /\ \A y \in S : Max(S) >= y
  BY <1>4 DEF Max
<1>6. 0 \in S /\ S \subseteq Int
  OBVIOUS
<1> HIDE DEF U, M
<1>7. Max(S) \in Int /\ Max(S) >= 0
  BY <1>5, <1>6
<1>8. ASSUME NEW x \in S PROVE x <= Max(S)
  BY <1>5, <1>6
<1> QED BY <1>7, <1>8

\* What the rows of a table that is read look like.
LEMMA RowFacts ==
  ASSUME NEW t \in Texts, ReadTable(t).ok, NEW row \in Rows(t)
  PROVE  row \in Seq(Plain) /\ Len(row) = Len(ReadHeader(t).fields)
<1>1. /\ ReadTable(t).rows \in Seq(Seq(Plain)) /\ ReadTable(t).columns = ReadHeader(t).fields
      /\ \A k \in 1 .. Len(ReadTable(t).rows) : Len(ReadTable(t).rows[k]) = Len(ReadTable(t).columns)
  BY ReadTableFacts
<1>2. PICK k \in 1 .. Len(ReadTable(t).rows) : row = ReadTable(t).rows[k]
  BY <1>1, LenProperties DEF Rows, ToSet
<1>3. ReadTable(t).rows[k] \in Seq(Plain)
  BY <1>1, <1>2, ElementOfSeq
<1> QED BY <1>1, <1>2, <1>3

\* storage_get_next_auto_id: a number that no row has.
LEMMA NextAutoIdIsNew ==
  ASSUME NEW t \in Texts, ReadTable(t).ok, NEW k, k = ColumnIndex(ReadHeader(t).fields, Id),
         k # 0 \/ Rows(t) = {}, IdsAreIntegers(t)
  PROVE  /\ NextAutoId(t) \in Plain /\ NextAutoId(t) # <<>>
         /\ \A row \in Rows(t) : row[k] # NextAutoId(t)
<1> DEFINE rows == ReadTable(t).rows
           n == Len(rows)
           f == [i \in 1 .. n |-> ParseInteger(rows[i][k])]
           S == {0} \cup {ParseInteger(row[k]) : row \in Rows(t)}
           m == Max(S) + 1
<1>1. rows \in Seq(Seq(Plain)) /\ n \in Nat /\ Rows(t) = {rows[i] : i \in 1 .. n}
  BY ReadTableFacts, LenProperties DEF Rows, ToSet
<1>2. ReadHeader(t).fields \in Seq(Plain)
  BY HeaderType
<1>3. Rows(t) # {} => k \in 1 .. Len(ReadHeader(t).fields)
  BY <1>2, ColumnIndexIs
<1>4. ASSUME NEW row \in Rows(t) PROVE ParseInteger(row[k]) \in Int
  <2>1. row \in Seq(Plain) /\ Len(row) = Len(ReadHeader(t).fields)
    BY RowFacts
  <2>2. row[k] \in Plain
    BY <1>3, <2>1, ElementOfSeq
  <2>3. IsInteger(row[k])
    BY DEF IdsAreIntegers
  <2> QED BY <2>2, <2>3, PlainFacts, ParseIntegerType
<1> HIDE DEF rows, n
<1>5. \A i \in 1 .. n : f[i] \in Int /\ f[i] = ParseInteger(rows[i][k])
  BY <1>1, <1>4
<1> HIDE DEF f
<1>6. ASSUME NEW x PROVE x \in S <=> x = 0 \/ \E i \in 1 .. n : x = f[i]
  <2>1. x \in S <=> x = 0 \/ \E row \in Rows(t) : x = ParseInteger(row[k])
    OBVIOUS
  <2>2. \A row : row \in Rows(t) <=> \E i \in 1 .. n : row = rows[i]
    BY <1>1
  <2> QED BY <1>5, <2>1, <2>2
<1> HIDE DEF S
<1>7. Max(S) \in Nat /\ \A x \in S : x <= Max(S)
  BY <1>1, <1>5, <1>6, MaxIs
<1>8. m \in Nat /\ NextAutoId(t) = Decimal(m)
  BY <1>7 DEF NextAutoId, S
<1>9. ASSUME NEW row \in Rows(t), row[k] = Decimal(m) PROVE FALSE
  <2>1. ParseInteger(row[k]) \in S
    BY DEF S
  <2>2. ParseInteger(row[k]) = m
    BY <1>8, <1>9, DecimalIs
  <2> QED BY <1>7, <2>1, <2>2
<1> HIDE DEF m
<1>10. Decimal(m) \in DigitTexts /\ Len(Decimal(m)) \in Nat \ {0}
  BY <1>8, DecimalIs
<1>11. Decimal(m) \in Plain /\ Decimal(m) # <<>>
  <2>1. Len(<<>>) = 0
    OBVIOUS
  <2> QED BY <1>10, <2>1, DigitTextFacts
<1> QED BY <1>8, <1>9, <1>11

-----------------------------------------------------------------------------
(* What storage_insert writes *)

Values(s, t) == OrderedValues(s, t, Columns(s, t))

\* A statement that is not refused.
LEMMA WrittenAccepted ==
  ASSUME NEW s, NEW t, Written(s, t).ok
  PROVE  /\ ReadHeader(t).ok
         /\ ReadHeader(t).fields # <<>> => FitsColumns(s, Columns(s, t))
         /\ ColumnIndex(Columns(s, t), Id) # 0 => ReadTable(t).ok
         /\ NeedsId(s, Columns(s, t)) => IdsAreIntegers(t)
         /\ ~NeedsId(s, Columns(s, t)) => PrimaryKeyValid(t, Columns(s, t), Values(s, t))
         /\ Written(s, t).row = Values(s, t)
         /\ Written(s, t).buf = (IF ReadHeader(t).fields = <<>> THEN WriteRow(Columns(s, t)) ELSE <<>>)
                                  \o WriteRow(Values(s, t))
<1> DEFINE h == ReadHeader(t)
           c == Columns(s, t)
           v == Values(s, t)
           b == (IF h.fields = <<>> THEN WriteRow(c) ELSE <<>>) \o WriteRow(v)
           A == h.ok
           B == h.fields # <<>> /\ ~FitsColumns(s, c)
           D == ColumnIndex(c, Id) # 0 /\ ~ReadTable(t).ok
           E == NeedsId(s, c) /\ ~IdsAreIntegers(t)
           F == ~NeedsId(s, c) /\ ~PrimaryKeyValid(t, c, v)
           refused == [ok |-> FALSE, buf |-> <<>>, row |-> <<>>]
           done == [ok |-> TRUE, row |-> v, buf |-> b]
<1>1. Written(s, t) = CASE ~A -> refused [] B -> refused [] D -> refused [] E -> refused
                        [] F -> refused [] OTHER -> done
  BY DEF Written, Columns, Values
<1>2. ~refused.ok /\ done.row = v /\ done.buf = b
  OBVIOUS
<1> HIDE DEF A, B, D, E, F, refused, done
<1>3. A /\ ~B /\ ~D /\ ~E /\ ~F /\ Written(s, t) = done
  BY <1>1, <1>2
<1> QED BY <1>2, <1>3 DEF A, B, D, E, F

LEMMA HeaderEmpty ==
  ASSUME NEW t \in Texts, ReadHeader(t).ok
  PROVE  ReadHeader(t).fields = <<>> <=> t = <<>>
<1>1. t # <<>> => Len(ReadHeader(t).fields) \in Nat \ {0}
  BY HeaderType, SomeField DEF Row
<1>2. Len(<<>>) = 0
  OBVIOUS
<1> QED BY <1>1, <1>2, HeaderType

LEMMA EmptyTable ==
  /\ <<>> \in Texts /\ ReadTable(<<>>).ok /\ ReadTable(<<>>).columns = <<>>
  /\ ReadTable(<<>>).rows = <<>> /\ Rows(<<>>) = {}
<1>1. <<>> \in Texts
  BY EmptyText
<1>2. RowOffsets(<<>>) = {} /\ ReadHeader(<<>>).ok /\ ReadHeader(<<>>).fields = <<>>
  BY DEF RowOffsets, ReadHeader
<1>3. ReadTable(<<>>).ok /\ ReadTable(<<>>).columns = <<>>
  BY <1>1, <1>2, ReadTableFacts DEF Readable
<1>4. Len(ReadTable(<<>>).rows) = 0 /\ ReadTable(<<>>).rows \in Seq(Seq(Plain))
  BY <1>1, <1>2, <1>3, ReadTableFacts, FS_EmptySet
<1>5. ReadTable(<<>>).rows = <<>>
  BY <1>4, EmptySeq
<1>6. Rows(<<>>) = {}
  BY <1>5 DEF Rows, ToSet
<1> QED BY <1>1, <1>3, <1>5, <1>6

LEMMA IdIsName == Id # <<>> /\ Len(Id) = 2 /\ Len(<<>>) = 0
  BY DEF Id

\* Every value is one that the statement gives, or a new id.
LEMMA ValuesFacts ==
  ASSUME PlainStatements, NEW s \in Inserts, NEW t \in Texts, Written(s, t).ok,
         NEW c, c = Columns(s, t), NEW v, v = Values(s, t),
         NEW i, i = ColumnIndex(c, Id)
  PROVE  /\ c \in Seq(Plain) /\ Len(c) \in Nat \ {0} /\ v \in Seq(Plain) /\ Len(v) = Len(c)
         /\ t # <<>> => c = ReadHeader(t).fields /\ ReadHeader(t).ok
         /\ t = <<>> => Len(c) > 1 \/ c = <<Id>>
         /\ c # <<<<>>>> /\ i \in 0 .. Len(c)
         /\ \A k \in 1 .. Len(c) : c[k] # Id => v[k] \in Given(c[k])
         /\ i # 0 => ReadTable(t).ok /\ v[i] # <<>> /\ \A row \in Rows(t) : row[i] # v[i]
<1>1. /\ ReadHeader(t).ok /\ (ReadHeader(t).fields # <<>> => FitsColumns(s, c))
      /\ (i # 0 => ReadTable(t).ok) /\ (NeedsId(s, c) => IdsAreIntegers(t))
      /\ (~NeedsId(s, c) => PrimaryKeyValid(t, c, v))
  BY WrittenAccepted
<1>2. (t = <<>> => c = NewColumns(s)) /\ (t # <<>> => c = ReadHeader(t).fields)
  BY <1>1, HeaderEmpty DEF Columns
<1>3. c \in Seq(Plain) /\ Len(c) \in Nat \ {0}
  <2>1. CASE t = <<>>
    BY <1>2, <2>1, NewColumnsFacts
  <2>2. CASE t # <<>>
    BY <1>1, <1>2, <2>2, HeaderType, SomeField DEF Row
  <2> QED BY <2>1, <2>2
<1>4. /\ i \in 0 .. Len(c) /\ (i # 0 => c[i] = Id)
      /\ (i = 0 => \A k \in 1 .. Len(c) : c[k] # Id)
  BY <1>3, ColumnIndexIs
<1>5. NeedsId(s, c) <=> i # 0 /\ ColumnIndex(s.columns, Id) = 0
  BY DEF NeedsId
<1>6. DOMAIN c = 1 .. Len(c)
  BY <1>3, LenProperties
<1>7. v = [k \in 1 .. Len(c) |-> IF c[k] = Id /\ NeedsId(s, c) THEN NextAutoId(t)
                                                              ELSE ValueOf(s, c[k])]
  BY <1>6 DEF Values, OrderedValues
<1>8. NeedsId(s, c) => NextAutoId(t) \in Plain /\ NextAutoId(t) # <<>>
                       /\ \A row \in Rows(t) : row[i] # NextAutoId(t)
  <2> SUFFICES ASSUME NeedsId(s, c) PROVE NextAutoId(t) \in Plain /\ NextAutoId(t) # <<>>
                       /\ \A row \in Rows(t) : row[i] # NextAutoId(t)
    OBVIOUS
  <2>1. i # 0 /\ ReadTable(t).ok /\ IdsAreIntegers(t)
    BY <1>1, <1>5
  <2>2. CASE t = <<>>
    <3>1. Rows(t) = {}
      BY <2>2, EmptyTable
    <3> QED BY <2>1, <3>1, NextAutoIdIsNew
  <2>3. CASE t # <<>>
    BY <1>2, <2>1, <2>3, NextAutoIdIsNew
  <2> QED BY <2>2, <2>3
<1>9. ASSUME NEW k \in 1 .. Len(c), ~(c[k] = Id /\ NeedsId(s, c))
      PROVE  ColumnIndex(s.columns, c[k]) # 0
  <2>1. CASE t = <<>>
    <3>1. c[k] # Id => ColumnIndex(s.columns, c[k]) # 0
      BY <1>2, <2>1, NewColumnsFacts
    <3> QED BY <1>4, <1>5, <1>9, <3>1
  <2>2. CASE t # <<>>
    <3>1. FitsColumns(s, c) /\ c[k] \in ToSet(c)
      BY <1>1, <1>6, <2>2, HeaderEmpty DEF ToSet
    <3> QED BY <1>9, <3>1 DEF FitsColumns
  <2> QED BY <2>1, <2>2
<1>10. ASSUME NEW k \in 1 .. Len(c)
       PROVE  v[k] \in Plain /\ (c[k] # Id => v[k] \in Given(c[k]))
  <2>1. CASE c[k] = Id /\ NeedsId(s, c)
    BY <1>7, <1>8, <2>1
  <2>2. CASE ~(c[k] = Id /\ NeedsId(s, c))
    <3>1. v[k] = ValueOf(s, c[k])
      BY <1>7, <2>2
    <3> QED BY <1>9, <2>2, <3>1, ValueOfIs
  <2> QED BY <2>1, <2>2
<1>11. v \in Seq(Plain) /\ Len(v) = Len(c)
  <2>1. DOMAIN v = 1 .. Len(c)
    BY <1>7
  <2>2. v \in [1 .. Len(c) -> Plain]
    BY <1>7, <1>10
  <2> QED BY <1>3, <2>2, SeqDef
<1>12. i # 0 => v[i] # <<>> /\ \A row \in Rows(t) : row[i] # v[i]
  <2> SUFFICES ASSUME i # 0 PROVE v[i] # <<>> /\ \A row \in Rows(t) : row[i] # v[i]
    OBVIOUS
  <2>1. i \in 1 .. Len(c) /\ c[i] = Id
    BY <1>3, <1>4
  <2>2. CASE NeedsId(s, c)
    <3>1. v[i] = NextAutoId(t)
      BY <1>7, <2>1, <2>2
    <3> QED BY <1>8, <2>2, <3>1
  <2>3. CASE ~NeedsId(s, c)
    BY <1>1, <2>3 DEF PrimaryKeyValid
  <2> QED BY <2>2, <2>3
<1>13. t = <<>> => Len(c) > 1 \/ c = <<Id>>
  BY <1>2, NewColumnsFacts
<1>14. c # <<<<>>>>
  <2> SUFFICES ASSUME c = <<<<>>>> PROVE FALSE
    OBVIOUS
  <2>1. Len(c) = 1 /\ c[1] = <<>> /\ 1 \in 1 .. Len(c)
    OBVIOUS
  <2>2. c[1] # Id
    BY <2>1, IdIsName
  <2>3. ColumnIndex(s.columns, c[1]) # 0
    BY <1>9, <2>1, <2>2
  <2>4. s.columns \in Seq(Plain \ {<<>>})
    BY DEF PlainStatements
  <2> DEFINE k == ColumnIndex(s.columns, c[1])
  <2>5. k \in 1 .. Len(s.columns) /\ s.columns[k] = c[1]
    BY <2>3, <2>4, ColumnIndexIs
  <2> HIDE DEF k
  <2>6. s.columns[k] \in Plain \ {<<>>}
    BY <2>4, <2>5, ElementOfSeq
  <2> QED BY <2>1, <2>5, <2>6
<1> QED BY <1>1, <1>2, <1>3, <1>4, <1>10, <1>11, <1>12, <1>13, <1>14

\* What is written, and where it begins.
LEMMA BufferIs ==
  ASSUME PlainStatements, NEW s \in Inserts, NEW t \in Texts, Written(s, t).ok,
         NEW c, c = Columns(s, t), NEW v, v = Values(s, t)
  PROVE  /\ Written(s, t).row = v /\ Written(s, t).buf \in Texts
         /\ t # <<>> => Written(s, t).buf = WriteRow(v)
         /\ t = <<>> => Written(s, t).buf = WriteRow(c) \o WriteRow(v)
<1>1. /\ ReadHeader(t).ok /\ Written(s, t).row = v
      /\ Written(s, t).buf = (IF ReadHeader(t).fields = <<>> THEN WriteRow(c) ELSE <<>>) \o WriteRow(v)
  BY WrittenAccepted
<1>2. ReadHeader(t).fields = <<>> <=> t = <<>>
  BY <1>1, HeaderEmpty
<1>3. c \in Seq(Plain) /\ v \in Seq(Plain)
  BY ValuesFacts
<1>4. WriteRow(c) \in Texts /\ WriteRow(v) \in Texts
  BY <1>3, WriteRowFacts
<1>5. WriteRow(c) \o WriteRow(v) \in Texts /\ <<>> \o WriteRow(v) = WriteRow(v)
  BY <1>4, TextConcat, EmptyText
<1>6. CASE t = <<>>
  BY <1>1, <1>2, <1>5, <1>6
<1>7. CASE t # <<>>
  BY <1>1, <1>2, <1>4, <1>5, <1>7
<1> QED BY <1>1, <1>6, <1>7

-----------------------------------------------------------------------------
(* What a file may hold *)

\* Every value but the id was given by a statement, or cut from one.
GivenRows(c, R) ==
  \A j \in 1 .. Len(R), k \in 1 .. Len(c) :
    c[k] # Id => \E v \in Given(c[k]) : Begins(R[j][k], v)

Once(R, i) == \A a, b \in 1 .. Len(R) : R[a][i] = R[b][i] => a = b

\* A table with ids: they are unique unless one of them may be cut short, and
\* no row is made of two.
SoundRows(c, R, cut) ==
  LET i == ColumnIndex(c, Id) IN
  i # 0 => /\ (i = Len(c) => cut = "none") => Once(R, i)
           /\ Len(c) > 1 => GivenRows(c, R)

Sound(t, cut) == ReadTable(t).ok => SoundRows(ReadTable(t).columns, ReadTable(t).rows, cut)

FileOk(t, cut) == t \in Texts /\ (cut = "none" => WellFormed(t)) /\ Sound(t, cut)

LEMMA NoRowsSound ==
  ASSUME NEW c, NEW cut
  PROVE  SoundRows(c, <<>>, cut)
<1>1. Len(<<>>) = 0
  OBVIOUS
<1>2. 1 .. 0 = {}
  OBVIOUS
<1> QED BY <1>1, <1>2 DEF SoundRows, Once, GivenRows

\* A row that brings a new id and values that were given.
LEMMA AppendSound ==
  ASSUME NEW c \in Seq(Plain), NEW R \in Seq(Seq(Plain)), NEW cut, SoundRows(c, R, cut),
         NEW v \in Seq(Plain), Len(v) = Len(c),
         \A k \in 1 .. Len(c) : c[k] # Id => v[k] \in Given(c[k]),
         NEW i, i = ColumnIndex(c, Id), i # 0 => \A j \in 1 .. Len(R) : R[j][i] # v[i]
  PROVE  SoundRows(c, Append(R, v), cut)
<1> DEFINE N == Append(R, v)
           m == Len(R)
<1>1. /\ m \in Nat /\ N \in Seq(Seq(Plain)) /\ Len(N) = m + 1 /\ N[m + 1] = v
      /\ \A j \in 1 .. m : N[j] = R[j]
  BY AppendProperties, LenProperties
<1>2. \A j \in 1 .. m + 1 : j \in 1 .. m \/ j = m + 1
  BY <1>1
<1> HIDE DEF N
<1>3. ASSUME i # 0, Once(R, i) PROVE Once(N, i)
  <2> SUFFICES ASSUME NEW a \in 1 .. m + 1, NEW b \in 1 .. m + 1, N[a][i] = N[b][i] PROVE a = b
    BY <1>1 DEF Once
  <2>1. \A j \in 1 .. m : R[j][i] # v[i]
    BY <1>3
  <2>2. CASE a \in 1 .. m /\ b \in 1 .. m
    BY <1>1, <1>3, <2>2 DEF Once
  <2>3. CASE a \in 1 .. m /\ b = m + 1
    BY <1>1, <2>1, <2>3
  <2>4. CASE a = m + 1 /\ b \in 1 .. m
    BY <1>1, <2>1, <2>4
  <2> QED BY <1>2, <2>2, <2>3, <2>4
<1>4. ASSUME GivenRows(c, R) PROVE GivenRows(c, N)
  <2> SUFFICES ASSUME NEW j \in 1 .. m + 1, NEW k \in 1 .. Len(c), c[k] # Id
               PROVE  \E x \in Given(c[k]) : Begins(N[j][k], x)
    BY <1>1 DEF GivenRows
  <2>1. CASE j \in 1 .. m
    BY <1>1, <1>4, <2>1 DEF GivenRows
  <2>2. CASE j = m + 1
    <3>1. v[k] \in Plain
      BY ElementOfSeq
    <3>2. Begins(v[k], v[k])
      BY <3>1, BeginsAppend DEF Plain
    <3> QED BY <1>1, <2>2, <3>2
  <2> QED BY <1>2, <2>1, <2>2
<1> QED BY <1>3, <1>4 DEF SoundRows, N

\* A selection of rows.
LEMMA AtSound ==
  ASSUME NEW c, NEW R \in Seq(Seq(Plain)), NEW cut, SoundRows(c, R, cut),
         NEW S \in SUBSET (1 .. Len(R))
  PROVE  SoundRows(c, At(R, S), cut)
<1> DEFINE N == At(R, S)
           i == ColumnIndex(c, Id)
<1>1. /\ Len(N) = Cardinality(S) /\ Cardinality(S) \in Nat /\ Len(R) \in Nat
      /\ \A n \in 1 .. Len(N) : InOrder(S)[n] \in 1 .. Len(R) /\ N[n] = R[InOrder(S)[n]]
  <2>1. /\ Len(N) = Cardinality(S) /\ Cardinality(S) \in Nat
        /\ \A n \in 1 .. Cardinality(S) : InOrder(S)[n] \in S /\ N[n] = R[InOrder(S)[n]]
    BY AtFacts
  <2>2. Len(R) \in Nat
    BY LenProperties
  <2> HIDE DEF N
  <2> QED BY <2>1, <2>2
<1> HIDE DEF N
<1>2. ASSUME Once(R, i) PROVE Once(N, i)
  <2> SUFFICES ASSUME NEW a \in 1 .. Len(N), NEW b \in 1 .. Len(N), N[a][i] = N[b][i] PROVE a = b
    BY DEF Once
  <2>1. InOrder(S)[a] = InOrder(S)[b]
    BY <1>1, <1>2, ZenonT(30) DEF Once
  <2> QED BY <1>1, <2>1, InOrderOnce
<1>3. ASSUME GivenRows(c, R) PROVE GivenRows(c, N)
  BY <1>1, <1>3 DEF GivenRows
<1> QED BY <1>2, <1>3 DEF SoundRows, N

LEMMA SoundCut ==
  ASSUME NEW t, NEW cut, Sound(t, "none")
  PROVE  Sound(t, cut)
  BY DEF Sound, SoundRows

LEMMA OkCut ==
  ASSUME NEW t, NEW cut, FileOk(t, "none")
  PROVE  FileOk(t, cut)
  BY SoundCut DEF FileOk

LEMMA WellFormedIs ==
  ASSUME NEW t \in Texts, t # <<>>
  PROVE  WellFormed(t) <=>
           /\ EndsLine(t) /\ ReadTable(t).ok
           /\ Len(ReadTable(t).columns) > 1 \/ ReadTable(t).columns \in {<<Id>>, <<<<>>>>}
           /\ Len(ReadTable(t).columns) = 1 =>
                \A k \in 1 .. Len(ReadTable(t).rows) : ReadTable(t).rows[k][1] # <<>>
<1>1. Len(t) \in Nat \ {0}
  BY EmptySeq, LenProperties DEF Texts
<1>2. ReadTable(t).rows \in Seq(Seq(Plain))
  BY ReadTableFacts
<1>3. DOMAIN ReadTable(t).rows = 1 .. Len(ReadTable(t).rows)
  BY <1>2, LenProperties
<1> QED BY <1>1, <1>3 DEF WellFormed, EndsLine

LEMMA EmptyOk ==
  ASSUME NEW cut
  PROVE  FileOk(<<>>, cut)
  BY EmptyTable, NoRowsSound DEF FileOk, WellFormed, Sound

-----------------------------------------------------------------------------
(* An INSERT that is written as a whole *)

LEMMA OneColumn ==
  ASSUME NEW c \in Seq(Plain), c = <<Id>>
  PROVE  ColumnIndex(c, Id) = 1 /\ Len(c) = 1 /\ ColumnIndex(c, Id) = Len(c)
<1>1. Len(c) = 1 /\ c[1] = Id
  OBVIOUS
<1>2. ColumnIndex(c, Id) \in 0 .. 1 /\ (ColumnIndex(c, Id) = 0 => \A k \in 1 .. 1 : c[k] # Id)
  BY <1>1, ColumnIndexIs
<1>3. ColumnIndex(c, Id) # 0
  BY <1>1, <1>2
<1>4. ColumnIndex(c, Id) = 1
  BY <1>2, <1>3
<1> QED BY <1>1, <1>4

\* The file that the row is appended to, its header written.
Base(s, t) == IF t = <<>> THEN WriteRow(Columns(s, t)) ELSE t

LEMMA BaseIs ==
  ASSUME PlainStatements, NEW s \in Inserts, NEW t \in Texts, Written(s, t).ok
  PROVE  /\ t \o Written(s, t).buf = Base(s, t) \o WriteRow(Values(s, t))
         /\ t = <<>> => EndsLine(Base(s, t)) /\ Reads(Base(s, t), Columns(s, t), <<>>)
<1> DEFINE c == Columns(s, t)
           v == Values(s, t)
<1>1. /\ c \in Seq(Plain) /\ Len(c) \in Nat \ {0} /\ v \in Seq(Plain)
  BY ValuesFacts
<1>2. /\ t # <<>> => Written(s, t).buf = WriteRow(v)
      /\ t = <<>> => Written(s, t).buf = WriteRow(c) \o WriteRow(v)
      /\ Written(s, t).buf \in Texts
  BY BufferIs
<1>3. c # <<>>
  <2>1. Len(<<>>) = 0
    OBVIOUS
  <2> QED BY <1>1, <2>1
<1> HIDE DEF c, v
<1>4. IsLine(WriteRow(c)) /\ ParseLine(WriteRow(c)).ok /\ ParseLine(WriteRow(c)).fields = c
  BY <1>1, <1>3, RowIsLine, RoundTrip
<1>5. EndsLine(WriteRow(c)) /\ Reads(WriteRow(c), c, <<>>)
  BY <1>4, ReadLine
<1>6. t = <<>> => t \o Written(s, t).buf = Written(s, t).buf
  BY <1>2, EmptyText
<1> QED BY <1>2, <1>5, <1>6 DEF Base, c, v

LEMMA NotBlank ==
  ASSUME NEW c \in Seq(Plain), Len(c) \in Nat \ {0}, Len(c) > 1 \/ c = <<Id>>,
         NEW v \in Seq(Plain), Len(v) = Len(c), NEW i, i = ColumnIndex(c, Id), i # 0 => v[i] # <<>>
  PROVE  v # <<>> /\ Len(WriteRow(v)) > 1 /\ (Len(c) = 1 => v[1] # <<>>)
<1>1. Len(<<>>) = 0
  OBVIOUS
<1>2. v # <<>>
  BY <1>1
<1>3. CASE Len(c) > 1
  BY <1>2, <1>3, RowNotBlank, SMTT(30)
<1>4. CASE c = <<Id>>
  <2>1. v[1] # <<>>
    BY <1>4, OneColumn
  <2> QED BY <1>2, <2>1, RowNotBlank
<1> QED BY <1>2, <1>3, <1>4

\* The row is read back behind the others, from a file as well formed as before.
LEMMA InsertedWhole ==
  ASSUME PlainStatements, NEW s \in Inserts, NEW t \in Texts, WellFormed(t), Written(s, t).ok,
         NEW N, N = t \o Written(s, t).buf
  PROVE  /\ EndsLine(N) /\ WellFormed(N)
         /\ Reads(N, Columns(s, t), Append(ReadTable(t).rows, Written(s, t).row))
<1> DEFINE c == Columns(s, t)
           v == Values(s, t)
           i == ColumnIndex(c, Id)
           T == Base(s, t)
           R == ReadTable(t).rows
<1>1. /\ c \in Seq(Plain) /\ Len(c) \in Nat \ {0} /\ v \in Seq(Plain) /\ Len(v) = Len(c)
      /\ t # <<>> => c = ReadHeader(t).fields
      /\ t = <<>> => Len(c) > 1 \/ c = <<Id>>
      /\ c # <<<<>>>> /\ (i # 0 => v[i] # <<>>)
  BY ValuesFacts
<1>2. Written(s, t).row = v
  BY BufferIs
<1>3. N = T \o WriteRow(v) /\ (t = <<>> => EndsLine(T) /\ Reads(T, c, <<>>))
  BY BaseIs
<1>4. R \in Seq(Seq(Plain)) /\ (t = <<>> => R = <<>>)
  BY ReadTableFacts, EmptyTable
<1>5. t # <<>> => /\ EndsLine(t) /\ ReadTable(t).ok
                  /\ Len(ReadTable(t).columns) > 1 \/ ReadTable(t).columns \in {<<Id>>, <<<<>>>>}
                  /\ Len(ReadTable(t).columns) = 1 => \A k \in 1 .. Len(R) : R[k][1] # <<>>
  BY WellFormedIs
<1>6. t # <<>> => T = t /\ ReadTable(t).columns = c
  BY <1>1, <1>5, ReadTableFacts DEF Base
<1>7. EndsLine(T) /\ Reads(T, c, R) /\ (Len(c) > 1 \/ c = <<Id>>)
  <2>1. CASE t = <<>>
    BY <1>1, <1>3, <1>4, <2>1
  <2>2. CASE t # <<>>
    BY <1>1, <1>5, <1>6, <2>2 DEF Reads
  <2> QED BY <2>1, <2>2
<1>8. Len(c) = 1 => \A k \in 1 .. Len(R) : R[k][1] # <<>>
  <2>1. Len(<<>>) = 0 /\ 1 .. 0 = {}
    OBVIOUS
  <2> QED BY <1>4, <1>5, <1>6, <2>1
<1> HIDE DEF c, v, i, T, R
<1>9. v # <<>> /\ Len(WriteRow(v)) > 1 /\ (Len(c) = 1 => v[1] # <<>>)
  BY <1>1, <1>7, NotBlank DEF i
<1>10. EndsLine(N) /\ Reads(N, c, Append(R, v))
  BY <1>1, <1>3, <1>7, <1>9, ReadAppended
<1>11. WellFormed(N)
  <2>1. /\ Len(R) \in Nat /\ Len(Append(R, v)) = Len(R) + 1 /\ Append(R, v)[Len(R) + 1] = v
        /\ \A k \in 1 .. Len(R) : Append(R, v)[k] = R[k]
    BY <1>1, <1>4, AppendProperties, LenProperties
  <2>2. \A k \in 1 .. Len(R) + 1 : k \in 1 .. Len(R) \/ k = Len(R) + 1
    BY <2>1
  <2>3. Len(c) = 1 => \A k \in 1 .. Len(Append(R, v)) : Append(R, v)[k][1] # <<>>
    BY <1>8, <1>9, <2>1, <2>2
  <2>4. N \in Texts /\ N # <<>>
    <3>1. Len(<<>>) = 0
      OBVIOUS
    <3> QED BY <1>10, <3>1 DEF EndsLine
  <2>5. /\ Len(ReadTable(N).columns) > 1 \/ ReadTable(N).columns \in {<<Id>>, <<<<>>>>}
        /\ Len(ReadTable(N).columns) = 1 =>
             \A k \in 1 .. Len(ReadTable(N).rows) : ReadTable(N).rows[k][1] # <<>>
    BY <1>7, <1>10, <2>3 DEF Reads
  <2> QED BY <1>10, <2>4, <2>5, WellFormedIs DEF Reads
<1> QED BY <1>2, <1>10, <1>11 DEF c, R

\* What is appended to a line that has no end is one line with it: it has too
\* many fields for a row, unless the table has one column.
LEMMA GluedUnreadable ==
  ASSUME NEW T \in Texts, ReadTable(T).ok, NEW j, Unended(T, j),
         NEW n, n = Len(ReadTable(T).columns), n > 1,
         NEW v \in Seq(Plain), Len(v) = n, NEW N, N = Appended(T, v)
  PROVE  ~ReadTable(N).ok
<1>1. Len(T) \in Nat /\ ReadHeader(T).fields = ReadTable(T).columns /\ Readable(T)
  BY ReadTableFacts, OffsetsFacts
<1>2. j \in 1 .. Len(T) - 1 /\ T[j] = Newline /\ T[j + 1] # Newline
  BY <1>1 DEF Unended
<1>3. j \in RowOffsets(T) /\ j \in 1 .. Len(T)
  BY <1>1, <1>2 DEF RowOffsets
<1>4. ParseLine(LineAt(T, j)).ok /\ Len(Row(T, j)) = n
  BY <1>1, <1>3 DEF Readable, RowParses, Row
<1>5. v # <<>> /\ n \in Nat
  <2>1. Len(<<>>) = 0
    OBVIOUS
  <2> QED BY <2>1, LenProperties
<1>6. /\ N \in Texts /\ Begins(T, N) /\ j \in RowOffsets(N)
      /\ Len(Row(N, j)) = (Len(Row(T, j)) - 1) + Len(v)
  BY <1>4, <1>5, GlueText
<1>7. ReadHeader(N).fields = ReadHeader(T).fields
  BY <1>2, <1>3, <1>6, HeaderStays
<1>8. Len(Row(N, j)) # n
  BY <1>4, <1>5, <1>6
<1>9. ~RowParses(LineAt(N, j), Len(ReadHeader(N).fields))
  BY <1>1, <1>7, <1>8 DEF RowParses, Row
<1> QED BY <1>6, <1>9, ReadTableFacts DEF Readable

\* The row of an INSERT that is written as a whole, whatever was there before.
LEMMA InsertedSound ==
  ASSUME PlainStatements, NEW s \in Inserts, NEW t, NEW cut, FileOk(t, cut), Written(s, t).ok,
         NEW N, N = t \o Written(s, t).buf
  PROVE  FileOk(N, cut)
<1> DEFINE c == Columns(s, t)
           v == Values(s, t)
           i == ColumnIndex(c, Id)
           T == Base(s, t)
           R == ReadTable(t).rows
<1>0. t \in Texts /\ (cut = "none" => WellFormed(t)) /\ Sound(t, cut)
  BY DEF FileOk
<1>1. /\ c \in Seq(Plain) /\ Len(c) \in Nat \ {0} /\ v \in Seq(Plain) /\ Len(v) = Len(c)
      /\ t # <<>> => c = ReadHeader(t).fields
      /\ t = <<>> => Len(c) > 1 \/ c = <<Id>>
      /\ i # 0 => ReadTable(t).ok /\ v[i] # <<>> /\ \A row \in Rows(t) : row[i] # v[i]
  BY <1>0, ValuesFacts
<1>2. \A k \in 1 .. Len(c) : c[k] # Id => v[k] \in Given(c[k])
  BY <1>0, ValuesFacts
<1>3. N \in Texts /\ N = T \o WriteRow(v) /\ (t = <<>> => EndsLine(T) /\ Reads(T, c, <<>>))
  <2>1. Written(s, t).buf \in Texts
    BY <1>0, BufferIs
  <2> QED BY <1>0, <2>1, BaseIs, TextConcat
<1>4. /\ R \in Seq(Seq(Plain)) /\ (t = <<>> => R = <<>>)
      /\ ReadTable(t).ok => ReadTable(t).columns = ReadHeader(t).fields
  BY <1>0, ReadTableFacts, EmptyTable
<1>5. i # 0 => \A j \in 1 .. Len(R) : R[j][i] # v[i]
  <2>1. \A j \in 1 .. Len(R) : R[j] \in Rows(t)
    BY <1>4, LenProperties DEF Rows, ToSet
  <2> QED BY <1>1, <2>1
<1>6. cut = "none" => WellFormed(N)
  BY <1>0, InsertedWhole
<1>7. t # <<>> => T = t
  BY DEF Base
<1>8. IsLine(WriteRow(v))
  BY <1>1, RowIsLine
<1>9. Sound(N, cut)
  <2> SUFFICES ASSUME ReadTable(N).ok PROVE SoundRows(ReadTable(N).columns, ReadTable(N).rows, cut)
    BY DEF Sound
  <2> HIDE DEF c, v, i, T, R
  <2>1. ASSUME EndsLine(T), Reads(T, c, R), SoundRows(c, R, cut), i # 0, Len(c) > 1 \/ c = <<Id>>
        PROVE  SoundRows(ReadTable(N).columns, ReadTable(N).rows, cut)
    <3>1. v # <<>> /\ Len(WriteRow(v)) > 1
      BY <1>1, <2>1, NotBlank DEF i
    <3>2. Reads(N, c, Append(R, v))
      BY <1>1, <1>3, <2>1, <3>1, ReadAppended
    <3>3. SoundRows(c, Append(R, v), cut)
      BY <1>1, <1>2, <1>4, <1>5, <2>1, AppendSound DEF i
    <3> QED BY <3>2, <3>3 DEF Reads
  <2>2. CASE t = <<>>
    <3>1. CASE i = 0
      <4>1. EndsLine(T) /\ Reads(T, c, <<>>) /\ Len(c) > 1
        BY <1>1, <1>3, <2>2, <3>1, OneColumn DEF i
      <4>2. v # <<>> /\ Len(WriteRow(v)) > 1
        BY <1>1, <3>1, <4>1, NotBlank DEF i
      <4>3. Reads(N, c, Append(<<>>, v))
        BY <1>1, <1>3, <4>1, <4>2, ReadAppended
      <4> QED BY <3>1, <4>3 DEF Reads, SoundRows, i
    <3>2. CASE i # 0
      BY <1>1, <1>3, <1>4, <2>1, <2>2, <3>2, NoRowsSound
    <3> QED BY <3>1, <3>2
  <2>3. CASE t # <<>> /\ EndsLine(t)
    <3>1. ReadTable(N).columns = c
      <4>1. Len(t) \in 1 .. Len(t) /\ t[Len(t)] = Newline
        BY <2>3 DEF EndsLine
      <4>2. Begins(t, N)
        BY <1>0, <1>3, <1>7, <1>8, <2>3, TextConcat DEF IsLine
      <4>3. ReadHeader(N).fields = ReadHeader(t).fields
        BY <1>0, <1>3, <4>1, <4>2, HeaderStays
      <4> QED BY <1>1, <1>3, <2>3, <4>3, ReadTableFacts
    <3>2. CASE i = 0
      BY <3>1, <3>2 DEF SoundRows, i
    <3>3. CASE i # 0
      <4>1. ReadTable(t).ok /\ ReadTable(t).columns = c
        BY <1>1, <1>4, <2>3, <3>3
      <4>2. Reads(T, c, R) /\ SoundRows(c, R, cut)
        BY <1>0, <1>7, <2>3, <4>1 DEF Reads, Sound, R
      <4>3. CASE Len(c) > 1
        BY <1>7, <2>1, <2>3, <3>3, <4>2, <4>3
      <4>4. CASE ~(Len(c) > 1)
        <5>1. Len(c) = 1 /\ i = Len(c)
          <6> DEFINE n == Len(c)
          <6>1. n \in Nat \ {0} /\ ~(n > 1) /\ i \in 0 .. n
            BY <1>1, <4>4, ColumnIndexIs DEF i
          <6> HIDE DEF n
          <6>2. n = 1 /\ i = n
            BY <3>3, <6>1
          <6> QED BY <6>2 DEF n
        <5>2. CASE cut = "none"
          <6>1. c \in {<<Id>>, <<<<>>>>}
            <7>1. Len(ReadTable(t).columns) > 1 \/ ReadTable(t).columns \in {<<Id>>, <<<<>>>>}
              BY <1>0, <2>3, <5>2, WellFormedIs
            <7> QED BY <4>1, <4>4, <7>1
          <6>2. c # <<<<>>>>
            BY <1>0, ValuesFacts DEF c
          <6> QED BY <1>7, <2>1, <2>3, <3>3, <4>2, <6>1, <6>2
        <5>3. CASE cut # "none"
          BY <3>1, <5>1, <5>3 DEF SoundRows, i
        <5> QED BY <5>2, <5>3
      <4> QED BY <4>3, <4>4
    <3> QED BY <3>2, <3>3
  <2>4. CASE t # <<>> /\ ~EndsLine(t)
    <3>0. cut # "none"
      BY <1>0, <2>4, WellFormedIs
    <3>1. CASE \A k \in 1 .. Len(t) : t[k] # Newline
      <4>1. RowOffsets(N) = {}
        BY <1>0, <1>3, <1>7, <1>8, <2>4, <3>1, GlueHeader
      <4>2. Len(ReadTable(N).rows) = 0 /\ ReadTable(N).rows \in Seq(Seq(Plain))
        BY <1>3, <4>1, ReadTableFacts, FS_EmptySet
      <4>3. ReadTable(N).rows = <<>>
        BY <4>2, EmptySeq
      <4> QED BY <4>3, NoRowsSound
    <3>2. CASE \E k \in 1 .. Len(t) : t[k] = Newline
      <4>0. Len(t) \in Nat \ {0}
        BY <1>0, <2>4, EmptySeq, LenProperties DEF Texts
      <4>1. PICK j \in 1 .. Len(t) : t[j] = Newline /\ \A k \in j + 1 .. Len(t) : t[k] # Newline
        BY <1>0, <3>2, LastNewline
      <4>2. j # Len(t)
        BY <1>0, <2>4, <4>0, <4>1 DEF EndsLine
      <4>3. Unended(t, j)
        BY <4>0, <4>1, <4>2 DEF Unended
      <4>4. Begins(t, N)
        BY <1>0, <1>3, <1>7, <1>8, <2>4, TextConcat DEF IsLine
      <4>5. ReadTable(N).columns = c
        <5>1. ReadHeader(N).fields = ReadHeader(t).fields
          BY <1>0, <1>3, <4>1, <4>4, HeaderStays
        <5> QED BY <1>1, <1>3, <2>4, <5>1, ReadTableFacts
      <4>6. CASE i = 0
        BY <4>5, <4>6 DEF SoundRows, i
      <4>7. CASE i # 0 /\ ~(Len(c) > 1)
        <5>1. i = Len(c)
          <6> DEFINE n == Len(c)
          <6>1. n \in Nat \ {0} /\ ~(n > 1) /\ i \in 0 .. n
            BY <1>1, <4>7, ColumnIndexIs DEF i
          <6> HIDE DEF n
          <6>2. i = n
            BY <4>7, <6>1
          <6> QED BY <6>2 DEF n
        <5> QED BY <3>0, <4>5, <4>7, <5>1 DEF SoundRows, i
      <4>8. CASE i # 0 /\ Len(c) > 1
        <5>1. ReadTable(t).ok /\ ReadTable(t).columns = c
          BY <1>1, <1>4, <2>4, <4>8
        <5>2. N = Appended(t, v)
          BY <1>3, <1>7, <2>4 DEF Appended
        <5>3. ~ReadTable(N).ok
          BY <1>0, <1>1, <4>3, <4>8, <5>1, <5>2, GluedUnreadable
        <5> QED BY <5>3
      <4> QED BY <4>6, <4>7, <4>8
    <3> QED BY <3>1, <3>2
  <2> QED BY <2>2, <2>3, <2>4
<1> QED BY <1>3, <1>6, <1>9 DEF FileOk

-----------------------------------------------------------------------------
(* A write that is cut short *)

LEMMA GivenType ==
  ASSUME PlainStatements, WellFormedExisting, NEW column, NEW v \in Given(column)
  PROVE  v \in Plain /\ Len(v) \in Nat
<1>1. CASE \E s \in Inserts : ColumnIndex(s.columns, column) # 0 /\ v = ValueOf(s, column)
  BY <1>1, ValueOfIs, PlainFacts
<1>2. CASE \E e \in Existing : \E row \in ToSet(ReadTable(e).rows), k \in DOMAIN ReadTable(e).columns :
             v = row[k]
  <2>0. PICK e \in Existing :
          \E row \in ToSet(ReadTable(e).rows), k \in DOMAIN ReadTable(e).columns : v = row[k]
    BY <1>2
  <2>1. PICK row \in ToSet(ReadTable(e).rows), k \in DOMAIN ReadTable(e).columns : v = row[k]
    BY <2>0
  <2>2. e \in Texts
    BY DEF WellFormedExisting
  <2>3. ReadTable(e).rows \in Seq(Seq(Plain)) /\ ReadTable(e).columns \in Seq(Plain)
        /\ (~ReadTable(e).ok => ReadTable(e).rows = <<>>)
        /\ (ReadTable(e).ok => \A j \in 1 .. Len(ReadTable(e).rows) :
                                  Len(ReadTable(e).rows[j]) = Len(ReadTable(e).columns))
    BY <2>2, ReadTableFacts
  <2>4. PICK j \in 1 .. Len(ReadTable(e).rows) : row = ReadTable(e).rows[j]
    BY <2>3, LenProperties DEF ToSet
  <2>5. ReadTable(e).ok
    <3>1. Len(<<>>) = 0 /\ 1 .. 0 = {}
      OBVIOUS
    <3> QED BY <2>3, <2>4, <3>1
  <2>6. row \in Seq(Plain) /\ Len(row) = Len(ReadTable(e).columns)
    BY <2>3, <2>4, <2>5, ElementOfSeq
  <2>7. k \in 1 .. Len(row)
    BY <2>3, <2>6, LenProperties
  <2> QED BY <2>1, <2>6, <2>7, ElementOfSeq, PlainFacts
<1>3. \/ \E s \in Inserts : ColumnIndex(s.columns, column) # 0 /\ v = ValueOf(s, column)
      \/ \E e \in Existing : \E row \in ToSet(ReadTable(e).rows), k \in DOMAIN ReadTable(e).columns :
             v = row[k]
  BY DEF Given
<1> QED BY <1>1, <1>2, <1>3

\* Row j of the file that is a beginning of another is a row of that one, but
\* for its last value.
CutFrom(P, T, j, r, n) ==
  /\ InOrder(RowOffsets(T))[r] = InOrder(RowOffsets(P))[j]
  /\ \A k \in 1 .. n - 1 : ReadTable(P).rows[j][k] = ReadTable(T).rows[r][k]
  /\ Begins(ReadTable(P).rows[j][n], ReadTable(T).rows[r][n])

LEMMA CutRows ==
  ASSUME NEW T, EndsLine(T), ReadTable(T).ok, NEW P \in Texts, Begins(P, T), ReadTable(P).ok,
         NEW n, n = Len(ReadTable(T).columns), NEW j \in 1 .. Len(ReadTable(P).rows)
  PROVE  /\ ReadTable(P).columns = ReadTable(T).columns /\ n \in Nat \ {0}
         /\ \E r \in 1 .. Len(ReadTable(T).rows) : CutFrom(P, T, j, r, n)
<1> DEFINE S == RowOffsets(T)
           o == InOrder(RowOffsets(P))[j]
           r == Cardinality(Below(S, o)) + 1
<1>1. T \in Texts
  BY DEF EndsLine
<1>2. o \in RowOffsets(P) /\ ReadTable(P).rows[j] = Row(P, o)
  BY ReadTableFacts
<1>3. /\ o \in S /\ ReadTable(P).columns = ReadTable(T).columns /\ n \in Nat \ {0}
      /\ \A k \in 1 .. n - 1 : Row(P, o)[k] = Row(T, o)[k]
      /\ Begins(Row(P, o)[n], Row(T, o)[n])
  BY <1>2, CutText
<1>4. Len(T) \in Nat /\ S \in SUBSET (1 .. Len(T))
  BY <1>1, OffsetsFacts
<1>5. r \in 1 .. Cardinality(S) /\ InOrder(S)[r] = o
  BY <1>3, <1>4, InOrderFacts
<1>6. r \in 1 .. Len(ReadTable(T).rows) /\ ReadTable(T).rows[r] = Row(T, InOrder(S)[r])
  BY <1>1, <1>5, ReadTableFacts
<1> HIDE DEF r, o, S
<1>7. CutFrom(P, T, j, r, n)
  BY <1>2, <1>3, <1>5, <1>6 DEF CutFrom, o, S
<1> QED BY <1>3, <1>6, <1>7

\* The ids of a beginning are unique, if they are not in the last column, and
\* its values were given or are cut from such.
LEMMA CutSound ==
  ASSUME PlainStatements, WellFormedExisting,
         NEW T, EndsLine(T), ReadTable(T).ok, Sound(T, "none"),
         NEW P \in Texts, Begins(P, T), NEW cut, cut # "none"
  PROVE  Sound(P, cut)
<1> SUFFICES ASSUME ReadTable(P).ok PROVE SoundRows(ReadTable(P).columns, ReadTable(P).rows, cut)
  BY DEF Sound
<1> DEFINE c == ReadTable(T).columns
           n == Len(c)
           RT == ReadTable(T).rows
           RP == ReadTable(P).rows
           i == ColumnIndex(c, Id)
<1>1. /\ T \in Texts /\ RP \in Seq(Seq(Plain)) /\ RT \in Seq(Seq(Plain)) /\ c \in Seq(Plain)
      /\ SoundRows(c, RT, "none") /\ Len(RP) \in Nat
  BY ReadTableFacts, LenProperties DEF EndsLine, Sound
<1>2. CASE Len(RP) = 0
  <2>1. RP = <<>>
    BY <1>1, <1>2, EmptySeq
  <2> QED BY <2>1, NoRowsSound
<1>3. CASE Len(RP) # 0
  <2>1. \A j \in 1 .. Len(RP) : \E r \in 1 .. Len(RT) : CutFrom(P, T, j, r, n)
    BY CutRows
  <2>2. ReadTable(P).columns = c /\ n \in Nat \ {0}
    <3>1. 1 \in 1 .. Len(RP)
      BY <1>1, <1>3
    <3> QED BY <3>1, CutRows
  <2>3. /\ RowOffsets(P) \in SUBSET (1 .. Len(P)) /\ Len(P) \in Nat
        /\ Len(RP) = Cardinality(RowOffsets(P))
    BY OffsetsFacts, ReadTableFacts
  <2>4. i \in 0 .. n
    BY <1>1, ColumnIndexIs
  <2>5. /\ \A j \in 1 .. Len(RP) : RP[j] \in Seq(Plain) /\ Len(RP[j]) = n
        /\ \A r \in 1 .. Len(RT) : RT[r] \in Seq(Plain) /\ Len(RT[r]) = n
    <3>1. \A j \in 1 .. Len(RP) : RP[j] \in Seq(Plain)
      BY <1>1, ElementOfSeq
    <3>2. \A r \in 1 .. Len(RT) : RT[r] \in Seq(Plain)
      BY <1>1, ElementOfSeq
    <3>3. \A j \in 1 .. Len(RP) : Len(RP[j]) = n
      BY <2>2, ReadTableFacts
    <3>4. \A r \in 1 .. Len(RT) : Len(RT[r]) = n
      BY <1>1, ReadTableFacts
    <3> QED BY <3>1, <3>2, <3>3, <3>4
  <2> HIDE DEF c, n, RT, RP, i
  <2>6. ASSUME Once(RT, i), i # 0, i # n PROVE Once(RP, i)
    <3> SUFFICES ASSUME NEW a \in 1 .. Len(RP), NEW b \in 1 .. Len(RP), RP[a][i] = RP[b][i]
                 PROVE  a = b
      BY DEF Once
    <3>1. PICK x \in 1 .. Len(RT) : CutFrom(P, T, a, x, n)
      BY <2>1
    <3>2. PICK y \in 1 .. Len(RT) : CutFrom(P, T, b, y, n)
      BY <2>1
    <3>3. i \in 1 .. n - 1
      BY <2>2, <2>4, <2>6
    <3>4. RT[x][i] = RP[a][i] /\ RT[y][i] = RP[b][i]
      BY <3>1, <3>2, <3>3 DEF CutFrom, RP, RT
    <3>5. x = y
      BY <2>6, <3>4 DEF Once
    <3>6. InOrder(RowOffsets(P))[a] = InOrder(RowOffsets(P))[b]
      BY <3>1, <3>2, <3>5 DEF CutFrom
    <3> QED BY <2>3, <3>6, InOrderOnce
  <2>7. ASSUME GivenRows(c, RT) PROVE GivenRows(c, RP)
    <3> SUFFICES ASSUME NEW j \in 1 .. Len(RP), NEW k \in 1 .. n, c[k] # Id
                 PROVE  \E v \in Given(c[k]) : Begins(RP[j][k], v)
      BY DEF GivenRows, n
    <3>1. PICK r \in 1 .. Len(RT) : CutFrom(P, T, j, r, n)
      BY <2>1
    <3>2. PICK v \in Given(c[k]) : Begins(RT[r][k], v)
      BY <2>7 DEF GivenRows, n
    <3>3. CASE k # n
      <4>1. k \in 1 .. n - 1
        BY <2>2, <3>3
      <4>2. RT[r][k] = RP[j][k]
        BY <3>1, <4>1 DEF CutFrom, RP, RT
      <4> QED BY <3>2, <4>2
    <3>4. CASE k = n
      <4>1. Begins(RP[j][k], RT[r][k])
        BY <3>1, <3>4 DEF CutFrom, RP, RT
      <4>2. RP[j][k] \in Plain /\ RT[r][k] \in Plain
        BY <2>5, ElementOfSeq
      <4>3. Len(RP[j][k]) \in Nat /\ Len(RT[r][k]) \in Nat /\ Len(v) \in Nat
        BY <4>2, PlainFacts, GivenType
      <4> QED BY <3>2, <4>1, <4>3, BeginsTransitive
    <3> QED BY <3>3, <3>4
  <2>8. SoundRows(c, RP, cut)
    BY <1>1, <2>6, <2>7 DEF SoundRows, i, n
  <2> QED BY <2>2, <2>8 DEF RP
<1> QED BY <1>2, <1>3

-----------------------------------------------------------------------------
(* The copy that storage_delete makes *)

\* The header of a file that was empty: one line break, read as a nameless column.
LEMMA EmptyHeader ==
  /\ WriteRow(<<>>) = <<Newline>> /\ IsLine(<<Newline>>)
  /\ ParseLine(<<Newline>>).ok /\ ParseLine(<<Newline>>).fields = <<<<>>>>
<1> DEFINE w == <<Newline>>
<1>1. <<>> \in Seq(Plain) /\ Len(<<>>) = 0
  OBVIOUS
<1>2. PICK f : Spells(f, <<>>) /\ WriteRow(<<>>) = Line(f[Len(<<>>)])
  BY <1>1, WriteRowFacts
<1>3. f[0] = <<>>
  BY <1>2 DEF Spells, Joins
<1>4. WriteRow(<<>>) = <<>> \o w
  BY <1>1, <1>2, <1>3 DEF Line
<1>5. WriteRow(<<>>) = w
  BY <1>4, NewlineText, EmptyText
<1>6. IsLine(w)
  BY <1>1, <1>5, RowIsLine
<1>7. Whole(w) = w /\ w \in Texts /\ Len(w) = 1 /\ w[1] = Newline
  BY <1>6, WholeLine, NewlineText
<1> HIDE DEF w
<1>8. PICK st \in [0 .. Len(Whole(w)) -> States(Chars \ {Newline})] :
           /\ IsRun(Whole(w), st)
           /\ ParseLine(w).ok <=> st[Len(Whole(w))].mode # "malformed"
           /\ ParseLine(w).fields = st[Len(Whole(w))].fields
  BY <1>7, ParseResult
<1>9. st[0] = State(<<>>, <<>>, "outside") /\ st[1] = ParseChar(w, st[0], 1)
  <2>1. st[0] = StartState /\ Runs(w, st)
    BY <1>7, <1>8 DEF IsRun
  <2>2. 0 \in 0 .. Len(w) - 1 /\ 0 + 1 = 1
    BY <1>7
  <2>3. st[0 + 1] = ParseChar(w, st[0], 0 + 1)
    BY <2>1, <2>2 DEF Runs
  <2> QED BY <2>1, <2>2, <2>3 DEF StartState
<1>10. ParseChar(w, State(<<>>, <<>>, "outside"), 1) = State(Append(<<>>, <<>>), <<>>, "outside")
  <2>1. w[1] \in {Comma, Newline}
    BY <1>7
  <2>2. ASSUME NEW F, NEW x
        PROVE  ParseChar(w, State(F, x, "outside"), 1) = State(Append(F, x), <<>>, "outside")
    BY <2>1, Outside
  <2> QED BY <2>2
<1>11. st[1] = State(Append(<<>>, <<>>), <<>>, "outside")
  BY <1>9, <1>10
<1>12. st[1].mode # "malformed" /\ st[1].fields = Append(<<>>, <<>>)
  BY <1>11 DEF State
<1>13. Append(<<>>, <<>>) = <<<<>>>>
  OBVIOUS
<1> QED BY <1>5, <1>6, <1>7, <1>8, <1>12, <1>13 DEF w

Kept(s, table) == {k \in DOMAIN table.rows : ~Matches(s, table.columns, table.rows[k])}

\* C is the copy that storage_delete writes of a table with the columns c and
\* the rows R, of which it keeps those at K.
IsCopy(C, c, R, K) ==
  LET kept == At(R, K) IN
  /\ C = WriteRow(c) \o FlattenSeq(Copied(kept)) /\ C \in Texts /\ C # <<>>
  /\ K \in SUBSET (1 .. Len(R)) /\ kept \in Seq(Seq(Plain))
  /\ FlattenSeq(Copied(kept)) \in Texts
  /\ \A n \in 1 .. Len(kept) : \E k \in 1 .. Len(R) : kept[n] = R[k]
  /\ Len(R) = 0 => kept = <<>> /\ FlattenSeq(Copied(kept)) = <<>>

LEMMA RewrittenIs ==
  ASSUME NEW s, NEW t \in Texts
  PROVE  LET table == ReadTable(t)
         IN  IsCopy(Rewritten(s, table), table.columns, table.rows, Kept(s, table))
<1> DEFINE table == ReadTable(t)
           R == table.rows
           S == Kept(s, table)
           kept == At(R, S)
           flat == FlattenSeq(Copied(kept))
           head == WriteRow(table.columns)
<1>1. R \in Seq(Seq(Plain)) /\ table.columns \in Seq(Plain)
  BY ReadTableFacts
<1>2. Len(R) \in Nat /\ DOMAIN R = 1 .. Len(R)
  BY <1>1, LenProperties
<1>3. S \in SUBSET (1 .. Len(R))
  BY <1>2 DEF Kept
<1>4. Rewritten(s, table) = head \o flat
  BY DEF Rewritten, Copied, Kept
<1> HIDE DEF R, S
<1>5. /\ kept \in Seq(Seq(Plain)) /\ Len(kept) = Cardinality(S)
      /\ \A n \in 1 .. Cardinality(S) : InOrder(S)[n] \in S /\ kept[n] = R[InOrder(S)[n]]
  BY <1>1, <1>3, AtFacts
<1> HIDE DEF kept
<1>6. \A n \in 1 .. Len(kept) : \E k \in 1 .. Len(R) : kept[n] = R[k]
  BY <1>3, <1>5
<1>7. Copied(kept) \in Seq(Texts) /\ Len(Copied(kept)) = Len(kept)
  BY <1>5, CopiedType
<1>8. flat \in Texts
  BY <1>7, FlattenType DEF Texts
<1>9. head \in Texts /\ Len(head) \in Nat \ {0}
  BY <1>1, WriteRowFacts
<1>10. Len(R) = 0 => kept = <<>> /\ flat = <<>>
  <2> SUFFICES ASSUME Len(R) = 0 PROVE kept = <<>> /\ flat = <<>>
    OBVIOUS
  <2>1. S = {}
    <3>1. 1 .. 0 = {}
      OBVIOUS
    <3> QED BY <1>3, <3>1
  <2>2. Len(kept) = 0
    BY <1>5, <2>1, FS_EmptySet
  <2>3. kept = <<>>
    BY <1>5, <2>2, EmptySeq
  <2>4. PICK f : Joins(f, Copied(kept), Chars) /\ flat = f[Len(Copied(kept))]
    BY <1>7, FlattenJoins DEF Texts
  <2>5. f[0] = <<>>
    BY <2>4 DEF Joins
  <2> QED BY <1>7, <2>2, <2>3, <2>4, <2>5
<1> HIDE DEF head, flat
<1>11. head \o flat \in Texts /\ Len(head \o flat) = Len(head) + Len(flat) /\ Len(flat) \in Nat
  BY <1>8, <1>9, TextConcat
<1>12. head \o flat # <<>>
  <2>1. Len(<<>>) = 0
    OBVIOUS
  <2>2. Len(head \o flat) # 0
    BY <1>9, <1>11
  <2> QED BY <2>1, <2>2
<1>13. IsCopy(head \o flat, table.columns, R, S)
  BY <1>3, <1>5, <1>6, <1>8, <1>10, <1>11, <1>12 DEF IsCopy, head, flat, kept
<1> QED BY <1>4, <1>13 DEF R, S

LEMMA CopyOk ==
  ASSUME NEW t, NEW cut, FileOk(t, cut), ReadTable(t).ok, NEW s,
         NEW table, table = ReadTable(t), NEW C, C = Rewritten(s, table)
  PROVE  /\ FileOk(C, cut) /\ C # <<>>
         /\ table.columns # <<>> /\ (cut = "none" \/ Len(table.columns) > 1) =>
              Reads(C, table.columns, At(table.rows, Kept(s, table)))
<1> DEFINE c == table.columns
           R == table.rows
           kept == At(R, Kept(s, table))
<1>0. t \in Texts /\ (cut = "none" => WellFormed(t)) /\ SoundRows(c, R, cut)
  BY DEF FileOk, Sound
<1>1. /\ C = WriteRow(c) \o FlattenSeq(Copied(kept)) /\ C \in Texts /\ C # <<>>
      /\ Kept(s, table) \in SUBSET (1 .. Len(R)) /\ kept \in Seq(Seq(Plain))
      /\ FlattenSeq(Copied(kept)) \in Texts
      /\ \A n \in 1 .. Len(kept) : \E k \in 1 .. Len(R) : kept[n] = R[k]
      /\ Len(R) = 0 => kept = <<>> /\ FlattenSeq(Copied(kept)) = <<>>
  <2>1. IsCopy(C, c, R, Kept(s, table))
    BY <1>0, RewrittenIs
  <2> QED BY <2>1 DEF IsCopy
<1>2. c \in Seq(Plain) /\ R \in Seq(Seq(Plain)) /\ Len(c) \in Nat
      /\ \A k \in 1 .. Len(R) : Len(R[k]) = Len(c)
  BY <1>0, ReadTableFacts, LenProperties
<1>3. CASE t = <<>>
  <2>1. c = <<>> /\ R = <<>>
    BY <1>3, EmptyTable
  <2>2. C = <<Newline>>
    <3>1. Len(R) = 0
      BY <2>1
    <3>2. FlattenSeq(Copied(kept)) = <<>>
      BY <1>1, <3>1
    <3>3. WriteRow(c) = <<Newline>>
      BY <2>1, EmptyHeader
    <3>4. <<Newline>> \o <<>> = <<Newline>>
      OBVIOUS
    <3> QED BY <1>1, <3>2, <3>3, <3>4, Zenon
  <2>3. EndsLine(C) /\ Reads(C, <<<<>>>>, <<>>)
    BY <2>2, EmptyHeader, ReadLine
  <2>4. WellFormed(C)
    <3>1. Len(<<>>) = 0 /\ 1 .. 0 = {}
      OBVIOUS
    <3>2. \A k \in 1 .. Len(ReadTable(C).rows) : ReadTable(C).rows[k][1] # <<>>
      BY <2>3, <3>1 DEF Reads
    <3> QED BY <1>1, <2>3, <3>2, WellFormedIs DEF Reads
  <2>5. Sound(C, cut)
    BY <2>3, NoRowsSound DEF Reads, Sound
  <2> QED BY <1>1, <2>1, <2>4, <2>5 DEF FileOk
<1>4. CASE t # <<>>
  <2>1. c # <<>> /\ Len(c) \in Nat \ {0}
    <3>1. c = ReadHeader(t).fields /\ ReadHeader(t).ok
      BY <1>0, ReadTableFacts DEF Readable
    <3>2. c # <<>>
      BY <1>0, <1>4, <3>1, HeaderEmpty
    <3> QED BY <1>2, <3>2, EmptySeq
  <2>2. cut = "none" => /\ Len(c) > 1 \/ c \in {<<Id>>, <<<<>>>>}
                        /\ Len(c) = 1 => \A k \in 1 .. Len(R) : R[k][1] # <<>>
    BY <1>0, <1>4, WellFormedIs
  <2>3. SoundRows(c, kept, cut)
    BY <1>0, <1>1, <1>2, AtSound
  <2> HIDE DEF c, R, kept
  <2>4. Len(c) > 1 \/ Len(c) = 1
    <3> DEFINE n == Len(c)
    <3>1. n \in Nat \ {0}
      BY <2>1
    <3> HIDE DEF n
    <3>2. n > 1 \/ n = 1
      BY <3>1
    <3> QED BY <3>2 DEF n
  <2>5. CASE cut = "none" \/ Len(c) > 1
    <3>1. \A k \in 1 .. Len(R) : Storable(c, R[k])
      <4>1. \A k \in 1 .. Len(R) : R[k] \in Seq(Plain)
        BY <1>2, ElementOfSeq
      <4> QED BY <1>2, <2>2, <2>4, <2>5, <4>1 DEF Storable
    <3>2. \A n \in 1 .. Len(kept) : Storable(c, kept[n])
      BY <1>1, <3>1
    <3>3. EndsLine(C) /\ Reads(C, c, kept)
      BY <1>1, <1>2, <2>1, <3>2, ReadCopy
    <3>4. Sound(C, cut)
      BY <2>3, <3>3 DEF Sound, Reads
    <3>5. cut = "none" => WellFormed(C)
      <4> SUFFICES ASSUME cut = "none" PROVE WellFormed(C)
        OBVIOUS
      <4>1. Len(c) = 1 => \A k \in 1 .. Len(kept) : kept[k][1] # <<>>
        BY <1>1, <2>2
      <4>2. /\ Len(ReadTable(C).columns) > 1 \/ ReadTable(C).columns \in {<<Id>>, <<<<>>>>}
            /\ Len(ReadTable(C).columns) = 1 =>
                 \A k \in 1 .. Len(ReadTable(C).rows) : ReadTable(C).rows[k][1] # <<>>
        BY <2>2, <3>3, <4>1 DEF Reads
      <4> QED BY <1>1, <3>3, <4>2, WellFormedIs DEF Reads
    <3> QED BY <1>1, <3>3, <3>4, <3>5 DEF FileOk, c, kept, R
  <2>6. CASE cut # "none" /\ Len(c) = 1
    <3>1. ReadHeader(C).fields = c
      BY <1>1, <1>2, <2>1, HeaderWritten
    <3>2. ReadTable(C).ok => ReadTable(C).columns = c
      BY <1>1, <3>1, ReadTableFacts
    <3>3. ColumnIndex(c, Id) \in 0 .. 1
      BY <1>2, <2>6, ColumnIndexIs
    <3>4. ColumnIndex(c, Id) = 0 \/ ColumnIndex(c, Id) = 1
      BY <3>3
    <3>6. ~(Len(c) > 1)
      BY <2>6
    <3>5. Sound(C, cut)
      <4>1. SoundRows(c, ReadTable(C).rows, cut)
        BY <2>6, <3>4, <3>6 DEF SoundRows
      <4> QED BY <3>2, <4>1 DEF Sound
    <3> QED BY <1>1, <2>6, <3>5, <3>6 DEF FileOk, c
  <2> QED BY <2>4, <2>5, <2>6
<1> QED BY <1>3, <1>4

-----------------------------------------------------------------------------
(* What becomes of a file after it was loaded *)

\* T is what the text V has become: V itself, more lines behind whole lines, or
\* a row glued to the unfinished line that V ends with.  Without rows there is
\* nothing to keep.
Continues(V, T, cut) ==
  \/ RowOffsets(V) = {}
  \/ T = V
  \/ EndsLine(V) /\ Begins(V, T)
  \/ /\ cut # "none"
     /\ \E values \in Seq(Plain) : /\ Len(values) = Len(ReadTable(V).columns)
                                   /\ Begins(Appended(V, values), T)

LEMMA ContinuesWritten ==
  ASSUME NEW V \in Texts, NEW T \in Texts, NEW w \in Texts, NEW cut, Continues(V, T, cut),
         T = V /\ ~EndsLine(V) /\ RowOffsets(V) # {} =>
           /\ cut # "none"
           /\ \E values \in Seq(Plain) : Len(values) = Len(ReadTable(V).columns) /\ w = WriteRow(values)
  PROVE  T \o w \in Texts /\ Continues(V, T \o w, cut)
<1>1. T \o w \in Texts /\ Begins(T, T \o w) /\ Len(T) \in Nat /\ Len(V) \in Nat /\ Len(T \o w) \in Nat
  BY TextConcat, LenProperties DEF Texts
<1>2. CASE RowOffsets(V) = {}
  BY <1>1, <1>2 DEF Continues
<1>3. CASE EndsLine(V) /\ Begins(V, T)
  <2>1. Begins(V, T \o w)
    BY <1>1, <1>3, BeginsTransitive
  <2> QED BY <1>1, <1>3, <2>1 DEF Continues
<1>4. CASE T = V /\ EndsLine(V)
  BY <1>1, <1>4 DEF Continues
<1>5. CASE T = V /\ ~EndsLine(V) /\ RowOffsets(V) # {}
  <2>1. PICK values \in Seq(Plain) : Len(values) = Len(ReadTable(V).columns) /\ w = WriteRow(values)
    BY <1>5
  <2>2. T \o w = Appended(V, values)
    BY <1>5, <2>1 DEF Appended
  <2>3. Begins(T \o w, T \o w)
    BY <1>1, BeginsAppend DEF Texts
  <2> QED BY <1>1, <1>5, <2>1, <2>2, <2>3 DEF Continues
<1>6. CASE cut # "none" /\ \E values \in Seq(Plain) : /\ Len(values) = Len(ReadTable(V).columns)
                                                      /\ Begins(Appended(V, values), T)
  <2>1. PICK values \in Seq(Plain) : /\ Len(values) = Len(ReadTable(V).columns)
                                     /\ Begins(Appended(V, values), T)
    BY <1>6
  <2>2. Len(Appended(V, values)) \in Nat
    <3>1. WriteRow(values) \in Texts
      BY WriteRowFacts
    <3>2. V \o WriteRow(values) \in Texts
      BY <3>1, TextConcat
    <3> QED BY <3>2, LenProperties DEF Texts, Appended
  <2>3. Begins(Appended(V, values), T \o w)
    BY <1>1, <2>1, <2>2, BeginsTransitive
  <2> QED BY <1>1, <1>6, <2>1, <2>3 DEF Continues
<1> QED BY <1>2, <1>3, <1>4, <1>5, <1>6 DEF Continues

\* The row at an offset of V, read from T, is the row of V.
LEMMA OffsetStays ==
  ASSUME NEW V \in Texts, ReadTable(V).ok, NEW T \in Texts, NEW cut, Continues(V, T, cut),
         NEW n, n = Len(ReadTable(V).columns), cut = "none" \/ n > 1,
         NEW o \in RowOffsets(V), RowAtOffset(T, o, n).ok
  PROVE  RowAtOffset(T, o, n).row = Row(V, o)
<1>1. RowParses(LineAt(T, o), n) /\ RowAtOffset(T, o, n).row = Row(T, o)
  <2> DEFINE A == o < Len(T) /\ RowParses(LineAt(T, o), n)
             x == [ok |-> TRUE, row |-> ParseLine(LineAt(T, o)).fields]
             y == [ok |-> FALSE, row |-> <<>>]
  <2>1. RowAtOffset(T, o, n) = IF A THEN x ELSE y
    BY DEF RowAtOffset
  <2>2. ~y.ok /\ x.row = ParseLine(LineAt(T, o)).fields
    OBVIOUS
  <2> HIDE DEF A, x, y
  <2>3. A /\ RowAtOffset(T, o, n) = x
    BY <2>1, <2>2
  <2> QED BY <2>2, <2>3 DEF A, Row
<1>2. o \in Nat \ {0} /\ o < Len(V) /\ Len(V) \in Nat
  BY OffsetsFacts
<1>3. CASE T = V
  BY <1>1, <1>3
<1>4. CASE EndsLine(V) /\ Begins(V, T)
  <2>1. Len(V) \in o + 1 .. Len(V) /\ V[Len(V)] = Newline
    BY <1>2, <1>4 DEF EndsLine
  <2>2. LineAt(T, o) = LineAt(V, o)
    BY <1>2, <1>4, <2>1, LineStays
  <2> QED BY <1>1, <2>2 DEF Row
<1>5. CASE cut # "none" /\ \E values \in Seq(Plain) : /\ Len(values) = Len(ReadTable(V).columns)
                                                      /\ Begins(Appended(V, values), T)
  <2>1. PICK values \in Seq(Plain) : Len(values) = n /\ Begins(Appended(V, values), T)
    BY <1>5
  <2> DEFINE N == Appended(V, values)
  <2>2. WriteRow(values) \in Texts /\ IsLine(WriteRow(values))
    BY WriteRowFacts, RowIsLine
  <2>3. N \in Texts /\ Begins(V, N) /\ Len(N) \in Nat /\ Len(T) \in Nat
    BY <2>2, TextConcat, LenProperties DEF Texts, Appended
  <2>4. n > 1 /\ n \in Nat /\ values # <<>>
    <3>1. Len(<<>>) = 0
      OBVIOUS
    <3>2. n \in Nat /\ n > 1
      BY <1>5, <2>1, LenProperties
    <3> QED BY <2>1, <3>1, <3>2
  <2>5. CASE \E k \in o + 1 .. Len(V) : V[k] = Newline
    <3>1. Begins(V, T)
      BY <1>2, <2>1, <2>3, BeginsTransitive
    <3>2. LineAt(T, o) = LineAt(V, o)
      BY <1>2, <2>5, <3>1, LineStays
    <3> QED BY <1>1, <3>2 DEF Row
  <2>6. CASE \A k \in o + 1 .. Len(V) : V[k] # Newline
    <3>1. Unended(V, o)
      BY <1>2, <2>6 DEF Unended, RowOffsets
    <3>2. ParseLine(LineAt(V, o)).ok /\ Len(Row(V, o)) = n
      BY ReadTableFacts DEF Readable, RowParses, Row
    <3>3. /\ EndsLine(N) /\ o \in RowOffsets(N) /\ Len(Row(N, o)) = (Len(Row(V, o)) - 1) + Len(values)
      BY <2>4, <3>1, <3>2, GlueText
    <3>4. o \in Nat /\ o < Len(N)
      BY <1>2, <2>3, <3>3, OffsetsFacts
    <3> HIDE DEF N
    <3>5. Len(N) \in o + 1 .. Len(N) /\ N[Len(N)] = Newline
      BY <2>3, <3>3, <3>4 DEF EndsLine
    <3>6. Begins(N, T)
      BY <2>1 DEF N
    <3>7. LineAt(T, o) = LineAt(N, o)
      BY <2>3, <3>4, <3>5, <3>6, LineStays
    <3>8. Len(Row(N, o)) = n
      BY <1>1, <3>7 DEF RowParses, Row
    <3> QED BY <2>1, <2>4, <3>2, <3>3, <3>8
  <2> QED BY <2>5, <2>6
<1> QED BY <1>3, <1>4, <1>5 DEF Continues

-----------------------------------------------------------------------------
(* The inductive invariant of the contents *)

FilesOk == \A i \in Inodes : FileOk(text[i], torn) /\ (i > created => text[i] = <<>>)

\* What a process knows of the files it has open.
ProcData(p) ==
  /\ Busy(p) /\ proc[p].call.kind = "insert" => proc[p].call.stmt \in Inserts
  /\ Is(p, "flush", "insert") => Written(proc[p].call.stmt, text[proc[p].fp]).ok
  /\ Is(p, "flush", "delete") \/ Is(p, "rename", "delete") => ReadTable(text[proc[p].fp]).ok
  /\ Is(p, "flush", "delete") => text[proc[p].tp] = <<>>
  /\ Is(p, "rename", "delete") /\ torn # "delete" => text[proc[p].tp] = proc[p].buf

\* What a process has loaded from the text V of a file that is not overwritten.
LoadedFrom(V, inode, table) ==
  /\ V \in Texts /\ table = ReadTable(V) /\ table.ok
  /\ ColumnIndex(table.columns, Id) # 0 /\ Len(table.columns) > 1 => GivenRows(table.columns, table.rows)
  /\ inode \in 1 .. created /\ inode # temp
  /\ Continues(V, text[inode], torn)

ViewInv(p) ==
  \/ view[p] = NoView
  \/ \E V \in Texts : LoadedFrom(V, view[p].inode, view[p].table)

Counters == torn \in {"none", "insert", "delete"} /\ calls \in 0 .. MaxCalls

ViewsInv == DOMAIN view = Procs /\ \A p \in Procs : ViewInv(p)

DataInv == /\ FilesOk /\ Counters /\ ViewsInv
           /\ \A p \in Procs : ProcData(p)

\* A process whose files are left alone.
LEMMA OtherData ==
  ASSUME NEW q, ProcData(q), proc'[q] = proc[q],
         Busy(q) => \/ text'[proc[q].fp] = text[proc[q].fp]
                    \/ proc[q].pc \in {"lock", "locked"},
         Busy(q) /\ proc[q].call.kind = "delete" /\ proc[q].pc \in {"flush", "rename"} =>
           text'[proc[q].tp] = text[proc[q].tp] /\ (torn = "delete" => torn' = "delete")
  PROVE  ProcData(q)'
  BY DEF ProcData, Is, Busy

LEMMA IdleData ==
  ASSUME NEW q, proc'[q] = Idle
  PROVE  ProcData(q)'
  BY DEF ProcData, Is, Busy

\* A view stays when its file continues.
LEMMA ViewKept ==
  ASSUME NEW q, ViewInv(q), view'[q] = view[q], created \in Nat, created' \in Nat, created <= created',
         \A V \in Texts : LoadedFrom(V, view[q].inode, view[q].table) =>
           view[q].inode # temp' /\ Continues(V, text'[view[q].inode], torn')
  PROVE  ViewInv(q)'
<1>1. CASE view[q] = NoView
  BY <1>1 DEF ViewInv
<1>2. CASE \E V \in Texts : LoadedFrom(V, view[q].inode, view[q].table)
  <2>1. PICK V \in Texts : LoadedFrom(V, view[q].inode, view[q].table)
    BY <1>2
  <2> DEFINE inode == view[q].inode
             table == view[q].table
  <2>2. /\ V \in Texts /\ table = ReadTable(V) /\ table.ok
        /\ ColumnIndex(table.columns, Id) # 0 /\ Len(table.columns) > 1 => GivenRows(table.columns, table.rows)
        /\ inode \in 1 .. created
    BY <2>1 DEF LoadedFrom
  <2>3. inode \in 1 .. created'
    BY <2>2
  <2>4. inode # temp' /\ Continues(V, text'[inode], torn')
    BY <2>1
  <2>5. inode' = inode /\ table' = table
    OBVIOUS
  <2> HIDE DEF inode, table
  <2>6. LoadedFrom(V, inode, table)'
    BY <2>2, <2>3, <2>4, <2>5 DEF LoadedFrom
  <2> QED BY <2>6 DEF ViewInv, inode, table
<1> QED BY <1>1, <1>2 DEF ViewInv

\* A file that no write touches continues as it is.
LEMMA ContinuesCut ==
  ASSUME NEW V, NEW T, NEW cut, NEW new, Continues(V, T, cut), new = cut \/ cut = "none"
  PROVE  Continues(V, T, new)
  BY DEF Continues

LEMMA ViewUntouched ==
  ASSUME NEW q, ViewInv(q), view'[q] = view[q], created \in Nat, created' \in Nat, created <= created',
         torn' = torn \/ torn = "none",
         view[q].inode \in 1 .. created /\ view[q].inode # temp =>
           view[q].inode # temp' /\ text'[view[q].inode] = text[view[q].inode]
  PROVE  ViewInv(q)'
<1>1. ASSUME NEW V \in Texts, LoadedFrom(V, view[q].inode, view[q].table)
      PROVE  view[q].inode # temp' /\ Continues(V, text'[view[q].inode], torn')
  <2>1. view[q].inode \in 1 .. created /\ view[q].inode # temp /\ Continues(V, text[view[q].inode], torn)
    BY <1>1 DEF LoadedFrom
  <2>2. Continues(V, text[view[q].inode], torn')
    BY <2>1, ContinuesCut
  <2> QED BY <2>1, <2>2
<1> QED BY <1>1, ViewKept

\* One file is written, and nothing else changes.
LEMMA WriteOk ==
  ASSUME IndInv, FilesOk, torn' = torn \/ torn = "none", created' \in Nat, created <= created',
         NEW i \in 1 .. created', NEW new, FileOk(new, torn'), text' = [text EXCEPT ![i] = new]
  PROVE  FilesOk'
<1>1. created \in Nat /\ DOMAIN text = Inodes
  BY DEF IndInv, FilesInv
<1> SUFFICES ASSUME NEW j \in Inodes
             PROVE  FileOk(text'[j], torn') /\ (j > created' => text'[j] = <<>>)
  BY DEF FilesOk
<1>2. FileOk(text[j], torn) /\ (j > created => text[j] = <<>>) /\ j \in Nat
  BY DEF FilesOk, Inodes
<1>3. FileOk(text[j], torn')
  BY <1>2, OkCut
<1>4. CASE j = i
  BY <1>1, <1>4
<1>5. CASE j # i
  <2>1. text'[j] = text[j]
    BY <1>1, <1>5
  <2> QED BY <1>1, <1>2, <1>3, <2>1
<1> QED BY <1>4, <1>5

\* A step that writes no file and loads none.
LEMMA QuietStep ==
  ASSUME IndInv, DataInv, NEW p \in Procs, UNCHANGED <<text, torn, view>>,
         created' \in Nat, created <= created', temp' \in {temp, None},
         \A q \in Procs \ {p} : proc'[q] = proc[q], ProcData(p)', calls' \in 0 .. MaxCalls
  PROVE  DataInv'
<1>1. created \in Nat
  BY DEF IndInv, FilesInv
<1>2. FilesOk'
  BY <1>1 DEF DataInv, FilesOk, Inodes
<1>3. ASSUME NEW q \in Procs PROVE ViewInv(q)'
  <2>1. view[q].inode \in 1 .. created /\ view[q].inode # temp => view[q].inode # temp'
    BY <1>1 DEF None
  <2> QED BY <1>1, <2>1, ViewUntouched DEF DataInv, ViewsInv
<1>4. ASSUME NEW q \in Procs \ {p} PROVE ProcData(q)'
  BY OtherData DEF DataInv
<1>5. Counters'
  BY DEF DataInv, Counters
<1> QED BY <1>2, <1>3, <1>4, <1>5 DEF DataInv, ViewsInv

-----------------------------------------------------------------------------
(* Steps that write nothing *)

LEMMA StartData ==
  ASSUME IndInv, DataInv, NEW p \in Procs, NEW call, NEW inode, Start(p, call, inode),
         call.kind = "insert" => call.stmt \in Inserts
  PROVE  /\ ProcData(p)' /\ calls' \in 0 .. MaxCalls
         /\ \A q \in Procs \ {p} : proc'[q] = proc[q]
<1>1. /\ proc'[p] = Opened(call, inode) /\ \A q \in Procs \ {p} : proc'[q] = proc[q]
  BY DEF Start, IndInv, FilesInv, Opened
<1>2. proc'[p].pc = "lock" /\ proc'[p].call = call
  BY <1>1 DEF Opened
<1>3. ProcData(p)'
  BY <1>2 DEF ProcData, Is
<1>4. calls' \in 0 .. MaxCalls
  BY MaxCallsAssumption DEF Start, DataInv, Counters
<1> QED BY <1>1, <1>3, <1>4

LEMMA OpenForInsertData ==
  ASSUME IndInv, DataInv, NEW p \in Procs, NEW s \in Inserts, OpenForInsert(p, s)
  PROVE  DataInv'
<1>1. InsertCall(s).stmt = s
  BY DEF InsertCall
<1>2. UNCHANGED <<temp, text, view, torn>> /\ created \in Nat
  BY DEF OpenForInsert, IndInv, FilesInv
<1>3. /\ created' \in Nat /\ created <= created'
      /\ \E inode : Start(p, InsertCall(s), inode)
  BY <1>2 DEF OpenForInsert
<1>4. /\ ProcData(p)' /\ calls' \in 0 .. MaxCalls
      /\ \A q \in Procs \ {p} : proc'[q] = proc[q]
  BY <1>1, <1>3, StartData
<1> QED BY <1>2, <1>3, <1>4, QuietStep

LEMMA OpenForReadData ==
  ASSUME IndInv, DataInv, NEW p \in Procs, NEW call, OpenForRead(p, call), call.kind # "insert"
  PROVE  DataInv'
<1>1. UNCHANGED <<temp, text, view, torn, created>> /\ created \in Nat /\ Start(p, call, path)
  BY DEF OpenForRead, IndInv, FilesInv
<1>2. /\ ProcData(p)' /\ calls' \in 0 .. MaxCalls
      /\ \A q \in Procs \ {p} : proc'[q] = proc[q]
  BY <1>1, StartData
<1> QED BY <1>1, <1>2, QuietStep

LEMMA LockData ==
  ASSUME IndInv, DataInv, NEW p \in Procs, Lock(p)
  PROVE  DataInv'
<1>1. /\ UNCHANGED <<temp, text, created, view, torn, calls>> /\ Busy(p)
      /\ proc' = [proc EXCEPT ![p].pc = "locked"]
  BY DEF Lock
<1>2. Working(proc[p]) /\ DOMAIN proc = Procs /\ created \in Nat
  BY <1>1, BusyIsWorking DEF IndInv, FilesInv
<1>3. /\ \A q \in Procs \ {p} : proc'[q] = proc[q]
      /\ proc'[p] = [proc[p] EXCEPT !.pc = "locked"]
  BY <1>1, <1>2
<1>4. proc'[p].pc = "locked" /\ proc'[p].call = proc[p].call
  BY <1>2, <1>3 DEF Working
<1>5. ProcData(p)'
  BY <1>1, <1>4 DEF DataInv, ProcData, Is
<1>6. calls' \in 0 .. MaxCalls
  BY <1>1 DEF DataInv, Counters
<1> QED BY <1>1, <1>2, <1>3, <1>5, <1>6, QuietStep

LEMMA InsertData ==
  ASSUME IndInv, DataInv, NEW p \in Procs, Insert(p)
  PROVE  DataInv'
<1> DEFINE w == Written(proc[p].call.stmt, text[proc[p].fp])
           buf == w.buf
<1>1. /\ UNCHANGED <<temp, text, created, view, torn, calls>>
      /\ Busy(p) /\ proc[p].pc = "locked" /\ proc[p].call.kind = "insert"
      /\ \/ Close(p)
         \/ w.ok /\ proc' = [proc EXCEPT ![p].pc = "flush", ![p].buf = buf]
  BY DEF Insert, Is
<1>2. Working(proc[p]) /\ DOMAIN proc = Procs /\ created \in Nat
  BY <1>1, BusyIsWorking DEF IndInv, FilesInv
<1>3. calls' \in 0 .. MaxCalls
  BY <1>1 DEF DataInv, Counters
<1>4. CASE Close(p)
  <2>1. proc'[p] = Idle /\ \A q \in Procs \ {p} : proc'[q] = proc[q]
    BY <1>2, <1>4 DEF Close
  <2> QED BY <1>1, <1>2, <1>3, <2>1, IdleData, QuietStep
<1>5. CASE w.ok /\ proc' = [proc EXCEPT ![p].pc = "flush", ![p].buf = buf]
  <2> HIDE DEF buf
  <2>1. /\ \A q \in Procs \ {p} : proc'[q] = proc[q]
        /\ proc'[p] = [proc[p] EXCEPT !.pc = "flush", !.buf = buf]
    BY <1>2, <1>5
  <2>2. proc'[p].pc = "flush" /\ proc'[p].call = proc[p].call /\ proc'[p].fp = proc[p].fp
    BY <1>2, <2>1 DEF Working
  <2>3. ProcData(p)'
    BY <1>1, <1>5, <2>2 DEF DataInv, ProcData, Is
  <2> QED BY <1>1, <1>2, <1>3, <2>1, <2>3, QuietStep
<1> QED BY <1>1, <1>4, <1>5

LEMMA RenameData ==
  ASSUME IndInv, DataInv, NEW p \in Procs, Rename(p) \/ RenameFails(p)
  PROVE  DataInv'
<1>1. UNCHANGED <<text, created, view, torn, calls>> /\ temp' = None /\ Close(p)
  BY DEF Rename, RenameFails
<1>2. DOMAIN proc = Procs /\ created \in Nat
  BY DEF IndInv, FilesInv
<1>3. proc'[p] = Idle /\ \A q \in Procs \ {p} : proc'[q] = proc[q]
  BY <1>1, <1>2 DEF Close
<1>4. calls' \in 0 .. MaxCalls
  BY <1>1 DEF DataInv, Counters
<1> QED BY <1>1, <1>2, <1>3, <1>4, IdleData, QuietStep

LEMMA LoadData ==
  ASSUME IndInv, DataInv, NEW p \in Procs, Load(p)
  PROVE  DataInv'
<1> DEFINE V == text[proc[p].fp]
           t == ReadTable(V)
           new == [inode |-> proc[p].fp, table |-> t]
<1>1. /\ UNCHANGED <<path, temp, text, created, torn, calls>> /\ Close(p) /\ Busy(p)
      /\ view' = [view EXCEPT ![p] = IF t.ok THEN new ELSE NoView]
  BY DEF Load, Is
<1>2. /\ Working(proc[p]) /\ proc[p].fp # temp /\ DOMAIN proc = Procs /\ created \in 0 .. MaxInodes
  BY <1>1, BusyIsWorking DEF IndInv, FilesInv
<1>3. proc[p].fp \in 1 .. created /\ proc[p].fp \in Inodes /\ created \in Nat
  BY <1>2, MaxInodesAssumption DEF Working, Inodes
<1>4. FileOk(V, torn)
  BY <1>3 DEF DataInv, FilesOk
<1>5. proc'[p] = Idle /\ \A q \in Procs \ {p} : proc'[q] = proc[q]
  BY <1>1, <1>2 DEF Close
<1>6. FilesOk' /\ Counters'
  BY <1>1 DEF DataInv, FilesOk, Counters
<1>7. ASSUME NEW q \in Procs PROVE ProcData(q)'
  <2>1. CASE q = p
    BY <1>5, <2>1, IdleData
  <2>2. CASE q # p
    BY <1>1, <1>5, <2>2, OtherData DEF DataInv
  <2> QED BY <2>1, <2>2
<1>8. /\ DOMAIN view' = Procs /\ \A q \in Procs \ {p} : view'[q] = view[q]
      /\ view'[p] = IF t.ok THEN new ELSE NoView
  BY <1>1 DEF DataInv, ViewsInv
<1>9. ASSUME NEW q \in Procs \ {p} PROVE ViewInv(q)'
  BY <1>1, <1>3, <1>8, ViewUntouched DEF DataInv, ViewsInv
<1>10. ViewInv(p)'
  <2>1. CASE ~t.ok
    <3>1. view'[p] = NoView
      BY <1>8, <2>1
    <3> QED BY <3>1 DEF ViewInv
  <2>2. CASE t.ok
    <3>1. view'[p].inode = proc[p].fp /\ view'[p].table = t
      BY <1>8, <2>2
    <3>2. V \in Texts /\ (ColumnIndex(t.columns, Id) # 0 /\ Len(t.columns) > 1 => GivenRows(t.columns, t.rows))
      BY <1>4, <2>2 DEF FileOk, Sound, SoundRows
    <3>3. PICK U \in Texts : U = V
      BY <3>2
    <3>4. LoadedFrom(U, view[p].inode, view[p].table)'
      BY <1>1, <1>2, <1>3, <2>2, <3>1, <3>2, <3>3 DEF LoadedFrom, Continues
    <3> QED BY <3>4 DEF ViewInv
  <2> QED BY <2>1, <2>2
<1> QED BY <1>6, <1>7, <1>8, <1>9, <1>10 DEF DataInv, ViewsInv

-----------------------------------------------------------------------------
(* What storage_insert writes *)

\* A process about to flush an INSERT, and the file it has locked.
Flushing(p, s, T) ==
  /\ s = proc[p].call.stmt /\ T = text[proc[p].fp]
  /\ s \in Inserts /\ T \in Texts /\ FileOk(T, torn) /\ Written(s, T).ok
  /\ proc[p].buf = Written(s, T).buf /\ proc[p].buf \in Texts
  /\ proc[p].fp \in 1 .. created /\ proc[p].fp \in Inodes /\ proc[p].fp # temp

LEMMA FlushingIs ==
  ASSUME PlainStatements, IndInv, DataInv, NEW p \in Procs, Is(p, "flush", "insert")
  PROVE  Flushing(p, proc[p].call.stmt, text[proc[p].fp])
<1> DEFINE s == proc[p].call.stmt
           T == text[proc[p].fp]
<1>1. Busy(p) /\ proc[p].call.kind = "insert"
  BY DEF Is
<1>2. Working(proc[p]) /\ proc[p].fp # temp /\ created \in 0 .. MaxInodes
  BY <1>1, BusyIsWorking DEF IndInv, FilesInv
<1>3. proc[p].fp \in 1 .. created /\ proc[p].fp \in Inodes
  BY <1>2, MaxInodesAssumption DEF Working, Inodes
<1>4. FileOk(T, torn) /\ T \in Texts
  BY <1>3 DEF DataInv, FilesOk, FileOk
<1>5. s \in Inserts /\ Written(s, T).ok
  BY <1>1 DEF DataInv, ProcData
<1>6. proc[p].buf = Written(s, T).buf
  BY DEF IndInv, Current
<1> HIDE DEF s, T
<1>7. Written(s, T).buf \in Texts
  BY <1>4, <1>5, BufferIs
<1> QED BY <1>2, <1>3, <1>4, <1>5, <1>6, <1>7 DEF Flushing, s, T

\* The processes and views that a write to the table does not concern.
LEMMA AppendOthers ==
  ASSUME PlainStatements, IndInv, DataInv, NEW p \in Procs, Is(p, "flush", "insert"),
         NEW w \in Texts, text' = [text EXCEPT ![proc[p].fp] = text[proc[p].fp] \o w],
         UNCHANGED <<path, temp, created>>,
         (torn' = torn /\ w = proc[p].buf) \/ torn = "none",
         NEW q \in Procs
  PROVE  /\ view'[q] = view[q] => ViewInv(q)'
         /\ q # p /\ proc'[q] = proc[q] => ProcData(q)'
<1> DEFINE i == proc[p].fp
           s == proc[p].call.stmt
           T == text[i]
<1>1. Flushing(p, s, T) /\ created \in Nat /\ DOMAIN text = Inodes
  BY FlushingIs DEF IndInv, FilesInv
<1>2. /\ s \in Inserts /\ T \in Texts /\ FileOk(T, torn) /\ Written(s, T).ok
      /\ proc[p].buf = Written(s, T).buf
      /\ i \in 1 .. created /\ i \in Inodes /\ i # temp
  BY <1>1 DEF Flushing
<1>3. text'[i] = T \o w /\ \A j \in Inodes \ {i} : text'[j] = text[j]
  BY <1>1, <1>2
<1> HIDE DEF T, s
<1>4. ASSUME view'[q] = view[q] PROVE ViewInv(q)'
  <2>1. ASSUME NEW V \in Texts, LoadedFrom(V, view[q].inode, view[q].table)
        PROVE  view[q].inode # temp' /\ Continues(V, text'[view[q].inode], torn')
    <3>1. /\ view[q].inode \in 1 .. created /\ view[q].inode # temp
          /\ Continues(V, text[view[q].inode], torn) /\ ReadTable(V).ok
      BY <2>1 DEF LoadedFrom
    <3>2. CASE view[q].inode # i
      <4>1. view[q].inode \in Inodes
        BY <3>1, MaxInodesAssumption DEF Inodes, IndInv, FilesInv
      <4>2. text'[view[q].inode] = text[view[q].inode]
        BY <1>3, <3>2, <4>1
      <4> QED BY <3>1, <4>2, ContinuesCut
    <3>3. CASE view[q].inode = i
      <4>1. Continues(V, T, torn)
        BY <3>1, <3>3 DEF T
      <4>2. ASSUME T = V, ~EndsLine(V), RowOffsets(V) # {}
            PROVE  /\ torn # "none"
                   /\ \E values \in Seq(Plain) :
                        Len(values) = Len(ReadTable(V).columns) /\ w = WriteRow(values)
        <5>1. T # <<>>
          <6>1. RowOffsets(<<>>) = {}
            BY DEF RowOffsets
          <6> QED BY <4>2, <6>1
        <5>2. torn # "none"
          BY <1>2, <4>2, <5>1, WellFormedIs DEF FileOk
        <5>3. w = WriteRow(Values(s, T))
          BY <1>2, <5>1, <5>2, BufferIs
        <5>4. /\ Values(s, T) \in Seq(Plain) /\ Len(Values(s, T)) = Len(Columns(s, T))
              /\ Columns(s, T) = ReadHeader(T).fields
          BY <1>2, <5>1, ValuesFacts
        <5>5. ReadTable(V).columns = ReadHeader(T).fields
          BY <3>1, <4>2, ReadTableFacts
        <5> QED BY <5>2, <5>3, <5>4, <5>5
      <4>3. Continues(V, T \o w, torn)
        BY <1>2, <4>1, <4>2, ContinuesWritten
      <4>4. Continues(V, T \o w, torn')
        BY <4>3, ContinuesCut
      <4> QED BY <1>3, <3>1, <3>3, <4>4
    <3> QED BY <3>2, <3>3
  <2> QED BY <1>1, <1>4, <2>1, ViewKept DEF DataInv, ViewsInv
<1>5. ASSUME q # p, proc'[q] = proc[q] PROVE ProcData(q)'
  <2>1. Undisturbed(q)
    <3>1. Busy(p) /\ proc[p].pc # "lock" /\ Exclusive(p)
      BY DEF Is, Exclusive
    <3> QED BY <1>5, <3>1, OwnFileWritten
  <2>2. ASSUME Busy(q), proc[q].call.kind = "delete", proc[q].pc \in {"flush", "rename"}
        PROVE  text'[proc[q].tp] = text[proc[q].tp]
    <3>1. proc[q].tp = temp /\ temp # None
      BY <2>2, BusyIsWorking DEF IndInv
    <3>2. temp \in Inodes
      BY <3>1, MaxInodesAssumption DEF IndInv, FilesInv, Inodes, None
    <3> QED BY <1>2, <1>3, <3>1, <3>2
  <2>3. ProcData(q)
    BY DEF DataInv
  <2>4. torn = "delete" => torn' = "delete"
    OBVIOUS
  <2> QED BY <1>5, <2>1, <2>2, <2>3, <2>4, OtherData DEF Undisturbed
<1> QED BY <1>4, <1>5

LEMMA FlushInsertData ==
  ASSUME PlainStatements, IndInv, DataInv, NEW p \in Procs, FlushInsert(p)
  PROVE  DataInv'
<1> DEFINE s == proc[p].call.stmt
           T == text[proc[p].fp]
<1>1. /\ Is(p, "flush", "insert") /\ UNCHANGED <<path, temp, created, view, torn, calls>>
      /\ Close(p) /\ text' = [text EXCEPT ![proc[p].fp] = text[proc[p].fp] \o proc[p].buf]
  BY DEF FlushInsert
<1>2. Flushing(p, s, T) /\ created \in Nat /\ DOMAIN proc = Procs
  BY <1>1, FlushingIs DEF IndInv, FilesInv
<1>3. proc'[p] = Idle /\ \A q \in Procs \ {p} : proc'[q] = proc[q]
  BY <1>1, <1>2 DEF Close
<1>4. proc[p].buf \in Texts
  BY <1>2 DEF Flushing
<1>5. FileOk(T \o proc[p].buf, torn)
  BY <1>2, InsertedSound DEF Flushing
<1>6. FilesOk'
  <2>1. /\ torn' = torn /\ created' \in Nat /\ created <= created'
        /\ proc[p].fp \in 1 .. created' /\ FilesOk
    BY <1>1, <1>2 DEF Flushing, DataInv
  <2>2. FileOk(text[proc[p].fp] \o proc[p].buf, torn')
    BY <1>5, <2>1
  <2>3. text' = [text EXCEPT ![proc[p].fp] = text[proc[p].fp] \o proc[p].buf]
    BY <1>1
  <2> QED BY <2>1, <2>2, <2>3, WriteOk
<1>7. \A q \in Procs : ViewInv(q)' /\ (q # p => ProcData(q)')
  BY <1>1, <1>3, <1>4, AppendOthers
<1>8. ProcData(p)'
  BY <1>3, IdleData
<1> QED BY <1>1, <1>6, <1>7, <1>8 DEF DataInv, ViewsInv, Counters

LEMMA PrefixBegins ==
  ASSUME NEW T \in Texts, NEW b \in Texts, NEW n \in 0 .. Len(b)
  PROVE  /\ SubSeq(b, 1, n) \in Texts /\ T \o SubSeq(b, 1, n) \in Texts
         /\ Begins(SubSeq(b, 1, n), b)
         /\ Begins(T \o SubSeq(b, 1, n), T \o b)
<1> DEFINE a == SubSeq(b, 1, n)
<1>1. Len(b) \in Nat
  BY LenProperties DEF Texts
<1>2. 1 \in 1 .. Len(b) + 1 /\ n \in 1 - 1 .. Len(b)
  BY <1>1
<1>3. a \in Texts /\ Len(a) = n - 1 + 1 /\ \A i \in 1 .. n - 1 + 1 : a[i] = b[1 + i - 1]
  BY <1>2, SubSeqFacts DEF Texts
<1>4. Len(a) = n /\ \A i \in 1 .. n : a[i] = b[i]
  BY <1>1, <1>3
<1> HIDE DEF a
<1>5. /\ T \o a \in Texts /\ Len(T) \in Nat /\ Len(T \o a) = Len(T) + n /\ Len(T \o b) = Len(T) + Len(b)
      /\ \A k \in 1 .. Len(T) : (T \o a)[k] = T[k] /\ (T \o b)[k] = T[k]
      /\ \A k \in 1 .. n : (T \o a)[Len(T) + k] = a[k]
      /\ \A k \in 1 .. Len(b) : (T \o b)[Len(T) + k] = b[k]
  BY <1>3, <1>4, TextConcat
<1>6. Begins(a, b)
  BY <1>1, <1>4 DEF Begins
<1> DEFINE A == T \o a
           B == T \o b
           m == Len(T)
<1> HIDE DEF A, B, m
<1>7. ASSUME NEW k \in 1 .. m + n PROVE B[k] = A[k]
  <2>1. CASE k \in 1 .. m
    BY <1>5, <2>1 DEF A, B, m
  <2>2. CASE k \notin 1 .. m
    <3> DEFINE j == k - m
    <3>1. m \in Nat
      BY <1>5 DEF m
    <3>2. j \in 1 .. n /\ j \in 1 .. Len(b) /\ m + j = k
      BY <1>1, <2>2, <3>1
    <3> HIDE DEF j
    <3>3. A[m + j] = a[j] /\ B[m + j] = b[j]
      BY <1>5, <3>2 DEF A, B, m
    <3> QED BY <1>4, <3>2, <3>3
  <2> QED BY <2>1, <2>2
<1>8. Begins(A, B)
  BY <1>1, <1>5, <1>7 DEF Begins, A, B, m
<1> QED BY <1>3, <1>5, <1>6, <1>8 DEF a, A, B

-----------------------------------------------------------------------------
(* What storage_delete writes *)

\* The temporary file that storage_delete opens is nobody's table.
LEMMA DeleteOpens ==
  ASSUME IndInv, NEW inode, inode = IF temp = None THEN created + 1 ELSE temp,
         inode <= MaxInodes, created' = Max({created, inode})
  PROVE  /\ created \in Nat /\ created' \in Nat /\ created <= created'
         /\ inode \in 1 .. created' /\ inode \in Inodes
         /\ inode = temp \/ inode = created + 1
         /\ \A q \in Procs : Busy(q) =>
              proc[q].fp \in 1 .. created /\ proc[q].fp \in Inodes /\ proc[q].fp # inode
<1>1. created \in 0 .. MaxInodes /\ temp \in 0 .. created /\ DOMAIN text = Inodes
  BY DEF IndInv, FilesInv
<1>2. /\ inode \in 1 .. MaxInodes /\ (inode = temp \/ inode = created + 1) /\ created \in Nat
  BY <1>1, MaxInodesAssumption DEF None
<1>3. created' \in Nat /\ created <= created' /\ inode \in 1 .. created'
  <2>1. CASE created <= inode
    BY <1>1, <1>2, <2>1, MaxOfTwo, MaxInodesAssumption
  <2>2. CASE inode <= created
    BY <1>1, <1>2, <2>2, MaxOfTwo, MaxInodesAssumption
  <2> QED BY <1>1, <1>2, <2>1, <2>2, MaxInodesAssumption
<1>4. ASSUME NEW q \in Procs, Busy(q)
      PROVE  proc[q].fp \in 1 .. created /\ proc[q].fp \in Inodes /\ proc[q].fp # inode
  <2>1. proc[q].fp \in 1 .. created /\ proc[q].fp # temp
    BY <1>4, BusyIsWorking DEF IndInv, Working
  <2>2. proc[q].fp \in Inodes
    BY <1>1, <2>1, MaxInodesAssumption DEF Inodes
  <2> QED BY <1>1, <1>2, <2>1, <2>2
<1> QED BY <1>2, <1>3, <1>4 DEF Inodes

LEMMA DeleteData ==
  ASSUME OneDeleter, IndInv, DataInv, NEW p \in Procs, Delete(p)
  PROVE  DataInv'
<1> DEFINE t == ReadTable(text[proc[p].fp])
           inode == IF temp = None THEN created + 1 ELSE temp
           new == Rewritten(proc[p].call.stmt, t)
<1>1. /\ Busy(p) /\ proc[p].pc = "locked" /\ proc[p].call.kind = "delete"
      /\ UNCHANGED <<path, view, torn, calls>>
  BY DEF Delete, Is
<1>2. \/ Close(p) /\ UNCHANGED <<temp, text, created>>
      \/ /\ t.ok /\ inode <= MaxInodes /\ text' = [text EXCEPT ![inode] = <<>>]
         /\ created' = Max({created, inode})
         /\ \/ Close(p) /\ temp' = None
            \/ /\ proc' = [proc EXCEPT ![p].pc = "flush", ![p].tp = inode, ![p].buf = new]
               /\ temp' = inode
  BY DEF Delete
<1>3. DOMAIN proc = Procs /\ created \in Nat /\ DOMAIN text = Inodes /\ Working(proc[p])
  BY <1>1, BusyIsWorking DEF IndInv, FilesInv
<1>4. calls' \in 0 .. MaxCalls /\ Counters'
  BY <1>1 DEF DataInv, Counters
<1>5. CASE Close(p) /\ UNCHANGED <<temp, text, created>>
  <2>1. proc'[p] = Idle /\ \A q \in Procs \ {p} : proc'[q] = proc[q]
    BY <1>3, <1>5 DEF Close
  <2> QED BY <1>1, <1>3, <1>4, <1>5, <2>1, IdleData, QuietStep
<1>6. CASE /\ t.ok /\ inode <= MaxInodes /\ text' = [text EXCEPT ![inode] = <<>>]
           /\ created' = Max({created, inode})
           /\ \/ Close(p) /\ temp' = None
              \/ /\ proc' = [proc EXCEPT ![p].pc = "flush", ![p].tp = inode, ![p].buf = new]
                 /\ temp' = inode
  <2>1. /\ created' \in Nat /\ created <= created'
        /\ inode \in 1 .. created' /\ inode \in Inodes
        /\ inode = temp \/ inode = created + 1
        /\ \A q \in Procs : Busy(q) =>
             proc[q].fp \in 1 .. created /\ proc[q].fp \in Inodes /\ proc[q].fp # inode
    BY <1>6, DeleteOpens
  <2>2. temp' = None \/ temp' = inode
    BY <1>6
  <2> HIDE DEF inode, new
  <2>3. text'[inode] = <<>> /\ \A j \in Inodes \ {inode} : text'[j] = text[j]
    BY <1>3, <1>6, <2>1
  <2>4. FilesOk'
    <3>1. FileOk(<<>>, torn')
      BY EmptyOk
    <3>2. FilesOk /\ torn' = torn
      BY <1>1 DEF DataInv
    <3> QED BY <1>6, <2>1, <3>1, <3>2, WriteOk
  <2>5. ASSUME NEW q \in Procs PROVE ViewInv(q)'
    <3>1. ASSUME view[q].inode \in 1 .. created, view[q].inode # temp
          PROVE  view[q].inode # temp' /\ text'[view[q].inode] = text[view[q].inode]
      <4>1. view[q].inode \in Inodes /\ view[q].inode # 0
        BY <1>3, <3>1, MaxInodesAssumption DEF IndInv, FilesInv, Inodes
      <4>2. view[q].inode # inode
        BY <1>3, <2>1, <3>1
      <4> QED BY <2>2, <2>3, <4>1, <4>2 DEF None
    <3> QED BY <1>1, <1>3, <2>1, <3>1, ViewUntouched DEF DataInv, ViewsInv
  <2>6. \A q \in Procs \ {p} : proc'[q] = proc[q]
    BY <1>3, <1>6 DEF Close
  <2>7. ASSUME NEW q \in Procs \ {p} PROVE ProcData(q)'
    <3>1. Busy(q) => proc[q].call.kind # "delete"
      BY <1>1, OthersDoNotDelete
    <3>2. Busy(q) => text'[proc[q].fp] = text[proc[q].fp]
      BY <2>1, <2>3
    <3> QED BY <2>6, <3>1, <3>2, OtherData DEF DataInv
  <2>8. ProcData(p)'
    <3>1. CASE Close(p) /\ temp' = None
      <4>1. proc'[p] = Idle
        BY <1>3, <3>1 DEF Close
      <4> QED BY <4>1, IdleData
    <3>2. CASE proc' = [proc EXCEPT ![p].pc = "flush", ![p].tp = inode, ![p].buf = new]
      <4>1. proc'[p] = [proc[p] EXCEPT !.pc = "flush", !.tp = inode, !.buf = new]
        BY <1>3, <3>2
      <4>2. /\ proc'[p].pc = "flush" /\ proc'[p].tp = inode
            /\ proc'[p].call = proc[p].call /\ proc'[p].fp = proc[p].fp
        BY <1>3, <4>1 DEF Working
      <4>3. text'[proc[p].fp] = text[proc[p].fp]
        BY <1>1, <2>1, <2>3
      <4> QED BY <1>1, <1>6, <2>3, <4>2, <4>3 DEF ProcData, Is
    <3> QED BY <1>6, <3>1, <3>2
  <2> QED BY <1>1, <1>4, <2>4, <2>5, <2>7, <2>8 DEF DataInv, ViewsInv
<1> QED BY <1>2, <1>5, <1>6

\* A process about to flush the copy, the table and the copy.
Copying(p, T, C) ==
  /\ T = text[proc[p].fp] /\ proc[p].fp \in Inodes /\ proc[p].fp = path
  /\ C = proc[p].buf /\ C = Rewritten(proc[p].call.stmt, ReadTable(T))
  /\ FileOk(T, torn) /\ ReadTable(T).ok /\ FileOk(C, torn) /\ C \in Texts /\ C # <<>>
  /\ proc[p].tp = temp /\ temp \in Inodes /\ temp \in 1 .. created /\ proc[p].fp # temp

LEMMA CopyingIs ==
  ASSUME IndInv, DataInv, NEW p \in Procs, Is(p, "flush", "delete") \/ Is(p, "rename", "delete")
  PROVE  Copying(p, text[proc[p].fp], proc[p].buf)
<1> DEFINE T == text[proc[p].fp]
           C == proc[p].buf
<1>1. Busy(p) /\ proc[p].call.kind = "delete" /\ proc[p].pc \in {"flush", "rename"}
  BY DEF Is
<1>2. /\ Working(proc[p]) /\ proc[p].fp # temp /\ proc[p].fp = path
      /\ proc[p].tp = temp /\ temp # None
  BY <1>1, BusyIsWorking DEF IndInv
<1>3. temp \in Inodes /\ temp \in 1 .. created /\ proc[p].fp \in Inodes
  BY <1>2, MaxInodesAssumption DEF IndInv, FilesInv, Working, Inodes, None
<1>4. FileOk(T, torn)
  BY <1>3 DEF DataInv, FilesOk
<1>5. ReadTable(T).ok
  BY DEF DataInv, ProcData
<1>6. C = Rewritten(proc[p].call.stmt, ReadTable(T))
  BY <1>2 DEF IndInv, Current, Table
<1> HIDE DEF T, C
<1>7. FileOk(C, torn) /\ C # <<>>
  BY <1>4, <1>5, <1>6, CopyOk
<1>8. C \in Texts
  BY <1>7 DEF FileOk
<1> QED BY <1>2, <1>3, <1>4, <1>5, <1>6, <1>7, <1>8 DEF Copying, T, C

\* The processes and views that the temporary file does not concern.
LEMMA TempOthers ==
  ASSUME OneDeleter, IndInv, DataInv, NEW p \in Procs, Is(p, "flush", "delete"),
         NEW new, text' = [text EXCEPT ![proc[p].tp] = new],
         UNCHANGED <<path, temp, created>>, torn' = torn \/ torn = "none",
         NEW q \in Procs
  PROVE  /\ view'[q] = view[q] => ViewInv(q)'
         /\ q # p /\ proc'[q] = proc[q] => ProcData(q)'
<1>1. proc[p].tp = temp /\ temp \in Inodes
  BY CopyingIs DEF Copying
<1>2. created \in Nat /\ DOMAIN text = Inodes
  BY DEF IndInv, FilesInv
<1>3. \A j \in Inodes \ {temp} : text'[j] = text[j]
  BY <1>1, <1>2
<1>4. ASSUME view'[q] = view[q] PROVE ViewInv(q)'
  <2>1. ASSUME view[q].inode \in 1 .. created, view[q].inode # temp
        PROVE  view[q].inode # temp' /\ text'[view[q].inode] = text[view[q].inode]
    <3>1. view[q].inode \in Inodes
      BY <2>1, MaxInodesAssumption DEF IndInv, FilesInv, Inodes
    <3> QED BY <1>3, <2>1, <3>1
  <2> QED BY <1>2, <1>4, <2>1, ViewUntouched DEF DataInv, ViewsInv
<1>5. ASSUME q # p, proc'[q] = proc[q] PROVE ProcData(q)'
  <2>1. Busy(q) => proc[q].call.kind # "delete"
    BY <1>5, OthersDoNotDelete DEF Is
  <2>2. ASSUME Busy(q) PROVE text'[proc[q].fp] = text[proc[q].fp]
    <3>1. proc[q].fp \in Inodes /\ proc[q].fp # temp
      BY <2>2, BusyIsWorking, MaxInodesAssumption DEF IndInv, FilesInv, Working, Inodes
    <3> QED BY <1>3, <3>1
  <2> QED BY <1>5, <2>1, <2>2, OtherData DEF DataInv
<1> QED BY <1>4, <1>5

LEMMA OverNothing ==
  ASSUME NEW a \in Texts
  PROVE  Over(a, <<>>) = a
<1>1. SubSeq(<<>>, Len(a) + 1, Len(<<>>)) = <<>>
  <2>1. Len(a) \in Nat /\ Len(<<>>) = 0 /\ <<>> \in Seq(Chars)
    BY LenProperties DEF Texts
  <2> QED BY <2>1
<1> QED BY <1>1, EmptyText DEF Over

LEMMA FlushDeleteData ==
  ASSUME OneDeleter, IndInv, DataInv, NEW p \in Procs, FlushDelete(p)
  PROVE  DataInv'
<1> DEFINE T == text[proc[p].fp]
           C == proc[p].buf
<1>1. /\ Is(p, "flush", "delete") /\ UNCHANGED <<path, temp, created, view, torn, calls>>
      /\ text' = [text EXCEPT ![proc[p].tp] = Over(C, text[proc[p].tp])]
      /\ proc' = [proc EXCEPT ![p].pc = "rename"]
  BY DEF FlushDelete
<1>2. Copying(p, T, C) /\ created \in Nat /\ DOMAIN proc = Procs /\ DOMAIN text = Inodes
  BY <1>1, CopyingIs DEF IndInv, FilesInv
<1>3. /\ FileOk(C, torn) /\ C \in Texts /\ proc[p].tp = temp /\ temp \in Inodes
      /\ temp \in 1 .. created /\ proc[p].fp \in Inodes /\ proc[p].fp # temp /\ ReadTable(T).ok
  BY <1>2 DEF Copying
<1>4. text[proc[p].tp] = <<>>
  BY <1>1 DEF DataInv, ProcData
<1>5. text' = [text EXCEPT ![proc[p].tp] = C]
  BY <1>1, <1>3, <1>4, OverNothing
<1>6. Working(proc[p]) /\ Busy(p) /\ proc[p].call.kind = "delete"
  BY <1>1, BusyIsWorking DEF IndInv, Is
<1>7. /\ \A q \in Procs \ {p} : proc'[q] = proc[q]
      /\ proc'[p] = [proc[p] EXCEPT !.pc = "rename"]
  BY <1>1, <1>2
<1>8. /\ proc'[p].pc = "rename" /\ proc'[p].buf = C /\ proc'[p].tp = temp
      /\ proc'[p].call = proc[p].call /\ proc'[p].fp = proc[p].fp
  BY <1>3, <1>6, <1>7 DEF Working
<1>9. text'[temp] = C /\ text'[proc[p].fp] = T
  BY <1>2, <1>3, <1>5
<1> HIDE DEF T, C
<1>10. ProcData(p)'
  BY <1>3, <1>6, <1>8, <1>9 DEF ProcData, Is
<1>11. FilesOk'
  <2>1. /\ torn' = torn /\ created' \in Nat /\ created <= created'
        /\ temp \in 1 .. created' /\ FilesOk
    BY <1>1, <1>2, <1>3 DEF DataInv
  <2>2. FileOk(C, torn')
    BY <1>3, <2>1
  <2>3. text' = [text EXCEPT ![temp] = C]
    BY <1>3, <1>5
  <2> QED BY <2>1, <2>2, <2>3, WriteOk
<1>12. \A q \in Procs : ViewInv(q)' /\ (q # p => ProcData(q)')
  BY <1>1, <1>5, <1>7, TempOthers
<1> QED BY <1>1, <1>10, <1>11, <1>12 DEF DataInv, ViewsInv, Counters

-----------------------------------------------------------------------------
(* Faults *)

\* A part of an INSERT: the file was well formed before, and the part is the
\* beginning of what would have been.
LEMMA CutInsertOk ==
  ASSUME PlainStatements, WellFormedExisting, NEW s \in Inserts, NEW T, FileOk(T, "none"),
         Written(s, T).ok, NEW n \in 0 .. Len(Written(s, T).buf) - 1, NEW cut, cut # "none"
  PROVE  /\ SubSeq(Written(s, T).buf, 1, n) \in Texts
         /\ FileOk(T \o SubSeq(Written(s, T).buf, 1, n), cut)
<1> DEFINE b == Written(s, T).buf
           P == T \o SubSeq(b, 1, n)
           F == T \o b
<1>1. T \in Texts /\ WellFormed(T)
  BY DEF FileOk
<1>2. b \in Texts /\ Len(b) \in Nat
  BY <1>1, BufferIs, LenProperties DEF Texts
<1>3. EndsLine(F) /\ ReadTable(F).ok
  BY <1>1, InsertedWhole DEF Reads
<1>4. Sound(F, "none")
  BY InsertedSound DEF FileOk
<1>5. n \in 0 .. Len(b)
  BY <1>2
<1> HIDE DEF b
<1>6. SubSeq(b, 1, n) \in Texts /\ P \in Texts /\ Begins(P, F)
  BY <1>1, <1>2, <1>5, PrefixBegins
<1> HIDE DEF P, F
<1>7. Sound(P, cut)
  BY <1>3, <1>4, <1>6, CutSound
<1> QED BY <1>6, <1>7 DEF FileOk, P, b

LEMMA CutCopyOk ==
  ASSUME PlainStatements, WellFormedExisting, NEW C, FileOk(C, "none"), C # <<>>,
         NEW n \in 0 .. Len(C) - 1, NEW cut, cut # "none"
  PROVE  SubSeq(C, 1, n) \in Texts /\ FileOk(SubSeq(C, 1, n), cut)
<1>1. C \in Texts /\ WellFormed(C) /\ Sound(C, "none")
  BY DEF FileOk
<1>2. EndsLine(C) /\ ReadTable(C).ok
  BY <1>1, WellFormedIs
<1>3. n \in 0 .. Len(C)
  BY <1>1, LenProperties DEF Texts
<1>4. SubSeq(C, 1, n) \in Texts /\ Begins(SubSeq(C, 1, n), C)
  BY <1>1, <1>3, PrefixBegins
<1>5. Sound(SubSeq(C, 1, n), cut)
  BY <1>1, <1>2, <1>4, CutSound
<1> QED BY <1>4, <1>5 DEF FileOk

LEMMA CutShortData ==
  ASSUME PlainStatements, WellFormedExisting, OneDeleter, IndInv, DataInv,
         NEW p \in Procs, Busy(p), CutShort(p), UNCHANGED <<path, temp, created>>
  PROVE  /\ FilesOk' /\ torn = "none" /\ torn' \in {"insert", "delete"}
         /\ \A q \in Procs : /\ view'[q] = view[q] => ViewInv(q)'
                             /\ q # p /\ proc'[q] = proc[q] => ProcData(q)'
         /\ proc[p].call.kind # "insert" =>
              /\ Is(p, "flush", "delete") /\ torn' = "delete"
              /\ text'[proc[p].fp] = text[proc[p].fp] /\ ReadTable(text[proc[p].fp]).ok
<1>1. Working(proc[p]) /\ proc[p].pc = "flush" /\ torn = "none" /\ torn' = proc[p].call.kind
  BY BusyIsWorking DEF IndInv, CutShort
<1>2. proc[p].call.kind \in {"insert", "delete"}
  BY <1>1 DEF Working
<1>3. PICK n \in 0 .. Len(proc[p].buf) - 1 :
        text' = IF proc[p].call.kind = "insert"
                  THEN [text EXCEPT ![proc[p].fp] = text[proc[p].fp] \o SubSeq(proc[p].buf, 1, n)]
                  ELSE [text EXCEPT ![proc[p].tp] = Over(SubSeq(proc[p].buf, 1, n), text[proc[p].tp])]
  BY DEF CutShort
<1>4. created \in Nat /\ created' \in Nat /\ created <= created' /\ FilesOk /\ DOMAIN text = Inodes
  BY DEF IndInv, FilesInv, DataInv
<1>5. CASE proc[p].call.kind = "insert"
  <2> DEFINE T == text[proc[p].fp]
             w == SubSeq(proc[p].buf, 1, n)
  <2>1. Is(p, "flush", "insert")
    BY <1>1, <1>5 DEF Is
  <2>2. Flushing(p, proc[p].call.stmt, T)
    BY <2>1, FlushingIs
  <2>3. /\ proc[p].call.stmt \in Inserts /\ FileOk(T, "none") /\ Written(proc[p].call.stmt, T).ok
        /\ proc[p].buf = Written(proc[p].call.stmt, T).buf /\ proc[p].fp \in 1 .. created'
    BY <1>1, <2>2 DEF Flushing
  <2> HIDE DEF T
  <2>4. w \in Texts /\ FileOk(T \o w, torn')
    BY <1>1, <1>2, <1>3, <2>3, CutInsertOk
  <2>5. text' = [text EXCEPT ![proc[p].fp] = T \o w]
    BY <1>3, <1>5 DEF T
  <2> HIDE DEF w
  <2>6. FilesOk'
    BY <1>1, <1>4, <2>3, <2>4, <2>5, WriteOk
  <2>7. \A q \in Procs : /\ view'[q] = view[q] => ViewInv(q)'
                         /\ q # p /\ proc'[q] = proc[q] => ProcData(q)'
    BY <1>1, <2>1, <2>4, <2>5, AppendOthers DEF T
  <2> QED BY <1>1, <1>2, <1>5, <2>6, <2>7
<1>6. CASE proc[p].call.kind = "delete"
  <2> DEFINE T == text[proc[p].fp]
             C == proc[p].buf
             w == SubSeq(proc[p].buf, 1, n)
  <2>1. Is(p, "flush", "delete")
    BY <1>1, <1>6 DEF Is
  <2>2. Copying(p, T, C) /\ text[proc[p].tp] = <<>>
    BY <2>1, CopyingIs DEF DataInv, ProcData
  <2>3. /\ FileOk(C, "none") /\ C # <<>> /\ proc[p].tp = temp /\ temp \in 1 .. created'
        /\ temp \in Inodes /\ proc[p].fp \in Inodes /\ proc[p].fp # temp /\ ReadTable(T).ok
    BY <1>1, <2>2 DEF Copying
  <2>4. w \in Texts /\ FileOk(w, torn')
    BY <1>1, <1>2, <1>3, <2>3, CutCopyOk
  <2>5. text' = [text EXCEPT ![temp] = w]
    <3>1. text' = [text EXCEPT ![temp] = Over(w, <<>>)]
      BY <1>3, <1>6, <2>2, <2>3
    <3> QED BY <2>4, <3>1, OverNothing
  <2> HIDE DEF w, C
  <2>6. FilesOk'
    BY <1>1, <1>4, <2>3, <2>4, <2>5, WriteOk
  <2>7. \A q \in Procs : /\ view'[q] = view[q] => ViewInv(q)'
                         /\ q # p /\ proc'[q] = proc[q] => ProcData(q)'
    BY <1>1, <2>1, <2>3, <2>5, TempOthers
  <2>8. text'[proc[p].fp] = text[proc[p].fp]
    BY <1>4, <2>3, <2>5
  <2> QED BY <1>1, <1>2, <1>6, <2>1, <2>3, <2>6, <2>7, <2>8
<1> QED BY <1>2, <1>5, <1>6

LEMMA ShortFlushData ==
  ASSUME PlainStatements, WellFormedExisting, OneDeleter, IndInv, DataInv,
         NEW p \in Procs, ShortFlush(p)
  PROVE  DataInv'
<1>1. /\ Busy(p) /\ CutShort(p) /\ UNCHANGED <<path, temp, created, view, calls>>
      /\ IF proc[p].call.kind = "insert" THEN Close(p)
                                         ELSE proc' = [proc EXCEPT ![p].pc = "rename"]
  BY DEF ShortFlush
<1>2. /\ FilesOk' /\ torn' \in {"insert", "delete"}
      /\ \A q \in Procs : /\ view'[q] = view[q] => ViewInv(q)'
                          /\ q # p /\ proc'[q] = proc[q] => ProcData(q)'
      /\ proc[p].call.kind # "insert" =>
           /\ Is(p, "flush", "delete") /\ torn' = "delete"
           /\ text'[proc[p].fp] = text[proc[p].fp] /\ ReadTable(text[proc[p].fp]).ok
  BY <1>1, CutShortData
<1>3. DOMAIN proc = Procs /\ Working(proc[p])
  BY <1>1, BusyIsWorking DEF IndInv, FilesInv
<1>4. \A q \in Procs \ {p} : proc'[q] = proc[q]
  BY <1>1, <1>3 DEF Close
<1>5. ProcData(p)'
  <2>1. CASE proc[p].call.kind = "insert"
    <3>1. proc'[p] = Idle
      BY <1>1, <1>3, <2>1 DEF Close
    <3> QED BY <3>1, IdleData
  <2>2. CASE proc[p].call.kind # "insert"
    <3>1. proc'[p] = [proc[p] EXCEPT !.pc = "rename"]
      BY <1>1, <1>3, <2>2
    <3>2. proc'[p].pc = "rename" /\ proc'[p].call = proc[p].call /\ proc'[p].fp = proc[p].fp
      BY <1>3, <3>1 DEF Working
    <3> QED BY <1>2, <2>2, <3>2 DEF ProcData, Is
  <2> QED BY <2>1, <2>2
<1>6. Counters' /\ DOMAIN view' = Procs
  BY <1>1, <1>2 DEF DataInv, Counters, ViewsInv
<1>7. \A q \in Procs : ViewInv(q)' /\ ProcData(q)'
  BY <1>1, <1>2, <1>4, <1>5
<1> QED BY <1>2, <1>6, <1>7 DEF DataInv, ViewsInv

LEMMA CrashData ==
  ASSUME PlainStatements, WellFormedExisting, OneDeleter, IndInv, DataInv,
         NEW p \in Procs, Crash(p)
  PROVE  DataInv'
<1>1. /\ Busy(p) /\ Close(p) /\ view' = [view EXCEPT ![p] = NoView]
      /\ UNCHANGED <<path, temp, created, calls>>
      /\ CutShort(p) \/ UNCHANGED <<text, torn>>
  BY DEF Crash
<1>2. DOMAIN proc = Procs /\ created \in Nat /\ DOMAIN view = Procs
  BY DEF IndInv, FilesInv, DataInv, ViewsInv
<1>3. proc'[p] = Idle /\ \A q \in Procs \ {p} : proc'[q] = proc[q]
  BY <1>1, <1>2 DEF Close
<1>4. DOMAIN view' = Procs /\ view'[p] = NoView /\ \A q \in Procs \ {p} : view'[q] = view[q]
  BY <1>1, <1>2
<1>5. ProcData(p)' /\ ViewInv(p)'
  BY <1>3, <1>4, IdleData DEF ViewInv
<1>6. /\ FilesOk' /\ torn' \in {"none", "insert", "delete"}
      /\ \A q \in Procs \ {p} : ViewInv(q)' /\ ProcData(q)'
  <2>1. CASE CutShort(p)
    BY <1>1, <1>3, <1>4, <2>1, CutShortData
  <2>2. CASE UNCHANGED <<text, torn>>
    <3>1. FilesOk' /\ torn' \in {"none", "insert", "delete"}
      BY <1>1, <2>2 DEF DataInv, FilesOk, Counters
    <3>2. ASSUME NEW q \in Procs \ {p} PROVE ViewInv(q)'
      BY <1>1, <1>2, <1>4, <2>2, ViewUntouched DEF DataInv, ViewsInv
    <3>3. ASSUME NEW q \in Procs \ {p} PROVE ProcData(q)'
      BY <1>3, <2>2, OtherData DEF DataInv
    <3> QED BY <3>1, <3>2, <3>3
  <2> QED BY <1>1, <2>1, <2>2
<1>7. Counters'
  BY <1>1, <1>6 DEF DataInv, Counters
<1>8. \A q \in Procs : ViewInv(q)' /\ ProcData(q)'
  BY <1>5, <1>6
<1> QED BY <1>4, <1>6, <1>7, <1>8 DEF DataInv, ViewsInv

-----------------------------------------------------------------------------
LEMMA GivenExisting ==
  ASSUME NEW t \in Existing, t \in Texts, ReadTable(t).ok, NEW c, c = ReadTable(t).columns
  PROVE  GivenRows(c, ReadTable(t).rows)
<1> DEFINE R == ReadTable(t).rows
<1>1. /\ c \in Seq(Plain) /\ R \in Seq(Seq(Plain)) /\ \A j \in 1 .. Len(R) : Len(R[j]) = Len(c)
  BY ReadTableFacts
<1> SUFFICES ASSUME NEW j \in 1 .. Len(R), NEW k \in 1 .. Len(c)
             PROVE  \E v \in Given(c[k]) : Begins(R[j][k], v)
  BY DEF GivenRows
<1>2. R[j] \in ToSet(R) /\ k \in DOMAIN c
  BY <1>1, LenProperties DEF ToSet
<1>3. R[j] \in Seq(Plain) /\ Len(R[j]) = Len(c)
  BY <1>1, ElementOfSeq
<1>4. R[j][k] \in Plain
  BY <1>3, ElementOfSeq
<1>5. Begins(R[j][k], R[j][k])
  BY <1>4, BeginsAppend DEF Plain
<1>6. R[j][k] \in Given(c[k])
  <2>1. k \in {l \in DOMAIN ReadTable(t).columns : ReadTable(t).columns[l] = c[k]}
    BY <1>2
  <2> DEFINE A == {row[l] : row \in ToSet(ReadTable(t).rows),
                            l \in {l \in DOMAIN ReadTable(t).columns : ReadTable(t).columns[l] = c[k]}}
  <2>2. R[j][k] \in A
    BY <1>2, <2>1
  <2> QED BY <2>2 DEF Given
<1> QED BY <1>5, <1>6

LEMMA ExistingOk ==
  ASSUME WellFormedExisting, NEW t \in Existing
  PROVE  FileOk(t, "none")
<1>1. /\ t \in Texts /\ WellFormed(t)
      /\ ColumnIndex(ReadTable(t).columns, Id) # 0 => IdsOnce(ReadTable(t))
  BY DEF WellFormedExisting
<1>2. ReadTable(t).rows \in Seq(Seq(Plain))
  BY <1>1, ReadTableFacts
<1>3. DOMAIN ReadTable(t).rows = 1 .. Len(ReadTable(t).rows)
  BY <1>2, LenProperties
<1>4. ReadTable(t).ok => GivenRows(ReadTable(t).columns, ReadTable(t).rows)
  BY <1>1, GivenExisting
<1>5. Sound(t, "none")
  BY <1>1, <1>3, <1>4 DEF Sound, SoundRows, Once, IdsOnce
<1> QED BY <1>1, <1>5 DEF FileOk

LEMMA DataInit ==
  ASSUME WellFormedExisting, Init
  PROVE  DataInv
<1>1. torn = "none" /\ calls = 0 /\ created \in {0, 1} /\ DOMAIN view = Procs
      /\ \A p \in Procs : proc[p] = Idle /\ view[p] = NoView
  BY DEF Init
<1>2. ASSUME NEW i \in Inodes PROVE FileOk(text[i], torn) /\ (i > created => text[i] = <<>>)
  <2>1. i \in Nat \ {0}
    BY DEF Inodes
  <2>2. CASE created = 0 /\ text = [j \in Inodes |-> <<>>]
    BY <2>2, EmptyOk
  <2>3. CASE created = 1 /\ \E t \in Existing : text = [j \in Inodes |-> IF j = 1 THEN t ELSE <<>>]
    <3>1. PICK t \in Existing : text = [j \in Inodes |-> IF j = 1 THEN t ELSE <<>>]
      BY <2>3
    <3>2. CASE i = 1
      <4>1. text[i] = t /\ ~(i > created)
        BY <2>3, <3>1, <3>2
      <4> QED BY <1>1, <4>1, ExistingOk
    <3>3. CASE i # 1
      BY <3>1, <3>3, EmptyOk
    <3> QED BY <3>2, <3>3
  <2> QED BY <2>2, <2>3 DEF Init
<1>3. FilesOk
  BY <1>2 DEF FilesOk
<1>4. Counters /\ ViewsInv
  BY <1>1, MaxCallsAssumption DEF Counters, ViewsInv, ViewInv
<1>5. \A p \in Procs : ProcData(p)
  BY <1>1 DEF ProcData, Is, Busy
<1> QED BY <1>3, <1>4, <1>5 DEF DataInv

LEMMA DataNext ==
  ASSUME PlainStatements, WellFormedExisting, OneDeleter, IndInv, DataInv, [Next]_vars
  PROVE  DataInv'
<1>1. CASE UNCHANGED vars
  BY <1>1 DEF vars, DataInv, FilesOk, Counters, ViewsInv, ViewInv, LoadedFrom, ProcData, Is, Busy
<1>2. CASE Next
  <2>1. PICK p \in Procs :
          \/ \E s \in Inserts : OpenForInsert(p, s)
          \/ OpenForRead(p, LoadCall)
          \/ p \in Deleters /\ \E s \in Deletes : OpenForRead(p, DeleteCall(s))
          \/ Step(p) \/ ShortFlush(p) \/ Crash(p)
    BY <1>2 DEF Next
  <2>2. CASE \E s \in Inserts : OpenForInsert(p, s)
    BY <2>2, OpenForInsertData
  <2>3. CASE OpenForRead(p, LoadCall)
    BY <2>3, OpenForReadData DEF LoadCall
  <2>4. CASE p \in Deleters /\ \E s \in Deletes : OpenForRead(p, DeleteCall(s))
    <3>1. PICK s \in Deletes : OpenForRead(p, DeleteCall(s))
      BY <2>4
    <3>2. DeleteCall(s).kind # "insert"
      BY DEF DeleteCall
    <3> QED BY <3>1, <3>2, OpenForReadData
  <2>5. CASE Step(p)
    BY <2>5, LockData, LoadData, InsertData, FlushInsertData, DeleteData,
       FlushDeleteData, RenameData DEF Step
  <2>6. CASE ShortFlush(p) \/ Crash(p)
    BY <2>6, ShortFlushData, CrashData
  <2> QED BY <2>1, <2>2, <2>3, <2>4, <2>5, <2>6
<1> QED BY <1>1, <1>2

-----------------------------------------------------------------------------
(* The theorems *)

\* The hypotheses of the theorems below: one process deletes, and what comes
\* from outside is as PlainStatements and WellFormedExisting say.
Hypotheses == OneDeleter /\ PlainStatements /\ WellFormedExisting

\* The inductive invariant: every file is sound, what a process is about to
\* write was computed from sound text, and what it has loaded was read from a
\* text that the file still continues.
THEOREM DataInvariance ==
  ASSUME Hypotheses
  PROVE  Spec => [](IndInv /\ DataInv)
<1>1. Init => IndInv /\ DataInv
  BY IndInit, DataInit DEF Hypotheses
<1>2. IndInv /\ DataInv /\ [Next]_vars => (IndInv /\ DataInv)'
  BY IndNext, DataNext DEF Hypotheses
<1> QED BY <1>1, <1>2, PTL DEF Spec

-----------------------------------------------------------------------------
(* The properties *)

\* The paths name files that exist, files hold texts, and no process has a file
\* open that was never created.
THEOREM StorageTypes ==
  ASSUME Hypotheses
  PROVE  Spec => []TypeOK
<1>1. ASSUME IndInv, DataInv PROVE TypeOK
  <2>1. /\ created \in 0 .. MaxInodes /\ path \in 0 .. created /\ temp \in 0 .. created
        /\ path = temp => path = None
    BY <1>1 DEF IndInv, FilesInv
  <2>2. path \in Inodes \cup {None} /\ temp \in Inodes \cup {None}
    BY <2>1, MaxInodesAssumption DEF Inodes, None
  <2>3. \A i \in Inodes : text[i] \in Texts /\ (i > created => text[i] = <<>>)
    BY <1>1 DEF DataInv, FilesOk, FileOk
  <2>4. \A p \in Procs : Busy(p) => proc[p].fp \in 1 .. created /\ proc[p].tp \in 0 .. created
    BY <1>1, BusyIsWorking DEF IndInv, Working
  <2> QED BY <1>1, <2>1, <2>2, <2>3, <2>4 DEF TypeOK, DataInv, Counters
<1> QED BY <1>1, DataInvariance, PTL

\* Two processes never give two rows the same id, whatever statement fails, dies
\* or is cut short, unless the ids are where a torn row ends.
THEOREM UniqueIds ==
  ASSUME Hypotheses
  PROVE  Spec => []IdsUnique
<1>1. ASSUME IndInv, DataInv PROVE IdsUnique
  <2> SUFFICES ASSUME path # None, Table.ok, ColumnIndex(Table.columns, Id) # 0,
                      ColumnIndex(Table.columns, Id) = Len(Table.columns) => torn = "none"
               PROVE  IdsOnce(Table)
    BY DEF IdsUnique
  <2>1. path \in Inodes
    BY <1>1, MaxInodesAssumption DEF IndInv, FilesInv, Inodes, None
  <2>2. text[path] \in Texts /\ Sound(text[path], torn)
    BY <1>1, <2>1 DEF DataInv, FilesOk, FileOk
  <2>3. Once(Table.rows, ColumnIndex(Table.columns, Id))
    BY <2>2 DEF Sound, SoundRows, Table
  <2>4. Table.rows \in Seq(Seq(Plain))
    BY <2>2, ReadTableFacts DEF Table
  <2>5. DOMAIN Table.rows = 1 .. Len(Table.rows)
    BY <2>4, LenProperties
  <2> QED BY <2>3, <2>5 DEF Once, IdsOnce
<1> QED BY <1>1, DataInvariance, PTL

LEMMA NewColumnsHaveId ==
  ASSUME PlainStatements, NEW s \in Inserts
  PROVE  ColumnIndex(NewColumns(s), Id) # 0
<1>1. CASE ColumnIndex(s.columns, Id) # 0
  BY <1>1, NewColumnsFacts
<1>2. CASE ColumnIndex(s.columns, Id) = 0
  <2> DEFINE a == <<Id>>
  <2>1. NewColumns(s) = a \o s.columns /\ NewColumns(s) \in Seq(Plain)
        /\ Len(NewColumns(s)) \in Nat \ {0}
    BY <1>2, NewColumnsFacts DEF NewColumns
  <2>2. a \in Seq(Texts) /\ s.columns \in Seq(Texts) /\ Len(a) = 1 /\ a[1] = Id
    <3>1. Id \in Texts
      <4>1. "i" \in Chars /\ "d" \in Chars
        <5>1. "i" = Characters[20] /\ "d" = Characters[18] /\ DOMAIN Characters = 1 .. 22
          BY CharacterList
        <5> QED BY <5>1 DEF Chars, ToSet
      <4> QED BY <4>1 DEF Id, Texts
    <3>2. s.columns \in Seq(Texts)
      BY StatementsAssumption DEF InsertType
    <3> QED BY <3>1, <3>2
  <2> HIDE DEF a
  <2>3. (a \o s.columns)[1] = Id
    <3>1. 1 \in 1 .. Len(a)
      BY <2>2
    <3>2. \A k \in 1 .. Len(a) : (a \o s.columns)[k] = a[k]
      BY <2>2, ConcatFacts
    <3> QED BY <2>2, <3>1, <3>2
  <2>4. 1 \in 1 .. Len(NewColumns(s))
    BY <2>1
  <2>5. NewColumns(s)[1] = Id
    BY <2>1, <2>3
  <2>6. ColumnIndex(NewColumns(s), Id) = 0 =>
          \A k \in 1 .. Len(NewColumns(s)) : NewColumns(s)[k] # Id
    BY <2>1, ColumnIndexIs, Zenon
  <2> QED BY <2>4, <2>5, <2>6
<1> QED BY <1>1, <1>2

LEMMA BeginsIsPrefix ==
  ASSUME NEW s \in Plain, NEW t \in Plain, Begins(s, t)
  PROVE  IsPrefix(s, t)
<1> DEFINE n == Len(s)
           a == SubSeq(s, 1, n)
           b == SubSeq(t, 1, n)
<1>1. n \in Nat /\ Len(t) \in Nat /\ n <= Len(t) /\ \A k \in 1 .. n : t[k] = s[k]
  BY PlainFacts DEF Begins
<1>2. s \in Seq(Chars \ {Newline}) /\ t \in Seq(Chars \ {Newline})
  BY DEF Plain
<1>3. 1 \in 1 .. Len(s) + 1 /\ n \in 1 - 1 .. Len(s) /\ 1 \in 1 .. Len(t) + 1 /\ n \in 1 - 1 .. Len(t)
  BY <1>1
<1> HIDE DEF n
<1>4. /\ a \in Seq(Chars \ {Newline}) /\ Len(a) = n - 1 + 1 /\ \A i \in 1 .. n - 1 + 1 : a[i] = s[1 + i - 1]
  BY <1>2, <1>3, SubSeqFacts
<1>5. /\ b \in Seq(Chars \ {Newline}) /\ Len(b) = n - 1 + 1 /\ \A i \in 1 .. n - 1 + 1 : b[i] = t[1 + i - 1]
  BY <1>2, <1>3, SubSeqFacts
<1> HIDE DEF a, b
<1>6. Len(a) = n /\ Len(b) = n /\ \A i \in 1 .. n : a[i] = s[i] /\ b[i] = t[i]
  BY <1>1, <1>4, <1>5
<1>7. a = b
  BY <1>1, <1>4, <1>5, <1>6, SeqEqual
<1> QED BY <1>1, <1>7 DEF IsPrefix, a, b, n

\* No load returns a row that is made of a torn line and the row after it.
THEOREM NoRowIsGlued ==
  ASSUME Hypotheses
  PROVE  Spec => []NoGluedRow
<1>1. ASSUME IndInv, DataInv PROVE NoGluedRow
  <2> SUFFICES ASSUME NEW p \in Procs, NEW s \in Inserts, view[p].table.columns = NewColumns(s),
                      NEW row \in ToSet(view[p].table.rows), NEW k \in DOMAIN view[p].table.columns,
                      view[p].table.columns[k] # Id
               PROVE  \E v \in Given(view[p].table.columns[k]) : IsPrefix(row[k], v)
    BY DEF NoGluedRow
  <2> DEFINE t == view[p].table
  <2>0. PlainStatements /\ WellFormedExisting
    BY DEF Hypotheses
  <2>1. view[p] # NoView
    <3>1. NoView.table.rows = <<>>
      BY EmptyTable DEF NoView
    <3>2. ToSet(<<>>) = {}
      BY DEF ToSet
    <3> QED BY <3>1, <3>2
  <2>2. PICK V \in Texts : LoadedFrom(V, view[p].inode, t)
    BY <1>1, <2>1 DEF DataInv, ViewsInv, ViewInv
  <2>3. t = ReadTable(V) /\ t.ok /\ (ColumnIndex(t.columns, Id) # 0 /\ Len(t.columns) > 1 => GivenRows(t.columns, t.rows))
    BY <2>2 DEF LoadedFrom
  <2>4. /\ t.columns \in Seq(Plain) /\ t.rows \in Seq(Seq(Plain))
        /\ \A j \in 1 .. Len(t.rows) : Len(t.rows[j]) = Len(t.columns)
    BY <2>3, ReadTableFacts
  <2>5. k \in 1 .. Len(t.columns)
    BY <2>4, LenProperties
  <2>6. ColumnIndex(t.columns, Id) # 0 /\ Len(t.columns) > 1
    <3>1. Len(t.columns) > 1 \/ t.columns = <<Id>>
      BY <2>0, NewColumnsFacts
    <3>2. t.columns # <<Id>>
      <4> SUFFICES ASSUME t.columns = <<Id>> PROVE FALSE
        OBVIOUS
      <4>1. Len(t.columns) = 1 /\ t.columns[1] = Id
        OBVIOUS
      <4>2. k = 1
        BY <2>5, <4>1
      <4> QED BY <4>1, <4>2
    <3> QED BY <2>0, <3>1, <3>2, NewColumnsHaveId
  <2>7. PICK j \in 1 .. Len(t.rows) : row = t.rows[j]
    BY <2>4, LenProperties DEF ToSet
  <2>8. PICK v \in Given(t.columns[k]) : Begins(row[k], v)
    BY <2>3, <2>5, <2>6, <2>7 DEF GivenRows
  <2>9. row \in Seq(Plain) /\ Len(row) = Len(t.columns)
    BY <2>4, <2>7, ElementOfSeq
  <2>10. row[k] \in Plain /\ v \in Plain
    BY <2>0, <2>5, <2>9, ElementOfSeq, GivenType
  <2> QED BY <2>8, <2>10, BeginsIsPrefix
<1> QED BY <1>1, DataInvariance, PTL

\* An offset that was taken when a table was loaded leads to the row it led to,
\* or to an error, until the file is replaced.
THEOREM OffsetsStayValid ==
  ASSUME Hypotheses
  PROVE  Spec => []OffsetReadsLoadedRow
<1>1. ASSUME IndInv, DataInv PROVE OffsetReadsLoadedRow
  <2> SUFFICES ASSUME NEW p \in Procs, view[p].inode # None, view[p].inode = path,
                      torn = "none" \/ Len(view[p].table.columns) > 1,
                      NEW k \in DOMAIN view[p].table.rows,
                      RowAtOffset(text[path], view[p].table.offsets[k], Len(view[p].table.columns)).ok
               PROVE  RowAtOffset(text[path], view[p].table.offsets[k], Len(view[p].table.columns)).row
                        = view[p].table.rows[k]
    BY DEF OffsetReadsLoadedRow
  <2> DEFINE t == view[p].table
  <2>1. view[p] # NoView
    BY DEF NoView
  <2>2. PICK V \in Texts : LoadedFrom(V, view[p].inode, t)
    BY <1>1, <2>1 DEF DataInv, ViewsInv, ViewInv
  <2>3. t = ReadTable(V) /\ t.ok /\ Continues(V, text[path], torn)
    BY <2>2 DEF LoadedFrom
  <2>4. path \in Inodes
    BY <1>1, MaxInodesAssumption DEF IndInv, FilesInv, Inodes, None
  <2>5. text[path] \in Texts
    BY <1>1, <2>4 DEF DataInv, FilesOk, FileOk
  <2>6. /\ t.rows \in Seq(Seq(Plain)) /\ t.offsets = InOrder(RowOffsets(V))
        /\ \A j \in 1 .. Len(t.rows) : /\ InOrder(RowOffsets(V))[j] \in RowOffsets(V)
                                       /\ t.rows[j] = Row(V, InOrder(RowOffsets(V))[j])
    BY <2>3, ReadTableFacts
  <2>7. k \in 1 .. Len(t.rows)
    BY <2>6, LenProperties
  <2>8. t.offsets[k] \in RowOffsets(V) /\ t.rows[k] = Row(V, t.offsets[k])
    BY <2>6, <2>7
  <2> QED BY <2>3, <2>5, <2>8, OffsetStays
<1> QED BY <1>1, DataInvariance, PTL

\* What rename puts in the table's place.
LEMMA RenameKeepsOthers ==
  ASSUME OneDeleter, IndInv, DataInv, [Next]_vars, NEW p \in Procs, Is(p, "rename", "delete"),
         path' # path, torn # "delete",
         Table.columns # <<>>, torn = "none" \/ Len(Table.columns) > 1
  PROVE  /\ Table.ok
         /\ Reads(text[path'], Table.columns, At(Table.rows, Kept(proc[p].call.stmt, Table)))
<1> DEFINE T == text[proc[p].fp]
           C == proc[p].buf
<1>1. Copying(p, T, C)
  BY CopyingIs
<1>2. /\ T = text[path] /\ path \in Inodes /\ path # None /\ proc[p].tp = temp
      /\ FileOk(T, torn) /\ ReadTable(T).ok /\ C = Rewritten(proc[p].call.stmt, Table)
  BY <1>1 DEF Copying, Table, Inodes, None
<1>3. text[temp] = C
  BY <1>2 DEF DataInv, ProcData
<1>4. PICK q \in Procs :
        \/ \E s \in Inserts : OpenForInsert(q, s)
        \/ OpenForRead(q, LoadCall)
        \/ q \in Deleters /\ \E s \in Deletes : OpenForRead(q, DeleteCall(s))
        \/ Step(q) \/ ShortFlush(q) \/ Crash(q)
  BY DEF Next, vars
<1>5. ~\E s \in Inserts : OpenForInsert(q, s)
  BY <1>2 DEF OpenForInsert
<1>6. path' = temp
  BY <1>4, <1>5 DEF OpenForRead, Step, Lock, Load, Insert, FlushInsert, Delete, FlushDelete,
                    Rename, RenameFails, ShortFlush, Crash
<1>7. Table = ReadTable(T)
  BY <1>2 DEF Table
<1>8. text[path'] = C
  BY <1>3, <1>6
<1> HIDE DEF T, C
<1>9. Reads(C, Table.columns, At(Table.rows, Kept(proc[p].call.stmt, Table)))
  BY <1>2, <1>7, CopyOk
<1> QED BY <1>2, <1>7, <1>8, <1>9

\* A DELETE that replaces the table keeps its columns and exactly the rows that
\* do not match.
THEOREM DeleteKeepsRows ==
  ASSUME Hypotheses
  PROVE  Spec => DeleteKeepsOthers
<1>1. IndInv /\ DataInv /\ [Next]_vars =>
      [\A p \in Deleters :
       path' # path /\ Is(p, "rename", "delete") /\ torn # "delete" =>
         OnlyMatchesLeave(p)]_vars
  <2> SUFFICES ASSUME IndInv, DataInv, [Next]_vars, NEW p \in Deleters,
                      path' # path, Is(p, "rename", "delete"), torn # "delete",
                      Table.columns # <<>>, torn = "none" \/ Len(Table.columns) > 1
               PROVE  /\ Table.ok /\ ReadTable(text[path']).ok
                      /\ ReadTable(text[path']).columns = Table.columns
                      /\ ReadTable(text[path']).rows = At(Table.rows, Kept(proc[p].call.stmt, Table))
    BY DEF Kept, OnlyMatchesLeave
  <2>1. p \in Procs
    BY DeletersAssumption
  <2> QED BY <2>1, RenameKeepsOthers DEF Reads, Hypotheses
<1> QED BY <1>1, DataInvariance, PTL DEF Spec, DeleteKeepsOthers

\* An INSERT that returns SUCCESS is read back behind the rows that were there,
\* its values as they were given, whatever they contain within one line.
THEOREM InsertReadBack ==
  ASSUME Hypotheses
  PROVE  Spec => InsertIsReadBack
<1>1. IndInv /\ DataInv /\ [Next]_vars =>
      [\A p \in Procs :
       FlushInsert(p) /\ torn = "none" /\ proc[p].fp = path => RowReadBack(p)]_vars
  <2> SUFFICES ASSUME IndInv, DataInv, NEW p \in Procs, FlushInsert(p), torn = "none", proc[p].fp = path
               PROVE  RowReadBack(p)
    OBVIOUS
  <2> DEFINE s == proc[p].call.stmt
             T == text[proc[p].fp]
             w == Written(s, T)
  <2>0. PlainStatements
    BY DEF Hypotheses
  <2>1. /\ Is(p, "flush", "insert") /\ path' = path
        /\ text' = [text EXCEPT ![proc[p].fp] = text[proc[p].fp] \o proc[p].buf]
    BY DEF FlushInsert
  <2>2. Flushing(p, s, T) /\ DOMAIN text = Inodes
    BY <2>0, <2>1, FlushingIs DEF IndInv, FilesInv
  <2>3. /\ s \in Inserts /\ T \in Texts /\ WellFormed(T) /\ w.ok /\ proc[p].buf = w.buf
        /\ proc[p].fp \in Inodes
    BY <2>2 DEF Flushing, FileOk
  <2>4. text'[path'] = T \o w.buf /\ Table = ReadTable(T)
    BY <2>1, <2>2, <2>3 DEF Table
  <2>5. Reads(T \o w.buf, Columns(s, T), Append(ReadTable(T).rows, w.row))
    BY <2>0, <2>3, InsertedWhole
  <2> QED BY <2>4, <2>5 DEF RowReadBack, Reads
<1> QED BY <1>1, DataInvariance, PTL DEF Spec, InsertIsReadBack

\* What storage_load_table_from_fp returns can be indexed.
LEMMA LoadedIndexable ==
  ASSUME NEW V \in Texts, ReadTable(V).ok, NEW col \in DOMAIN ReadTable(V).columns
  PROVE  \E n : Indexable(ReadTable(V), col, n)
<1> DEFINE t == ReadTable(V)
           S == RowOffsets(V)
           n == Len(t.rows)
<1>1. /\ t.rows \in Seq(Seq(Plain)) /\ t.columns \in Seq(Plain) /\ t.offsets = InOrder(S)
      /\ n = Cardinality(S) /\ n \in Nat
      /\ \A k \in 1 .. n : InOrder(S)[k] \in S /\ Len(t.rows[k]) = Len(t.columns)
  BY ReadTableFacts
<1>2. Len(V) \in Nat /\ S \in SUBSET (1 .. Len(V))
  BY OffsetsFacts
<1> HIDE DEF t, S
<1>3. DOMAIN t.rows = 1 .. n /\ DOMAIN t.columns = 1 .. Len(t.columns)
  BY <1>1, LenProperties
<1>4. t.offsets \in Seq(Nat) /\ Len(t.offsets) = n
  <2>1. t.offsets \in Seq(S) /\ Len(t.offsets) = n
    BY <1>1, <1>2, InOrderSeq
  <2>2. S \subseteq Nat
    BY <1>2
  <2> QED BY <2>1, <2>2, SeqMonotonic
<1>5. ASSUME NEW k \in 1 .. n PROVE t.rows[k][col] \in Texts /\ t.offsets[k] \in Nat
  <2>1. t.rows[k] \in Seq(Plain) /\ Len(t.rows[k]) = Len(t.columns)
    BY <1>1, ElementOfSeq
  <2>2. col \in 1 .. Len(t.rows[k])
    BY <1>3, <2>1 DEF t
  <2>3. t.rows[k][col] \in Plain
    BY <2>1, <2>2, ElementOfSeq
  <2>4. t.offsets[k] \in S
    BY <1>1
  <2>5. t.rows[k][col] \in Texts
    BY <2>3, PlainFacts
  <2>6. t.offsets[k] \in Nat
    BY <1>4, ElementOfSeq
  <2> QED BY <2>5, <2>6
<1>6. \A j, k \in 1 .. n : t.offsets[j] = t.offsets[k] => j = k
  BY <1>1, <1>2, InOrderOnce
<1>7. Indexable(t, col, n)
  BY <1>1, <1>3, <1>4, <1>5, <1>6 DEF Indexable
<1> QED BY <1>7 DEF t

\* Whatever table a process has loaded, an index over any of its columns
\* answers as a scan of its rows does.
THEOREM IndexAnswers ==
  ASSUME Hypotheses
  PROVE  Spec => []IndexMatchesScan
<1>1. IndInv /\ DataInv => IndexMatchesScan
  <2> SUFFICES ASSUME DataInv, NEW p \in Procs, NEW col \in DOMAIN view[p].table.columns,
                      NEW value \in Probes
               PROVE  IndexAgreesWithScan(view[p].table, col, value)
    BY DEF IndexMatchesScan
  <2>1. value \in Texts
    BY ProbesAssumption
  <2>2. CASE view[p] = NoView
    <3>1. view[p].table = ReadTable(<<>>) /\ <<>> \in Texts
      BY <2>2 DEF NoView, Texts
    <3>2. ReadTable(<<>>).columns = <<>>
      BY <3>1, ReadTableFacts, HeaderType
    <3> QED BY <3>1, <3>2
  <2>3. CASE view[p] # NoView
    <3>1. PICK V \in Texts : LoadedFrom(V, view[p].inode, view[p].table)
      BY <2>3 DEF DataInv, ViewsInv, ViewInv
    <3>2. view[p].table = ReadTable(V) /\ ReadTable(V).ok
      BY <3>1 DEF LoadedFrom
    <3>3. PICK n : Indexable(view[p].table, col, n)
      BY <3>2, LoadedIndexable
    <3> QED BY <2>1, <3>3, IndexIsScan
  <2> QED BY <2>2, <2>3
<1> QED BY <1>1, DataInvariance, PTL
=============================================================================
