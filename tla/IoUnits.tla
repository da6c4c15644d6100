------------------------------ MODULE IoUnits ------------------------------
(***************************************************************************)
(* The I/O units of the runtime (runtime/src/io_system.rs, lifecycle.rs):  *)
(* a registry of connections behind one lock, each connection behind a     *)
(* lock of its own, shared by the threads of the program.  A registry      *)
(* access is one step: the code holds that lock for one map operation.  A  *)
(* unit lock is taken and released in steps of their own, since a read may *)
(* keep it for as long as no input comes.                                  *)
(*                                                                         *)
(* A connection is numbered by its creation; 1 is the terminal.  A file is *)
(* Named (given by FILE=), a scratch file (numbered by scratch_filename)   *)
(* or NoFile, the empty name.  `out` is what a connection has put in its   *)
(* file: items, or whole records (sequences of items) when unformatted.    *)
(***************************************************************************)
EXTENDS Integers, Sequences, FiniteSets

CONSTANTS
    Threads,
    Terminal,      \* the preconnected input unit
    FileUnits,     \* the unit numbers the program opens
    Opens,         \* the OPENs it makes: pairs of specifiers and a form
    MaxOps,        \* bound: statements the program starts
    MaxConns,      \* bound: connections made
    MaxItems,      \* bound: items of one WRITE statement
    MaxDepth,      \* bound: nesting of child transfers
    None

VARIABLES
    registry,      \* IoState.units: unit number -> connection or None
    unit,          \* UnitConnection.unit, None once taken
    lock,          \* the holder of UnitConnection.unit's mutex
    about,         \* a connection's number and scratch_path
    conns,         \* connections made
    out,           \* what each connection has put in its file
    scratch,       \* the scratch files on disk
    serial,        \* SEQ of scratch_filename
    th,            \* the state of each thread
    ops,           \* statements started
    fin,           \* the finalizer: connections cloned and still to flush
    exited,        \* the process is gone
    disowned,      \* history: scratch files whose unit an OPEN took over or reopened
    due            \* history: items a finalizer found written, per connection

vars == <<registry, unit, lock, about, conns, out, scratch, serial, th, ops,
          fin, exited, disowned, due>>

Units == FileUnits \cup {Terminal}
Conns == 1..MaxConns
Named == 0
NoFile == -1
NoRecord == None
Forms == {"formatted", "unformatted"}

\* OPEN's specifiers, as far as they change what it does: STATUS='SCRATCH', a
\* FILE=, nothing at all (update_existing_in_place), or FORM= without FILE=.
Specs == {"scratch", "file", "again", "respecify"}

ASSUME OpensAreSpecs == Opens \subseteq Specs \X Forms

NewUnit(file, isScratch, form) ==
    [file |-> file, scratch |-> isScratch, form |-> form,
     buf |-> <<>>, depth |-> 0, pending |-> NoRecord, error |-> FALSE]

Idle == [pc |-> "idle", call |-> "none", u |-> None, h |-> None, then |-> "idle",
         mine |-> None, spec |-> "none", form |-> "none", file |-> NoFile,
         depth |-> 0, sent |-> 0, rounds |-> 0]

Init ==
    /\ registry = [u \in Units |-> IF u = Terminal THEN 1 ELSE None]
    /\ unit = [c \in Conns |-> IF c = 1 THEN NewUnit(Named, FALSE, "formatted") ELSE None]
    /\ lock = [c \in Conns |-> None]
    /\ about = [c \in Conns |-> [u |-> Terminal, path |-> None]]
    /\ conns = 1
    /\ out = [c \in Conns |-> <<>>]
    /\ scratch = {} /\ serial = 0
    /\ th = [t \in Threads |-> Idle]
    /\ ops = 0
    /\ fin = [by |-> None, all |-> {}, todo |-> {}, busy |-> {}]
    /\ exited = FALSE
    /\ disowned = {} /\ due = [c \in Conns |-> 0]

\* Thread t goes on as s; nothing but what is named with it changes.
Become(t, s) == th' = [th EXCEPT ![t] = s]
Return(t) == Become(t, Idle)
Continue(t) == IF th[t].then = "idle" THEN Return(t) ELSE Become(t, [th[t] EXCEPT !.pc = th[t].then])
At(t, label) == ~exited /\ th[t].pc = label

\* A failure ends the program unless the statement has IOSTAT=.
Leave(t) == Become(t, [Idle EXCEPT !.pc = "exit", !.rounds = 1])
Fail(t) == Return(t) \/ Leave(t)

----------------------------------------------------------------------------
(* with_unit: clone the handle under the registry lock, then lock the unit. *)

\* The program starts a statement on u.  It keeps other threads off a unit while
\* a WRITE statement that takes several calls is on it.
MayStart(t, u) ==
    /\ At(t, "idle")
    /\ ops < MaxOps
    /\ ops' = ops + 1
    /\ \A s \in Threads : th[s].u = u => th[s].depth = 0

Lookup(t, u, call, s) ==
    Become(t, [s EXCEPT !.u = u, !.call = call, !.h = registry[u],
                        !.pc = IF registry[u] = None THEN "missed" ELSE "wait"])

\* READ, FLUSH and a formatted WRITE (afs_fmt_end): one call each.
SingleCall(t, u, call) ==
    /\ MayStart(t, u)
    /\ call = "read" <=> u = Terminal
    /\ Lookup(t, u, call, Idle)
    /\ UNCHANGED <<registry, unit, lock, about, conns, out, scratch, serial, fin,
                   exited, disowned, due>>

\* A WRITE statement makes one call to begin, one per item and one to end; a
\* defined-I/O procedure makes child calls on the same unit in between.  The
\* generated code may skip to the end after a failing item; here a statement may
\* end after any number of items, so those sequences are among these.
StatementCall(t, u, call) ==
    /\ \/ /\ call = "begin" /\ u # Terminal
          /\ MayStart(t, u)
          /\ \A s \in Threads : th[s].u # u
       \/ /\ At(t, "stmt") /\ u = th[t].u
          /\ \/ call = "begin" /\ th[t].depth < MaxDepth
             \/ call = "item" /\ th[t].sent < MaxItems
             \/ call = "end"
          /\ UNCHANGED ops
    /\ Lookup(t, u, call, [th[t] EXCEPT !.depth = IF call = "begin" THEN @ + 1 ELSE @])
    /\ UNCHANGED <<registry, unit, lock, about, conns, out, scratch, serial, fin,
                   exited, disowned, due>>

Acquire(t) ==
    /\ At(t, "wait")
    /\ lock[th[t].h] = None
    /\ lock' = [lock EXCEPT ![th[t].h] = t]
    /\ Become(t, [th[t] EXCEPT !.pc = "hold"])
    /\ UNCHANGED <<registry, unit, about, conns, out, scratch, serial, ops, fin,
                   exited, disowned, due>>

\* with_unit finds no connection: FLUSH and an OPEN that repeats the unit take
\* it lightly, a data transfer fails.  A list-directed WRITE whose begin finds
\* none sets IOSTAT and goes on to its items and its end; they find none either,
\* since no other thread uses the unit during the statement, so it fails at once.
Missed(t) ==
    /\ At(t, "missed")
    /\ IF th[t].call \in {"flush", "touch"} THEN Return(t) ELSE Fail(t)
    /\ UNCHANGED <<registry, unit, lock, about, conns, out, scratch, serial, ops, fin,
                   exited, disowned, due>>

\* write_raw and write_bytes of one piece: it stays in the BufWriter, or goes to
\* the file with what is buffered (a full buffer, a FileRaw handle), or fails.
Written(x, piece) ==
    {[buf |-> Append(x.buf, piece), more |-> <<>>, ok |-> TRUE],
     [buf |-> <<>>, more |-> Append(x.buf, piece), ok |-> TRUE],
     [buf |-> x.buf, more |-> <<>>, ok |-> FALSE]}

Flushed(x) ==
    {[buf |-> <<>>, more |-> x.buf, ok |-> TRUE],
     [buf |-> x.buf, more |-> <<>>, ok |-> FALSE]}

\* The unit keeps x after the call, puts `more` in its file and is unlocked.
Store(t, x, more) ==
    /\ unit' = [unit EXCEPT ![th[t].h] = x]
    /\ out' = [out EXCEPT ![th[t].h] = @ \o more]
    /\ lock' = [lock EXCEPT ![th[t].h] = None]

Holds(t, call) == At(t, "hold") /\ th[t].call = call
rest == <<registry, about, conns, scratch, serial, ops, fin, exited, disowned, due>>

\* CLOSE or OPEN took the unit first: nothing is done.
Disconnected(t) ==
    /\ At(t, "hold") /\ unit[th[t].h] = None /\ th[t].call # "snap"
    /\ lock' = [lock EXCEPT ![th[t].h] = None]
    /\ Become(t, [th[t] EXCEPT !.pc = "missed"])
    /\ UNCHANGED <<unit, out, rest>>

\* The unit that t has locked.
Mine(t) == unit[th[t].h]

FormattedWrite(t) ==
    /\ Holds(t, "write") /\ Mine(t) # None
    /\ \E w \in Written(Mine(t), <<0>>) :
          /\ Store(t, [Mine(t) EXCEPT !.buf = w.buf], w.more)
          /\ IF w.ok THEN Return(t) ELSE Fail(t)
    /\ UNCHANGED rest

\* afs_flush, which only sets IOSTAT when it fails.
FlushUnit(t) ==
    /\ Holds(t, "flush") /\ Mine(t) # None
    /\ \E w \in Flushed(Mine(t)) : Store(t, [Mine(t) EXCEPT !.buf = w.buf], w.more)
    /\ Return(t)
    /\ UNCHANGED rest

\* A read returns when input comes.  An error without IOSTAT= ends the program
\* from inside the operation, with the unit locked.
Input(t) ==
    /\ Holds(t, "read") /\ Mine(t) # None
    /\ \/ Store(t, Mine(t), <<>>) /\ Return(t)
       \/ Leave(t) /\ UNCHANGED <<unit, out, lock>>
    /\ UNCHANGED rest

\* afs_list_write_begin; a child only counts.
Begin(t) ==
    /\ Holds(t, "begin") /\ Mine(t) # None
    /\ LET x == Mine(t) IN
       Store(t, IF x.depth > 0
                THEN [x EXCEPT !.depth = @ + 1]
                ELSE [x EXCEPT !.depth = 1, !.error = FALSE,
                               !.pending = IF x.form = "unformatted" THEN <<>> ELSE @],
             <<>>)
    /\ Become(t, [th[t] EXCEPT !.pc = "stmt"])
    /\ UNCHANGED rest

\* list_write_raw_or_buffer and list_write_bytes: after an error items are
\* dropped; the first error is kept for the end of the statement.
Item(t) ==
    /\ Holds(t, "item") /\ Mine(t) # None
    /\ LET x == Mine(t)
           item == th[t].sent + 1
       IN  CASE x.error -> Store(t, x, <<>>)
             [] ~x.error /\ x.pending # NoRecord ->
                  Store(t, [x EXCEPT !.pending = Append(@, item)], <<>>)
             [] ~x.error /\ x.pending = NoRecord ->
                  \E w \in Written(x, <<item>>) :
                      Store(t, [x EXCEPT !.buf = w.buf, !.error = ~w.ok], w.more)
    /\ Become(t, [th[t] EXCEPT !.pc = "stmt", !.sent = @ + 1])
    /\ UNCHANGED rest

\* A mutant of IsChild: the first end writes the record, whoever calls it.
IsChildNever(x) == x.depth > MaxDepth

IsChild(x) == x.depth > 1

\* afs_list_write_end: a child releases its depth and reports the first error;
\* the outermost statement writes the record, flushes, and clears the error.  The
\* end that matches the thread's own begin is its last call, also on a unit that
\* another thread left in the middle of a child transfer.
End(t) ==
    /\ Holds(t, "end") /\ Mine(t) # None
    /\ LET x == Mine(t) IN
       \/ /\ IsChild(x)
          /\ Store(t, [x EXCEPT !.depth = @ - 1], <<>>)
          /\ \/ IF th[t].depth = 1 THEN Return(t)
                ELSE Become(t, [th[t] EXCEPT !.pc = "stmt", !.depth = @ - 1])
             \/ x.error /\ Leave(t)
       \/ /\ ~IsChild(x)
          /\ \E w \in IF x.pending # NoRecord /\ ~x.error
                       THEN Written(x, x.pending)
                       ELSE {[buf |-> x.buf, more |-> <<>>, ok |-> ~x.error]} :
             \E f \in Flushed([x EXCEPT !.buf = w.buf]) :
                /\ Store(t, [x EXCEPT !.buf = f.buf, !.depth = 0, !.error = FALSE,
                                      !.pending = NoRecord], w.more \o f.more)
                /\ IF w.ok /\ f.ok
                   THEN Become(t, [th[t] EXCEPT !.pc = "written"])
                   ELSE Fail(t)
    /\ UNCHANGED rest

\* The statement is over.
Succeed(t) ==
    /\ At(t, "written")
    /\ Return(t)
    /\ UNCHANGED <<unit, out, lock, rest>>

----------------------------------------------------------------------------
(* OPEN and CLOSE. *)

Opening == {t \in Threads : th[t].spec # "none"}

\* afs_open: the existing connection, under the registry lock.
OpenStart(t, u, spec, form) ==
    /\ u # Terminal
    /\ MayStart(t, u)
    /\ conns + Cardinality(Opening) < MaxConns
    /\ Become(t, [Idle EXCEPT !.u = u, !.spec = spec, !.form = form, !.call = "snap",
                              !.h = registry[u],
                              !.pc = IF registry[u] = None THEN "name" ELSE "wait"])
    /\ UNCHANGED <<registry, unit, lock, about, conns, out, scratch, serial, fin,
                   exited, disowned, due>>

\* existing_unit: what the connection says, read under its lock.
Snapshot(t) ==
    /\ Holds(t, "snap")
    /\ lock' = [lock EXCEPT ![th[t].h] = None]
    /\ Become(t, [th[t] EXCEPT !.pc = "name",
                     !.file = IF Mine(t) = None THEN NoFile ELSE Mine(t).file])
    /\ UNCHANGED <<unit, out, rest>>

\* The name of the file; an OPEN that only repeats the unit updates it in place
\* through with_unit, whatever is connected by then.
ChooseFile(t) ==
    /\ At(t, "name")
    /\ LET go(f) == Become(t, [th[t] EXCEPT !.pc = "remove", !.file = f])
       IN  CASE th[t].spec = "scratch" -> go(serial + 1) /\ serial' = serial + 1
             [] th[t].spec = "file" -> go(Named) /\ UNCHANGED serial
             [] th[t].spec = "again" /\ th[t].file # NoFile ->
                  Lookup(t, th[t].u, "touch", Idle) /\ UNCHANGED serial
             [] OTHER -> go(th[t].file) /\ UNCHANGED serial
    /\ UNCHANGED <<registry, unit, lock, about, conns, out, scratch, ops, fin, exited,
                   disowned, due>>

UpdateInPlace(t) ==
    /\ Holds(t, "touch") /\ Mine(t) # None
    /\ Store(t, Mine(t), <<>>)
    /\ Return(t)
    /\ UNCHANGED rest

\* "Disconnect before waiting for an in-flight operation on this same unit."
Remove(t) ==
    /\ At(t, "remove")
    /\ LET old == registry[th[t].u] IN
       Become(t, [th[t] EXCEPT !.h = old, !.then = "create",
                               !.pc = IF old = None THEN "create" ELSE "disconnect"])
    /\ registry' = [registry EXCEPT ![th[t].u] = None]
    /\ UNCHANGED <<unit, lock, about, conns, out, scratch, serial, ops, fin, exited,
                   disowned, due>>

CloseStart(t, u, delete) ==
    /\ MayStart(t, u)
    /\ registry[u] # None
    /\ registry' = [registry EXCEPT ![u] = None]
    /\ Become(t, [Idle EXCEPT !.u = u, !.h = registry[u], !.pc = "disconnect",
                              !.call = IF delete THEN "delete" ELSE "close",
                              !.then = "closed"])
    /\ UNCHANGED <<unit, lock, about, conns, out, scratch, serial, fin, exited,
                   disowned, due>>

\* disconnect_unit: wait for the operation that holds the unit, then take it.
Disconnect(t) ==
    /\ At(t, "disconnect")
    /\ lock[th[t].h] = None
    /\ unit' = [unit EXCEPT ![th[t].h] = None]
    /\ IF Mine(t) = None THEN Continue(t)
       ELSE Become(t, [th[t] EXCEPT !.mine = Mine(t), !.pc = "drop"])
    /\ disowned' = IF Mine(t) # None /\ Mine(t).scratch /\ t \in Opening
                   THEN disowned \cup {Mine(t).file} ELSE disowned
    /\ UNCHANGED <<registry, lock, about, conns, out, scratch, serial, ops, fin, exited,
                   due>>

\* The unit taken is flushed and dropped, outside of any lock.  Here and at exit
\* the code ignores a flush that fails; the model takes it to succeed.
Drop(t) ==
    /\ At(t, "drop")
    /\ out' = [out EXCEPT ![th[t].h] = @ \o th[t].mine.buf]
    /\ Continue(t)
    /\ UNCHANGED <<registry, unit, lock, about, conns, scratch, serial, ops, fin, exited,
                   disowned, due>>

\* CLOSE ends with the removal of a scratch file, or of any with STATUS='DELETE'.
Closed(t) ==
    /\ At(t, "closed")
    /\ LET x == th[t].mine
           delete == x # None /\ (x.scratch \/ th[t].call = "delete") /\ x.file # Named
       IN  /\ scratch' = IF delete THEN scratch \ {x.file} ELSE scratch
           /\ IF delete /\ x.file \notin scratch THEN Fail(t) ELSE Return(t)
    /\ UNCHANGED <<registry, unit, lock, about, conns, out, serial, ops, fin, exited,
                   disowned, due>>

\* opts.open: every STATUS= modelled here creates the file.
Create(t) ==
    /\ At(t, "create")
    /\ \/ /\ th[t].file # NoFile
          /\ scratch' = scratch \cup ({th[t].file} \ {Named})
          /\ disowned' = IF th[t].spec = "respecify" THEN disowned \cup {th[t].file}
                         ELSE disowned
          /\ Become(t, [th[t] EXCEPT !.pc = "insert"])
       \/ Fail(t) /\ UNCHANGED <<scratch, disowned>>
    /\ UNCHANGED <<registry, unit, lock, about, conns, out, serial, ops, fin, exited, due>>

\* A mutant of Displace: a connection made in the meantime is not closed.
DisplaceNothing(t, old) == Return(t)

\* The connection that the insertion replaces is closed in turn.
Displace(t, old) ==
    IF old = None THEN Return(t)
    ELSE Become(t, [th[t] EXCEPT !.h = old, !.pc = "disconnect", !.then = "idle"])

Insert(t) ==
    /\ At(t, "insert")
    /\ conns' = conns + 1
    /\ unit' = [unit EXCEPT ![conns'] =
                    NewUnit(th[t].file, th[t].spec = "scratch", th[t].form)]
    /\ about' = [about EXCEPT ![conns'] =
                    [u |-> th[t].u,
                     path |-> IF th[t].spec = "scratch" THEN th[t].file ELSE None]]
    /\ registry' = [registry EXCEPT ![th[t].u] = conns']
    /\ Displace(t, registry[th[t].u])
    /\ UNCHANGED <<lock, out, scratch, serial, ops, fin, exited, disowned, due>>

----------------------------------------------------------------------------
(* The end of the program.  STOP and the end of the main program finalize    *)
(* and then leave through exit(), whose atexit handler finalizes again; a     *)
(* failed statement leaves through exit() alone.  Of several threads that     *)
(* leave, one is followed.                                                    *)

Stop(t) ==
    /\ At(t, "idle")
    /\ Become(t, [Idle EXCEPT !.pc = "exit", !.rounds = 2])
    /\ UNCHANGED <<unit, out, lock, rest>>

\* afs_io_finalize: the connections, cloned under the registry lock.
Collect(t) ==
    /\ At(t, "exit") /\ fin.by = None
    /\ LET all == {c \in Conns : registry[about[c].u] = c} IN
       /\ fin' = [by |-> t, all |-> all, todo |-> all, busy |-> {}]
       /\ due' = [c \in Conns |-> IF c \in all
                                  THEN Len(out[c]) + Len(unit[c].buf) ELSE 0]
    /\ Become(t, [th[t] EXCEPT !.pc = "flush"])
    /\ UNCHANGED <<registry, unit, lock, about, conns, out, scratch, serial, ops, exited,
                   disowned>>

FlushLocked(c) ==
    IF unit[c] = None THEN UNCHANGED <<unit, out>>
    ELSE /\ unit' = [unit EXCEPT ![c].buf = <<>>]
         /\ out' = [out EXCEPT ![c] = @ \o unit[c].buf]

\* A mutant of FlushOrSkip: it stops at the first unit that is busy.
FlushUntilBusy(c) ==
    \/ lock[c] = None /\ FlushLocked(c) /\ fin' = [fin EXCEPT !.todo = @ \ {c}]
    \/ lock[c] # None /\ UNCHANGED <<unit, out>>
       /\ fin' = [fin EXCEPT !.todo = {}, !.busy = @ \cup {c}]

\* A mutant of FlushOrSkip: it waits for the unit.
FlushWaiting(c) == lock[c] = None /\ FlushLocked(c) /\ fin' = [fin EXCEPT !.todo = @ \ {c}]

\* try_lock and flush, or go on to the next connection.
FlushOrSkip(c) ==
    \/ lock[c] = None /\ FlushLocked(c) /\ fin' = [fin EXCEPT !.todo = @ \ {c}]
    \/ lock[c] # None /\ UNCHANGED <<unit, out>>
       /\ fin' = [fin EXCEPT !.todo = @ \ {c}, !.busy = @ \cup {c}]

\* Each connection in turn, in no particular order.
TryFlush(t, c) ==
    /\ At(t, "flush") /\ c \in fin.todo
    /\ FlushOrSkip(c)
    /\ UNCHANGED <<registry, lock, about, conns, scratch, serial, th, ops, exited,
                   disowned, due>>

\* A mutant of ScratchPaths: the units that could not be locked are left out.
ScratchPathsUnlocked(cs) == {about[c].path : c \in cs \ fin.busy}

ScratchPaths(cs) == {about[c].path : c \in cs}

\* The scratch files go, busy or not; then the next round, or the end.
RemoveScratch(t) ==
    /\ At(t, "flush") /\ fin.todo = {}
    /\ scratch' = scratch \ ScratchPaths(fin.all)
    /\ IF th[t].rounds = 1
       THEN exited' = TRUE /\ UNCHANGED <<th, fin>>
       ELSE /\ Become(t, [th[t] EXCEPT !.pc = "exit", !.rounds = 1])
            /\ fin' = [fin EXCEPT !.by = None]
            /\ UNCHANGED exited
    /\ UNCHANGED <<registry, unit, lock, about, conns, out, serial, ops, disowned, due>>

Done == exited /\ UNCHANGED vars

----------------------------------------------------------------------------
\* The steps a thread takes by itself, and those it takes on the program's
\* behalf or when input comes.
Step(t) ==
    \/ Acquire(t) \/ Missed(t) \/ Disconnected(t)
    \/ FormattedWrite(t) \/ FlushUnit(t) \/ Begin(t) \/ Item(t) \/ End(t) \/ Succeed(t)
    \/ Snapshot(t) \/ ChooseFile(t) \/ UpdateInPlace(t) \/ Remove(t)
    \/ Disconnect(t) \/ Drop(t) \/ Closed(t) \/ Create(t) \/ Insert(t)
    \/ Collect(t) \/ (\E c \in Conns : TryFlush(t, c)) \/ RemoveScratch(t)

Program(t) ==
    \/ \E u \in Units :
          \/ \E call \in {"read", "flush", "write"} : SingleCall(t, u, call)
          \/ \E call \in {"begin", "item", "end"} : StatementCall(t, u, call)
          \/ \E o \in Opens : OpenStart(t, u, o[1], o[2])
          \/ \E delete \in BOOLEAN : CloseStart(t, u, delete)
    \/ Stop(t)

Next == (\E t \in Threads : Step(t) \/ Program(t) \/ Input(t)) \/ Done

\* A thread that is not waiting for a lock or for input is scheduled.
Spec == Init /\ [][Next]_vars /\ \A t \in Threads : WF_vars(Step(t))
----------------------------------------------------------------------------
\* Every live unit is the one its number leads to, or one thread has it in hand
\* to close it: two OPENs of one number, or an OPEN and a CLOSE, never leave a
\* unit open that no statement can reach.
NoOrphans ==
    \A c \in Conns :
        unit[c] # None =>
            LET inHand == {t \in Threads : At(t, "disconnect") /\ th[t].h = c}
            IN  IF registry[about[c].u] = c THEN inHand = {}
                ELSE exited \/ Cardinality(inHand) = 1

\* A WRITE statement that reports success has put exactly its items, those of
\* its child transfers included, in its file, in order, and as one record when
\* the unit is unformatted; an item that failed is never reported as written, and
\* the end of a child transfer does not complete its parent's statement.
StatementsWhole ==
    \A t \in Threads :
        At(t, "written") =>
            LET put == out[th[t].h]
                n == th[t].sent
            IN  /\ th[t].depth = 1
                /\ IF Mine(t).form = "unformatted"
                   THEN put # <<>> /\ put[Len(put)] = [i \in 1..n |-> i]
                   ELSE /\ Len(put) >= n
                        /\ SubSeq(put, Len(put) - n + 1, Len(put)) = [i \in 1..n |-> <<i>>]

\* "Never let that one unit suppress flushing ... for every other unit": what
\* was written before the last finalization is in its file at exit, unless the
\* unit was in use or another thread had just taken it to close it.
ExitFlushes ==
    exited =>
        \A c \in fin.all \ fin.busy :
            \/ Len(out[c]) >= due[c]
            \/ \E t \in Threads : th[t].pc = "drop" /\ th[t].h = c

\* "backing file is deleted on close or exit": a scratch file that is left at
\* exit had its unit taken over or reopened by a later OPEN (afs_open drops the
\* unit without deleting its file), or belongs to an OPEN or a CLOSE that the
\* exit overtook.
ScratchRemoved ==
    exited =>
        \A f \in scratch \ disowned :
            \/ \E c \in Conns \ fin.all : registry[about[c].u] = c /\ about[c].path = f
            \/ \E t \in Threads :
                  \/ th[t].spec = "scratch" /\ th[t].file = f
                  \/ th[t].pc = "disconnect" /\ about[th[t].h].path = f
                  \/ th[t].mine # None /\ th[t].mine.file = f

\* "a blocking operation cannot stall unrelated units": with a read blocked for
\* ever on the terminal, every call on another unit returns and a program that
\* stops exits: again and again all threads are between calls, at the terminal,
\* or gone.
OthersProceed ==
    []<>(exited \/ \A t \in Threads : th[t].pc \in {"idle", "stmt"} \/ th[t].u = Terminal)

=============================================================================
