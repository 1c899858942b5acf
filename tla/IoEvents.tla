------------------------------ MODULE IoEvents ------------------------------
(***************************************************************************)
(* The input/output statistics of one analysis rank: the definition of I/O *)
(* handles and the callbacks for the begin and the completion of an I/O    *)
(* operation, for seeks and for new handles (OTF2Reader.cpp), and the      *)
(* structures File and IoHandle they fill (definitions.h).                 *)
(*                                                                         *)
(* Operations overlap: a location may begin one before another completes,  *)
(* and several locations (threads) use one handle.  The locations' events  *)
(* are read one location after the other into the same static tables.      *)
(*                                                                         *)
(* Left out: file names as text, access modes of handles and the io_handle *)
(* of a statistic, which are only printed or never read.  A position is    *)
(* taken as a natural number: the traces here are too short to wrap it.    *)
(***************************************************************************)
EXTENDS Integers, Sequences, FiniteSets, Sums

CONSTANTS
  Handles,      \* 1 .. n, in the order of their definitions
  FileOf,       \* handle -> the name of its file
  ParadigmOf,   \* handle -> its I/O paradigm
  Regions,      \* regions that issue I/O
  NumLocs,      \* locations, read in the order 1 .. NumLocs
  Ids,          \* matching ids; a location uses each at most once
  Results,      \* possible bytesResult
  Offsets,      \* offsets that come as an attribute of an operation
  Whences,      \* ways to seek that occur
  Leftovers,    \* what fpos may hold when a handle is constructed
  MaxEvents     \* bound: I/O events in all locations

Undef == -1     \* OTF2_UNDEFINED_UINT64
NoAttribute == -1
Locs == 1 .. NumLocs
Names == {FileOf[h] : h \in Handles}
Paradigms == {ParadigmOf[h] : h \in Handles}
NoFile == 0     \* a File is known by the first handle it was made for
Modes == {"-", "", "R", "W"}

ASSUME IoAssumption ==
  /\ IsFiniteSet(Handles) /\ Handles = 1 .. Cardinality(Handles)
  /\ Results \subseteq Nat \cup {Undef} /\ Offsets \subseteq Nat
  /\ Leftovers \subseteq Nat
  /\ Whences \subseteq {"START", "CURRENT", "END", "DATA", "HOLE"}
  /\ NumLocs \in Nat \ {0} /\ MaxEvents \in Nat

VARIABLES
  defined,         \* the number of handles defined so far
  regular,         \* those of them whose definition names an OTF2 I/O file
  file_handle,     \* handle -> the File it points to
  filehandles,     \* name -> [file, io_handles] registered for it
  fsize,           \* File -> its size
  fpos,            \* handle -> its position
  location,        \* handle -> location, or 0
  used_io_mode,    \* handle -> id -> mode of that operation
  io_accesses,     \* handle -> the accesses in the order of completion
  open_io_events,  \* id -> begin_time, or Undef
  per_paradigm, per_handle, per_location,   \* the three tables of IoData
  loc,             \* the location whose events are being read
  clock, events, alive,
  pending,         \* id -> the operation the location really has open
  used,            \* the ids the location has used
  truth            \* handle -> what was really done with it

definitions == <<defined, regular, file_handle, filehandles>>
handles == <<fsize, fpos, location, used_io_mode, io_accesses>>
tables == <<per_paradigm, per_handle, per_location>>
history == <<pending, used, truth>>
vars == <<definitions, handles, open_io_events, tables, loc, clock, events,
          alive, history>>

IoData == [num_operations : Nat, num_bytes : Nat, transfer_time : Nat,
           nontransfer_time : Nat, mode : Modes, region : Regions \cup {"none"}]
Nothing == [num_operations |-> 0, num_bytes |-> 0, transfer_time |-> 0,
            nontransfer_time |-> 0, mode |-> "-", region |-> "none"]
Access == [fpos : Nat, size : Nat, duration : Nat, is_meta : BOOLEAN]
Operation == [handle : Handles, mode : Modes, elapsed : Nat]
NoOperation == [handle |-> NoFile, mode |-> "-", elapsed |-> 0]
Done == [operations : Nat, read : Nat, written : Nat, other : Nat,
         meta_time : Nat, time : Nat, locs : SUBSET Locs]

TypeOK ==
  /\ defined \in 0 .. Cardinality(Handles) /\ regular \subseteq Handles
  /\ file_handle \in [Handles -> Handles \cup {NoFile}]
  /\ filehandles \in [Names -> [file : Handles \cup {NoFile}, io_handles : SUBSET Handles]]
  /\ fsize \in [Handles -> Nat] /\ fpos \in [Handles -> Nat]
  /\ location \in [Handles -> Locs \cup {0}]
  /\ used_io_mode \in [Handles -> [Ids -> Modes]]
  /\ io_accesses \in [Handles -> Seq(Access)]
  /\ open_io_events \in [Ids -> Nat \cup {Undef}]
  /\ per_paradigm \in [Paradigms -> IoData]
  /\ per_handle \in [Handles -> IoData]
  /\ per_location \in [Locs -> IoData]
  /\ loc \in 1 .. NumLocs + 1
  /\ clock \in Nat /\ events \in 0 .. MaxEvents /\ alive \in BOOLEAN
  /\ pending \in [Ids -> Operation \cup {NoOperation}]
  /\ used \subseteq Ids
  /\ truth \in [Handles -> Done]

-----------------------------------------------------------------------------
Init ==
  /\ defined = 0 /\ regular = {}
  /\ file_handle = [h \in Handles |-> NoFile]
  /\ filehandles = [n \in Names |-> [file |-> NoFile, io_handles |-> {}]]
  /\ fsize = [h \in Handles |-> 0]
  /\ fpos \in [Handles -> Leftovers]
  /\ location = [h \in Handles |-> 0]
  /\ used_io_mode = [h \in Handles |-> [i \in Ids |-> ""]]
  /\ io_accesses = [h \in Handles |-> <<>>]
  /\ open_io_events = [i \in Ids |-> Undef]
  /\ per_paradigm = [p \in Paradigms |-> Nothing]
  /\ per_handle = [h \in Handles |-> Nothing]
  /\ per_location = [l \in Locs |-> Nothing]
  /\ loc = 1
  /\ clock = 0 /\ events = 0 /\ alive = TRUE
  /\ pending = [i \in Ids |-> NoOperation]
  /\ used = {}
  /\ truth = [h \in Handles |-> [operations |-> 0, read |-> 0, written |-> 0,
                                 other |-> 0, meta_time |-> 0, time |-> 0,
                                 locs |-> {}]]

(* Slip for the mutation runs: the new File replaces the registered one.   *)
RegisteredAnew(h) ==
  [file |-> h, io_handles |-> filehandles[FileOf[h]].io_handles \cup {h}]

(* handle_def_io_handle: emplace keeps a File that is registered for the   *)
(* name.  A handle with an OTF2 I/O file points to the File made for it, a *)
(* handle without one to the File that is registered.                      *)
Registered(h) ==
  LET old == filehandles[FileOf[h]]
  IN  [file |-> IF old.file = NoFile THEN h ELSE old.file,
       io_handles |-> old.io_handles \cup {h}]

DefIoHandle(has_file) ==
  /\ defined < Cardinality(Handles)
  /\ LET h == defined + 1
     IN  /\ filehandles' = [filehandles EXCEPT ![FileOf[h]] = Registered(h)]
         /\ file_handle' = [file_handle EXCEPT ![h] =
                              IF has_file THEN h ELSE Registered(h).file]
         /\ regular' = IF has_file THEN regular \cup {h} ELSE regular
  /\ defined' = defined + 1
  /\ UNCHANGED <<handles, open_io_events, tables, loc, clock, events, alive, history>>

(* An event of the current location, one tick after the one before it.     *)
Ticked == [i \in Ids |-> IF pending[i] = NoOperation THEN NoOperation
                         ELSE [pending[i] EXCEPT !.elapsed = @ + 1]]
Event ==
  /\ alive /\ defined = Cardinality(Handles)
  /\ loc \in Locs /\ events < MaxEvents
  /\ clock' = clock + 1
  /\ events' = events + 1

(* Slip: emplace instead of an assignment.                                 *)
OpenedOnce(id) ==
  IF open_io_events[id] = Undef THEN [open_io_events EXCEPT ![id] = clock']
  ELSE open_io_events

(* The begin of an operation is remembered under its matching id, in place *)
(* of one that an earlier location left open.                              *)
Opened(id) == [open_io_events EXCEPT ![id] = clock']

(* io_operation_begin_callback: the mode is kept for reads and writes; an  *)
(* offset is taken over if the position is 0.                              *)
Begin(h, id, mode, offset) ==
  /\ Event
  /\ id \notin used
  /\ open_io_events' = Opened(id)
  /\ location' = [location EXCEPT ![h] = loc]
  /\ used_io_mode' = IF mode \in {"R", "W"}
                     THEN [used_io_mode EXCEPT ![h][id] = mode] ELSE used_io_mode
  /\ fpos' = IF offset # NoAttribute /\ fpos[h] = 0
             THEN [fpos EXCEPT ![h] = offset] ELSE fpos
  /\ pending' = [Ticked EXCEPT ![id] = [handle |-> h, mode |-> mode, elapsed |-> 0]]
  /\ used' = used \cup {id}
  /\ UNCHANGED <<definitions, fsize, io_accesses, tables, loc, alive, truth>>

(* Slip: the difference the wrong way round.                               *)
DurationSwapped(id) == open_io_events[id] - clock'

Duration(id) == clock' - open_io_events[id]

(* An undefined bytesResult is an operation that transfers nothing.        *)
Bytes(result) == IF result = Undef THEN 0 ELSE result

(* The statistics of one table with one operation more.                    *)
Count(io, result, duration, mode, region) ==
  [num_operations |-> io.num_operations + 1,
   num_bytes |-> io.num_bytes + Bytes(result),
   transfer_time |-> io.transfer_time + (IF result = Undef THEN 0 ELSE duration),
   nontransfer_time |-> io.nontransfer_time + (IF result = Undef THEN duration ELSE 0),
   mode |-> mode, region |-> region]

(* Slip: the undefined result is set to 0 before the first table.          *)
TablesZeroed(h, id, result, region) ==
  LET d == Duration(id)
      mode == used_io_mode[h][id]
  IN  /\ per_paradigm' = [per_paradigm EXCEPT ![ParadigmOf[h]] =
                            Count(@, Bytes(result), d, mode, region)]
      /\ per_handle' = [per_handle EXCEPT ![h] = Count(@, Bytes(result), d, mode, region)]
      /\ per_location' = [per_location EXCEPT ![loc] =
                            Count(@, Bytes(result), d, mode, region)]

(* io_operation_complete_callback; an id that is not open is ignored.  The *)
(* loop over the three tables sets bytesResult to 0 when it is undefined,  *)
(* so that only the first table, the one per paradigm, takes the operation *)
(* for one without transfer.                                               *)
Tables(h, id, result, region) ==
  LET d == Duration(id)
      mode == used_io_mode[h][id]
  IN  /\ per_paradigm' = [per_paradigm EXCEPT ![ParadigmOf[h]] =
                            Count(@, result, d, mode, region)]
      /\ per_handle' = [per_handle EXCEPT ![h] = Count(@, Bytes(result), d, mode, region)]
      /\ per_location' = [per_location EXCEPT ![loc] =
                            Count(@, Bytes(result), d, mode, region)]

(* Slip: operations without bytes are not recorded.                        *)
MoveOnTransfer(h, id, result) ==
  LET f == file_handle[h]
  IN  /\ io_accesses' = IF result = Undef THEN io_accesses
                        ELSE [io_accesses EXCEPT ![h] =
                           Append(@, [fpos |-> fpos[h], size |-> result,
                                      duration |-> Duration(id), is_meta |-> FALSE])]
      /\ fpos' = [fpos EXCEPT ![h] = @ + Bytes(result)]
      /\ fsize' = [fsize EXCEPT ![f] = IF fpos'[h] > @ THEN fpos'[h] ELSE @]

(* The access is recorded at the position before it is moved; the File     *)
(* grows to the position behind it.                                        *)
Move(h, id, result) ==
  LET f == file_handle[h]
  IN  /\ io_accesses' = [io_accesses EXCEPT ![h] =
                           Append(@, [fpos |-> fpos[h], size |-> Bytes(result),
                                      duration |-> Duration(id),
                                      is_meta |-> result = Undef])]
      /\ fpos' = [fpos EXCEPT ![h] = @ + Bytes(result)]
      /\ fsize' = [fsize EXCEPT ![f] = IF fpos'[h] > @ THEN fpos'[h] ELSE @]

(* What was really done with a handle, with one operation more.            *)
Performed(done, op, result) ==
  [operations |-> done.operations + 1,
   read |-> done.read + (IF op.mode = "R" THEN Bytes(result) ELSE 0),
   written |-> done.written + (IF op.mode = "W" THEN Bytes(result) ELSE 0),
   other |-> done.other + (IF op.mode \notin {"R", "W"} THEN Bytes(result) ELSE 0),
   meta_time |-> done.meta_time + (IF result = Undef THEN op.elapsed ELSE 0),
   time |-> done.time + op.elapsed,
   locs |-> done.locs \cup {loc}]

Complete(id, result, region) ==
  /\ Event
  /\ pending[id] # NoOperation
  /\ open_io_events[id] # Undef
  /\ LET h == pending[id].handle
     IN  /\ open_io_events' = [open_io_events EXCEPT ![id] = Undef]
         /\ Tables(h, id, result, region)
         /\ Move(h, id, result)
         /\ truth' = [truth EXCEPT ![h] = Performed(@, Ticked[id], result)]
  /\ pending' = [Ticked EXCEPT ![id] = NoOperation]
  /\ UNCHANGED <<definitions, location, used_io_mode, loc, alive, used>>

(* io_seek_callback: offsetResult, the position OTF2 says the seek led to,  *)
(* is counted from the start, from the position or from the file's end.    *)
Seek(h, whence, offsetResult) ==
  /\ Event
  /\ whence \in {"START", "CURRENT", "END"}
  /\ fpos' = [fpos EXCEPT ![h] =
                offsetResult + CASE whence = "START"   -> 0
                                 [] whence = "CURRENT" -> @
                                 [] whence = "END"     -> fsize[file_handle[h]]]
  /\ pending' = Ticked
  /\ UNCHANGED <<definitions, fsize, location, used_io_mode, io_accesses,
                 open_io_events, tables, loc, alive, used, truth>>

(* SEEK_DATA and SEEK_HOLE: exit(EXIT_FAILURE).                            *)
SeekUnsupported(whence) ==
  /\ Event
  /\ whence \in {"DATA", "HOLE"}
  /\ alive' = FALSE
  /\ pending' = Ticked
  /\ UNCHANGED <<definitions, handles, open_io_events, tables, loc, used, truth>>

(* io_create_handle_callback.                                              *)
CreateHandle(h) ==
  /\ Event
  /\ location' = [location EXCEPT ![h] = loc]
  /\ pending' = Ticked
  /\ UNCHANGED <<definitions, fsize, fpos, used_io_mode, io_accesses,
                 open_io_events, tables, loc, alive, used, truth>>

(* The events of the next location; operations may have been left open.    *)
NextLocation ==
  /\ alive /\ defined = Cardinality(Handles) /\ loc \in Locs
  /\ loc' = loc + 1
  /\ pending' = [i \in Ids |-> NoOperation]
  /\ used' = {}
  /\ UNCHANGED <<definitions, handles, open_io_events, tables, clock, events,
                 alive, truth>>

Ended == (loc \notin Locs \/ ~alive) /\ UNCHANGED vars

Next ==
  \/ \E has_file \in BOOLEAN : DefIoHandle(has_file)
  \/ \E h \in Handles :
       \/ \E id \in Ids, mode \in {"R", "W", "-"}, offset \in Offsets \cup {NoAttribute} :
            Begin(h, id, mode, offset)
       \/ \E whence \in Whences, offset \in {0, 1} : Seek(h, whence, offset)
       \/ CreateHandle(h)
  \/ \E id \in Ids, result \in Results, region \in Regions : Complete(id, result, region)
  \/ \E whence \in Whences : SeekUnsupported(whence)
  \/ NextLocation
  \/ Ended

Spec == Init /\ [][Next]_vars

-----------------------------------------------------------------------------
Time(io) == io.transfer_time + io.nontransfer_time

AllBytes(done) == done.read + done.written + done.other

(* What a table, the history and the accesses of a handle add up to.       *)
Operations(t) == Total([k \in DOMAIN t |-> t[k].num_operations])
BytesMoved(t) == Total([k \in DOMAIN t |-> t[k].num_bytes])
TimeTaken(t) == Total([k \in DOMAIN t |-> Time(t[k])])

DoneOperations(t) == Total([h \in DOMAIN t |-> t[h].operations])
DoneBytes(t) == Total([h \in DOMAIN t |-> AllBytes(t[h])])
DoneTime(t) == Total([h \in DOMAIN t |-> t[h].time])

Sizes(a) == Total([i \in DOMAIN a |-> a[i].size])
Durations(a) == Total([i \in DOMAIN a |-> a[i].duration])

AddsUp(t) ==
  /\ Operations(t) = DoneOperations(truth)
  /\ BytesMoved(t) = DoneBytes(truth)
  /\ TimeTaken(t) = DoneTime(truth)

(* The statistics are kept three times, and each of the tables adds up to  *)
(* what was really done: the operations that completed, their bytes, and   *)
(* the time each of them was open, however operations overlap, and though  *)
(* an earlier location left operations open under the same matching ids.   *)
TablesAgree ==
  AddsUp(per_paradigm) /\ AddsUp(per_handle) /\ AddsUp(per_location)

(* The accesses of a handle, from which access patterns are detected, and  *)
(* its statistics are two accounts of the same operations.                 *)
AccessesCounted ==
  \A h \in Handles :
    /\ Len(io_accesses[h]) = per_handle[h].num_operations
    /\ Sizes(io_accesses[h]) = per_handle[h].num_bytes
    /\ Durations(io_accesses[h]) = Time(per_handle[h])

(* The JSON file gets "MetaOperationTime" from the table per paradigm      *)
(* (create_json.cpp:602): it is the time of the operations without bytes.  *)
ParadigmTimes ==
  \A p \in Paradigms :
    per_paradigm[p].nontransfer_time =
      Total([h \in {k \in Handles : ParadigmOf[k] = p} |-> truth[h].meta_time])

(* No access through g ended behind the size that a seek from the end      *)
(* starts from if it uses h.                                               *)
Covers(h, g) ==
  \A i \in DOMAIN io_accesses[g] :
    io_accesses[g][i].fpos + io_accesses[g][i].size <= fsize[file_handle[h]]

(* Handles that have to point to the registered File: those without an     *)
(* OTF2 I/O file, and the first one that is defined for a file.            *)
Sharing(h) ==
  h \notin regular \/ \A g \in Handles : FileOf[g] = FileOf[h] => h <= g

(* The size covers the accesses through a handle itself and through all    *)
(* others that share the registered File, whichever of them are defined    *)
(* with an OTF2 I/O file and which without, whatever the positions are at  *)
(* first, and wherever seeks have moved them.                              *)
SharedSize ==
  \A g, h \in Handles :
    g = h \/ (FileOf[g] = FileOf[h] /\ Sharing(g) /\ Sharing(h)) => Covers(h, g)

(* "Synchronize updates to `fsize` (which is affected by all writing       *)
(* locations" (definitions.h:405): one size for all handles of a file.  It *)
(* does not hold: a later handle that is defined with an OTF2 I/O file     *)
(* points to the File that emplace did not take (OTF2Reader.cpp:234).      *)
SizeCoversFile ==
  \A g, h \in Handles : FileOf[g] = FileOf[h] => Covers(h, g)
=============================================================================
