-------------------------------- MODULE WAL --------------------------------
(***************************************************************************)
(* The durable store of package dlq (dlq/wal_store.go, wal_write.go,       *)
(* wal_snapshot.go): a write-ahead log cut into segment files, a group     *)
(* committer that fsyncs it, snapshots that let old segments be deleted,   *)
(* and the recovery that rebuilds the queue when the directory is opened.  *)
(* Which record may be leased, and by whom, is the business of Machine;    *)
(* here a record is the log positions its contents come from.              *)
(*                                                                         *)
(* The disk is the interesting half.  A file holds what was written to it, *)
(* of which only a prefix is on stable storage; the directory is what      *)
(* lookups see, and durDir is what it was when it was last synced.  A      *)
(* killed process loses its memory only.  A power failure also loses any   *)
(* part of what was not synced: the tail of a file, and any creation,      *)
(* rename or removal since the last sync of the directory.  createSegment, *)
(* when it fails, and recover change the directory without syncing it;     *)
(* loose is what they left to chance.                                      *)
(***************************************************************************)
EXTENDS Integers, Sequences, FiniteSets, FiniteSetsExt, Functions, TLC

CONSTANTS
    Ids,            \* record identifiers
    Callers,        \* goroutines that call the store
    SegmentEntries, \* WALOptions.SegmentBytes, counted in entries
    Modes,          \* values of ~WALOptions.PayloadsInMemory to consider
    MaxLSN,         \* bound: entries ever in the log
    Faults          \* bound: the sequences of crashes to consider, of "kill" and "power"

ASSUME WALAssumption ==
    /\ SegmentEntries \in Nat \ {0}
    /\ Modes \subseteq BOOLEAN /\ Modes # {}
    /\ MaxLSN \in Nat
    /\ Faults \subseteq Seq({"kill", "power"}) /\ Faults # {}

VARIABLES
    offload,  \* WALStore.offload: payloads stay on disk, memory holds references
    up,       \* TRUE: a process has the directory open
    failed,   \* WALStore.failure is set: everything is refused
    history,  \* the entries of the log, by LSN, since the beginning of time
    segs,     \* segment files: start -> first LSN, last LSN, last LSN on stable storage,
              \* header
    snaps,    \* snapshot files: LSN -> the records in it
    dir,      \* names in the directory
    durDir,   \* names in the directory when it was last synced
    loose,    \* names that createSegment or recover dealt with and nothing has synced since
    mem,      \* machine.items: what is known of every record
    snapLSN,  \* WALStore.snapLSN
    durable,  \* WALStore.durable, as an LSN (WALStore.written is Len(history))
    syncing,  \* the LSN a running fsync of the group committer covers, or 0
    rotate,   \* how far rotateLocked is; "no" when nobody is in it
    compact,  \* how far a compaction is, and what it captured
    caller,   \* callers in waitDurable: the position awaited, the entry reported
    acked,    \* history: the last entry a caller was told is on stable storage
    astray,   \* history: the loose names on which a power failure went against the store
    faults    \* history: the sequences of crashes that may still come

names == <<dir, durDir, loose>>
disk == <<segs, snaps, names, astray>>
vars == <<offload, up, failed, history, disk, mem, snapLSN, durable, syncing, rotate,
          compact, caller, acked, faults>>

(***************************************************************************)
(* Names, references and records.  A record is the LSN of the entry that   *)
(* holds its body, of the entry that holds its checkpoint (0: none) and    *)
(* the number of its attempts; blobRef says in which file they are.        *)
(***************************************************************************)
Seg(start) == [snap |-> FALSE, lsn |-> start]
Snap(lsn) == [snap |-> TRUE, lsn |-> lsn]

None == [body |-> 0]
NoRef == [snap |-> FALSE, lsn |-> 0]
Idle == [seq |-> 0]

content(item) == [body |-> item.body, ckpt |-> item.ckpt, tries |-> item.tries]

Present(items) == {id \in Ids : items[id] # None}

\* Segment files the open store works with (WALStore.segments), and the last.
segments == {s \in DOMAIN segs : Seg(s) \in dir}
active == Max(segments)

NextLSN == Len(history) + 1
ActiveFull == segs[active].end - segs[active].first + 1 >= SegmentEntries
ActiveEmpty == segs[active].end < segs[active].first

\* What reading the reference of a record returns: the LSN of the entry found
\* there, 0 when the file is gone or does not hold it.
loadFrame(ref, id, lsn, field) ==
    IF ref \notin dir THEN 0
    ELSE IF ref.snap THEN IF id \in DOMAIN snaps[ref.lsn] THEN snaps[ref.lsn][id][field] ELSE 0
    ELSE IF lsn \in segs[ref.lsn].first..segs[ref.lsn].end THEN lsn ELSE 0

\* A segment that goes on after LSN last.
Segment(last, header) == [first |-> last + 1, end |-> last, synced |-> last, header |-> header]

\* Files whose name is nowhere, in the directory or on the disk, are gone.
KeepSegs(files, ns) == Restrict(files, {s \in DOMAIN files : Seg(s) \in ns})
KeepSnaps(ns) == Restrict(snaps, {n \in DOMAIN snaps : Snap(n) \in ns})

(***************************************************************************)
(* What an entry does to the records, when it is logged and when it is     *)
(* replayed; file is the segment it sits in.                               *)
(***************************************************************************)
Apply(items, entry, lsn, file) ==
    LET id == entry.id
        it == items[id]
    IN CASE entry.op = "append" ->
              [items EXCEPT ![id] = [body |-> lsn, ckpt |-> 0, tries |-> 0, leased |-> FALSE,
                                     bodyRef |-> Seg(file), ckptRef |-> NoRef]]
         [] entry.op = "lease" ->
              [items EXCEPT ![id] = [it EXCEPT !.tries = @ + 1, !.leased = TRUE]]
         [] entry.op = "checkpoint" ->
              [items EXCEPT ![id] = [it EXCEPT !.ckpt = lsn, !.ckptRef = Seg(file)]]
         [] entry.op = "release" ->
              [items EXCEPT ![id] = [it EXCEPT !.tries = @ - 1, !.leased = FALSE]]
         [] entry.op = "ack" -> [items EXCEPT ![id] = None]

\* The entries first..last of log applied to items; where says which segment
\* an entry is in.
ReplayFrom(items, log, first, last, where) ==
    LET upTo[n \in (first - 1)..last] ==
            IF n < first THEN items ELSE Apply(upTo[n - 1], log[n], n, where[n])
    IN upTo[last]

(***************************************************************************)
(* Init: OpenWAL on an empty directory created its first segment.          *)
(***************************************************************************)
NoCompaction == [phase |-> "idle"]

Init ==
    /\ offload \in Modes
    /\ up = TRUE /\ failed = FALSE
    /\ history = <<>>
    /\ segs = [s \in {1} |-> Segment(0, TRUE)]
    /\ snaps = [n \in {} |-> <<>>]
    /\ dir = {Seg(1)} /\ durDir = dir /\ loose = {} /\ astray = {}
    /\ mem = [id \in Ids |-> None]
    /\ snapLSN = 0 /\ durable = 0 /\ syncing = 0
    /\ rotate = "no" /\ compact = NoCompaction
    /\ caller = [c \in Callers |-> Idle]
    /\ acked = 0 /\ faults = Faults

\* WALStore.mu can be taken.  A rotation holds it, and so does a compaction
\* until it has captured the queue, or to its end when payloads are in memory.
MuFree ==
    /\ rotate = "no"
    /\ compact.phase # "rotating"
    /\ offload \/ compact.phase = "idle"

\* WALStore.syncMu can be taken: a rotation holds it from its fsync on.
SyncMuFree == rotate \in {"no", "waiting"}

\* WALStore.begin, with the lock held.
begin == up /\ ~failed /\ MuFree

(***************************************************************************)
(* Operations of the store.  Each takes the lock, logs one entry, changes  *)
(* memory and waits outside the lock until the entry is durable.           *)
(***************************************************************************)

\* logLocked with room in the active segment.  (A write that fails and is cut
\* back leaves no trace; one that cannot be cut back is WriteFails.)
logLocked(entry) ==
    /\ begin /\ ~ActiveFull
    /\ Len(history) < MaxLSN
    /\ history' = Append(history, entry)
    /\ segs' = [segs EXCEPT ![active].end = NextLSN]
    /\ UNCHANGED <<snaps, names, astray>>

\* Logs entry, applies it to memory and waits.
Operation(c, entry) ==
    /\ caller[c] = Idle
    /\ logLocked(entry)
    /\ mem' = Apply(mem, entry, NextLSN, active)
    /\ caller' = [caller EXCEPT ![c] = [seq |-> NextLSN, entry |-> NextLSN]]
    /\ UNCHANGED <<offload, up, failed, snapLSN, durable, syncing, rotate, compact, acked,
                   faults>>

AppendNew(c, id) == mem[id] = None /\ Operation(c, [op |-> "append", id |-> id])

\* Append of a record that is here already logs nothing and waits for everything
\* written so far.
AppendAgain(c, id) ==
    /\ begin /\ caller[c] = Idle
    /\ mem[id] # None
    /\ caller' = [caller EXCEPT ![c] =
                    [seq |-> Len(history), entry |-> mem[id].body]]
    /\ UNCHANGED <<offload, up, failed, history, disk, mem, snapLSN, durable, syncing, rotate,
                   compact, acked, faults>>

commitLease(c, id) ==
    mem[id] # None /\ ~mem[id].leased /\ Operation(c, [op |-> "lease", id |-> id])

\* What the holder of a lease may call: Checkpoint, Release, Ack.
withLease(c, id, op) ==
    mem[id] # None /\ mem[id].leased /\ Operation(c, [op |-> op, id |-> id])

\* The write failed and so did the truncation that should undo it.
WriteFails ==
    /\ begin /\ ~ActiveFull
    /\ failed' = TRUE
    /\ UNCHANGED <<offload, up, history, disk, mem, snapLSN, durable, syncing, rotate, compact,
                   caller, acked, faults>>

\* waitDurable: the entry is durable and the caller is told so.
Report(c) ==
    /\ up /\ caller[c] # Idle /\ SyncMuFree
    /\ durable >= caller[c].seq
    /\ caller' = [caller EXCEPT ![c] = Idle]
    /\ acked' = Max({acked, caller[c].entry})
    /\ UNCHANGED <<offload, up, failed, history, disk, mem, snapLSN, durable, syncing, rotate,
                   compact, faults>>

\* waitDurable gives up: the store failed, the caller's context ended, or
\* SyncTimeout passed, which fails the store closed.
GiveUp(c) ==
    /\ up /\ caller[c] # Idle /\ SyncMuFree
    /\ durable < caller[c].seq
    /\ caller' = [caller EXCEPT ![c] = Idle]
    /\ failed' \in {failed, TRUE}
    /\ UNCHANGED <<offload, up, history, disk, mem, snapLSN, durable, syncing, rotate, compact,
                   acked, faults>>

(***************************************************************************)
(* syncLoopAlways, the group committer.  The fsync runs with no lock held: *)
(* it covers what was written when it started, and nothing more is sure.   *)
(***************************************************************************)
SyncBegin ==
    /\ up /\ ~failed /\ SyncMuFree
    /\ syncing = 0 /\ durable < Len(history)
    /\ syncing' = Len(history)
    /\ UNCHANGED <<offload, up, failed, history, disk, mem, snapLSN, durable, rotate, compact,
                   caller, acked, faults>>

Fsynced(start, upto) == [segs EXCEPT ![start].synced = Max({@, upto})]

\* Mutant: what was written while the fsync ran is taken to be durable too.
SyncEndAll ==
    /\ up /\ syncing # 0 /\ SyncMuFree
    /\ segs' = Fsynced(active, syncing)
    /\ durable' = Len(history)
    /\ syncing' = 0
    /\ UNCHANGED <<offload, up, failed, history, snaps, names, astray, mem, snapLSN, rotate,
                   compact, caller, acked, faults>>

SyncEnd ==
    /\ up /\ syncing # 0 /\ SyncMuFree
    /\ segs' = Fsynced(active, syncing)
    /\ durable' = Max({durable, syncing})
    /\ syncing' = 0
    /\ UNCHANGED <<offload, up, failed, history, snaps, names, astray, mem, snapLSN, rotate,
                   compact, caller, acked, faults>>

\* The fsync failed: it is never tried again.
SyncFails ==
    /\ up /\ syncing # 0 /\ SyncMuFree
    /\ failed' = TRUE
    /\ syncing' = 0
    /\ UNCHANGED <<offload, up, history, disk, mem, snapLSN, durable, rotate, compact, caller,
                   acked, faults>>

(***************************************************************************)
(* rotateLocked, on behalf of an operation that finds the segment full or  *)
(* of a compaction.  The new file exists before its header is durable.     *)
(***************************************************************************)
RotateBegin ==
    /\ begin /\ ActiveFull
    /\ Len(history) < MaxLSN
    /\ rotate' = "waiting"
    /\ UNCHANGED <<offload, up, failed, history, disk, mem, snapLSN, durable, syncing, compact,
                   caller, acked, faults>>

\* It waits for the group committer, then fsyncs the active segment itself.
RotateLock ==
    /\ up /\ rotate = "waiting"
    /\ ~failed /\ syncing = 0
    /\ rotate' = "syncing"
    /\ UNCHANGED <<offload, up, failed, history, disk, mem, snapLSN, durable, syncing, compact,
                   caller, acked, faults>>

\* The active segment is synced and createSegment has made the next file, whose
\* header and name are not durable yet.
RotateSync ==
    /\ up /\ rotate = "syncing"
    /\ durable' = Len(history)
    /\ segs' = (NextLSN :> Segment(Len(history), FALSE)) @@ Fsynced(active, Len(history))
    /\ dir' = dir \cup {Seg(NextLSN)}
    /\ rotate' = "creating"
    /\ UNCHANGED <<offload, up, failed, history, snaps, durDir, loose, astray, mem, snapLSN,
                   syncing, compact, caller, acked, faults>>

\* The fsync of the active segment failed: the store fails closed.
RotateFails ==
    /\ up
    /\ \/ rotate = "syncing"
       \/ rotate = "waiting" /\ failed
    /\ failed' = TRUE
    /\ rotate' = "no"
    /\ compact' = IF compact.phase = "rotating" THEN NoCompaction ELSE compact
    /\ UNCHANGED <<offload, up, history, disk, mem, snapLSN, durable, syncing, caller, acked,
                   faults>>

\* The header was written and synced, and then the directory.
RotateEnd ==
    /\ up /\ rotate = "creating"
    /\ durDir' = dir /\ loose' = {}
    /\ segs' = KeepSegs([segs EXCEPT ![active].header = TRUE], dir)
    /\ snaps' = KeepSnaps(dir)
    /\ rotate' = "no"
    /\ UNCHANGED <<offload, up, failed, history, dir, astray, mem, snapLSN, durable, syncing,
                   compact, caller, acked, faults>>

\* The new file could not be completed and was removed, but the directory is not
\* synced: the file may come back.  The old segment stays the active one and the
\* operation, or the compaction, returns the error.
RotateAbort ==
    /\ up /\ rotate = "creating"
    /\ dir' = dir \ {Seg(active)}
    /\ loose' = loose \cup {Seg(active)}
    /\ rotate' = "no"
    /\ compact' = IF compact.phase = "rotating" THEN NoCompaction ELSE compact
    /\ UNCHANGED <<offload, up, failed, history, segs, snaps, durDir, astray, mem, snapLSN,
                   durable, syncing, caller, acked, faults>>

(***************************************************************************)
(* Compaction (compactOffload and compactLocked): seal the log, capture    *)
(* the queue, copy it into a snapshot, make the snapshot durable, re-point *)
(* the references that did not change meanwhile, delete what it replaces.  *)
(***************************************************************************)
CompactBegin ==
    /\ begin /\ compact.phase = "idle"
    /\ Len(history) > snapLSN
    /\ compact' = [phase |-> "rotating"]
    /\ rotate' = IF ActiveEmpty THEN "no" ELSE "waiting"
    /\ UNCHANGED <<offload, up, failed, history, disk, mem, snapLSN, durable, syncing, caller,
                   acked, faults>>

CompactCapture ==
    /\ up /\ compact.phase = "rotating" /\ rotate = "no"
    /\ compact' = [phase |-> "captured", last |-> Len(history), items |-> mem,
                   segs |-> segments \ {active}, snap |-> snapLSN]
    /\ UNCHANGED <<offload, up, failed, history, disk, mem, snapLSN, durable, syncing, rotate,
                   caller, acked, faults>>

\* Mutant: the copy reads the attempts as they are now, not as they were captured.
hydrateLive(id, item) ==
    [body |-> loadFrame(item.bodyRef, id, item.body, "body"),
     ckpt |-> IF item.ckptRef = NoRef THEN 0 ELSE loadFrame(item.ckptRef, id, item.ckpt, "ckpt"),
     tries |-> IF mem[id] = None THEN item.tries ELSE mem[id].tries]

\* hydrate: the payload of a captured record, read from the old files when it
\* lives there.
hydrate(id, item) ==
    IF offload
    THEN [body |-> loadFrame(item.bodyRef, id, item.body, "body"),
          ckpt |-> IF item.ckptRef = NoRef THEN 0
                   ELSE loadFrame(item.ckptRef, id, item.ckpt, "ckpt"),
          tries |-> item.tries]
    ELSE content(item)

Readable(id, item) == hydrate(id, item) = content(item)

\* The whole snapshot is written and synced under a temporary name, then renamed.
\* A payload that cannot be read fails the compaction.
CompactWrite ==
    /\ up /\ compact.phase = "captured"
    /\ \A id \in Present(compact.items) : hydrate(id, compact.items[id]).body # 0
    /\ snaps' = (compact.last :> [id \in Present(compact.items) |->
                                    hydrate(id, compact.items[id])]) @@ snaps
    /\ dir' = dir \cup {Snap(compact.last)}
    /\ compact' = [compact EXCEPT !.phase = "renamed"]
    /\ UNCHANGED <<offload, up, failed, history, segs, durDir, loose, astray, mem, snapLSN,
                   durable, syncing, rotate, caller, acked, faults>>

\* Writing the snapshot failed, or the store is closing: only a temporary file is lost.
CompactAbort ==
    /\ up /\ compact.phase = "captured"
    /\ compact' = NoCompaction
    /\ UNCHANGED <<offload, up, failed, history, disk, mem, snapLSN, durable, syncing, rotate,
                   caller, acked, faults>>

\* Mutant: the rename is not made durable before the old files are deleted.
CompactNoSyncDir ==
    /\ up /\ compact.phase = "renamed"
    /\ compact' = [compact EXCEPT !.phase = "copied"]
    /\ UNCHANGED <<offload, up, failed, history, disk, mem, snapLSN, durable, syncing, rotate,
                   caller, acked, faults>>

CompactSyncDir ==
    /\ up /\ compact.phase = "renamed"
    /\ durDir' = dir /\ loose' = {}
    /\ segs' = KeepSegs(segs, dir)
    /\ snaps' = KeepSnaps(dir)
    /\ compact' = [compact EXCEPT !.phase = "copied"]
    /\ UNCHANGED <<offload, up, failed, history, dir, astray, mem, snapLSN, durable, syncing,
                   rotate, caller, acked, faults>>

\* The directory could not be synced: the store fails closed and deletes nothing.
CompactSyncDirFails ==
    /\ up /\ compact.phase = "renamed"
    /\ failed' = TRUE
    /\ compact' = NoCompaction
    /\ UNCHANGED <<offload, up, history, disk, mem, snapLSN, durable, syncing, rotate, caller,
                   acked, faults>>

\* Mutant: the checkpoint is re-pointed even if a newer one was stored meanwhile.
RepointAll(id) ==
    LET it == mem[id]
        was == compact.items[id]
        new == Snap(compact.last)
    IN IF it = None \/ was = None THEN it
       ELSE [it EXCEPT
               !.bodyRef = IF it.bodyRef = was.bodyRef /\ it.body = was.body THEN new ELSE @,
               !.ckptRef = IF @ # NoRef THEN new ELSE @]

\* A reference that still is what was captured moves to the snapshot.
Repoint(id) ==
    LET it == mem[id]
        was == compact.items[id]
        new == Snap(compact.last)
    IN IF it = None \/ was = None THEN it
       ELSE [it EXCEPT
               !.bodyRef = IF it.bodyRef = was.bodyRef /\ it.body = was.body THEN new ELSE @,
               !.ckptRef = IF was.ckptRef # NoRef /\ it.ckptRef = was.ckptRef /\ it.ckpt = was.ckpt
                           THEN new ELSE @]

CompactSwap ==
    LET gone == {Seg(s) : s \in compact.segs} \cup {Snap(compact.snap)}
    IN /\ up /\ (offload => ~failed)
       /\ compact.phase = "copied"
       /\ rotate = "no"
       /\ mem' = [id \in Ids |-> Repoint(id)]
       /\ dir' = dir \ gone
       /\ snapLSN' = compact.last
       /\ compact' = [phase |-> "removed"]
       /\ UNCHANGED <<offload, up, failed, history, segs, snaps, durDir, loose, astray, durable,
                      syncing, rotate, caller, acked, faults>>

\* A store that failed while compactOffload copied keeps every file.
CompactGiveUp ==
    /\ up /\ offload /\ failed /\ compact.phase = "copied"
    /\ compact' = NoCompaction
    /\ UNCHANGED <<offload, up, failed, history, disk, mem, snapLSN, durable, syncing, rotate,
                   caller, acked, faults>>

\* The last sync of the directory, whose error is ignored.
CompactEnd ==
    /\ up /\ compact.phase = "removed"
    /\ \/ durDir' = dir /\ loose' = {}
       \/ UNCHANGED <<durDir, loose>>
    /\ segs' = KeepSegs(segs, dir \cup durDir' \cup loose')
    /\ snaps' = KeepSnaps(dir \cup durDir' \cup loose')
    /\ compact' = NoCompaction
    /\ UNCHANGED <<offload, up, failed, history, dir, astray, mem, snapLSN, durable, syncing,
                   rotate, caller, acked, faults>>

(***************************************************************************)
(* The end of a process.                                                   *)
(***************************************************************************)
Gone ==
    /\ up' = FALSE /\ failed' = FALSE
    /\ mem' = [id \in Ids |-> None]
    /\ snapLSN' = 0 /\ durable' = 0 /\ syncing' = 0
    /\ rotate' = "no" /\ compact' = NoCompaction
    /\ caller' = [c \in Callers |-> Idle]
    /\ UNCHANGED offload

\* Close waits for the compaction and the committer and fsyncs the rest; whoever
\* still waits for an entry is told that it is durable.
Close ==
    /\ begin /\ compact.phase = "idle" /\ syncing = 0
    /\ segs' = Fsynced(active, Len(history))
    /\ acked' = Max({acked} \cup {caller[c].entry : c \in {d \in Callers : caller[d] # Idle}})
    /\ Gone
    /\ UNCHANGED <<history, snaps, names, astray, faults>>

Crash(kind) ==
    LET coming == {f \in faults : f # <<>> /\ Head(f) = kind}
    IN coming # {} /\ faults' = {Tail(f) : f \in coming}

\* The process ends without a sync: it is killed, or it closes a store that has
\* failed.  What it wrote is in the page cache; the header of a segment that was
\* being created may not have been written.
Kill ==
    /\ up /\ Crash("kill")
    /\ \E header \in BOOLEAN :
         segs' = [s \in DOMAIN segs |-> [segs[s] EXCEPT !.header = @ \/ header]]
    /\ Gone
    /\ UNCHANGED <<history, snaps, names, astray, acked>>

\* The power fails: a file keeps what was synced and some of the rest, and every
\* change of the directory since its last sync may be undone, which brings back a
\* file that was made and removed in between.
PowerFails ==
    /\ Crash("power")
    /\ \E left \in {ns \in SUBSET (dir \cup durDir \cup loose) : (dir \cap durDir) \ loose \subseteq ns},
          cut \in 0..Len(history),
          headed \in SUBSET {s \in DOMAIN segs : ~segs[s].header} :
         LET end(s) == Max({segs[s].synced, Min({segs[s].end, cut})})
         IN /\ dir' = left /\ durDir' = left /\ loose' = {}
            /\ astray' = astray \cup {n \in loose : n \in dir <=> n \notin left}
            /\ segs' = [s \in {s \in DOMAIN segs : Seg(s) \in left} |->
                          [segs[s] EXCEPT !.end = end(s), !.synced = end(s),
                                          !.header = @ \/ s \in headed]]
            /\ snaps' = KeepSnaps(left)
    /\ Gone
    /\ UNCHANGED <<history, acked>>

(***************************************************************************)
(* recover: load the newest snapshot, delete what it makes redundant,      *)
(* replay the segments in order.  Entries the snapshot covers are skipped; *)
(* a last segment with a damaged header never held an entry and is set     *)
(* aside; a gap or an overlap refuses to open.  (The damaged end of the    *)
(* last segment that repairTail cuts off is the tail PowerFails lost.)     *)
(***************************************************************************)
newestSnapshot == Max({0} \cup {n \in DOMAIN snaps : Snap(n) \in dir})

\* Segments left once those the snapshot covers entirely are deleted.
uncovered ==
    {s \in segments : ~\E t \in segments : t > s /\ t <= newestSnapshot + 1}

\* The LSN recovery expects when it comes to segment s.
expected(s) == Max({newestSnapshot + 1} \cup {segs[t].end + 1 : t \in {u \in uncovered : u < s}})

SetAside == {s \in uncovered : ~segs[s].header /\ s = Max(uncovered) /\ s >= expected(s)}

replayed == uncovered \ SetAside

\* replaySegment finds the first entry the snapshot does not cover, if there is one,
\* where it expects it.
Replayable(s) ==
    LET next == Max({segs[s].first, newestSnapshot + 1})
    IN /\ segs[s].header
       /\ s <= expected(s)
       /\ segs[s].end >= next => next = expected(s)

recoveredLSN == Max({newestSnapshot} \cup {segs[s].end : s \in replayed})

loadSnapshot ==
    LET in == IF newestSnapshot = 0 THEN <<>> ELSE snaps[newestSnapshot]
        ref == Snap(newestSnapshot)
    IN [id \in Ids |->
          IF id \notin DOMAIN in THEN None
          ELSE [body |-> in[id].body, ckpt |-> in[id].ckpt, tries |-> in[id].tries,
                leased |-> FALSE, bodyRef |-> ref,
                ckptRef |-> IF in[id].ckpt = 0 THEN NoRef ELSE ref]]

endReplay(items) ==
    [id \in Ids |-> IF items[id] = None THEN None ELSE [items[id] EXCEPT !.leased = FALSE]]

segmentOf(lsn) == CHOOSE s \in replayed : lsn \in segs[s].first..segs[s].end

Recoverable == \A s \in replayed : Replayable(s)

\* The segment that goes on is the last one, or a new one.  Nothing else is synced.
Recover ==
    LET kept == {Seg(s) : s \in replayed} \cup ({Snap(newestSnapshot)} \cap dir)
        goOn == IF replayed = {} THEN recoveredLSN + 1 ELSE Max(replayed)
        fresh == replayed = {} \/ segs[goOn].end < segs[goOn].first
        last == IF fresh THEN Segment(recoveredLSN, TRUE) ELSE segs[goOn]
    IN /\ ~up /\ Recoverable
       /\ up' = TRUE
       /\ history' = SubSeq(history, 1, recoveredLSN)
       /\ mem' = endReplay(ReplayFrom(loadSnapshot, history, newestSnapshot + 1, recoveredLSN,
                                      [n \in newestSnapshot + 1..recoveredLSN |-> segmentOf(n)]))
       /\ snapLSN' = newestSnapshot
       /\ durable' = recoveredLSN
       /\ dir' = kept \cup {Seg(goOn)}
       /\ IF replayed = {} THEN durDir' = dir' /\ loose' = {}
          ELSE /\ loose' = (loose \ kept) \cup (dir \ kept) \cup (kept \ durDir)
               /\ UNCHANGED durDir
       /\ segs' = KeepSegs((goOn :> last) @@ segs, dir' \cup durDir' \cup loose')
       /\ snaps' = KeepSnaps(dir' \cup durDir' \cup loose')
       /\ UNCHANGED <<offload, failed, syncing, rotate, compact, caller, acked, faults, astray>>

Step(c) ==
    \/ \E id \in Ids :
         \/ AppendNew(c, id)
         \/ AppendAgain(c, id)
         \/ commitLease(c, id)
         \/ \E op \in {"checkpoint", "release", "ack"} : withLease(c, id, op)
    \/ Report(c)
    \/ GiveUp(c)

Next ==
    \/ \E c \in Callers : Step(c)
    \/ SyncBegin \/ SyncEnd \/ SyncFails \/ WriteFails
    \/ RotateBegin \/ RotateLock \/ RotateSync \/ RotateFails \/ RotateEnd \/ RotateAbort
    \/ CompactBegin \/ CompactCapture \/ CompactWrite \/ CompactAbort
    \/ CompactSyncDir \/ CompactSyncDirFails \/ CompactSwap \/ CompactGiveUp \/ CompactEnd
    \/ Close \/ Kill \/ PowerFails \/ Recover

Spec == Init /\ [][Next]_vars

(***************************************************************************)
(* Properties.                                                             *)
(***************************************************************************)
\* Append "returns after the record is on stable storage": whatever a caller was
\* told is safe is part of the log an open store works on, however it was opened.
\* Except when power failures have brought two files back that createSegment or recover
\* had removed without a sync: recovery takes the first, empty, for the last segment, whose
\* name then says less than the entries it takes; the second makes that segment look
\* covered by a snapshot, and recovery deletes it.
AckedSurvive == up => acked <= Len(history) \/ Cardinality(astray) > 1

\* The queue in memory is what the whole log, from its first entry, says it is:
\* a snapshot, the segments left beside it and the skipping of what it covers
\* neither lose nor repeat an entry.
MemoryIsReplay ==
    LET whole == ReplayFrom([id \in Ids |-> None], history, 1, Len(history),
                           [n \in DOMAIN history |-> 0])
    IN up => \A id \in Ids : IF whole[id] = None THEN mem[id] = None
                             ELSE mem[id] # None /\ content(mem[id]) = content(whole[id])

\* Every reference in memory leads to the record's current payload: compaction
\* deletes no file that something still points into, and no reference keeps
\* pointing at contents that were superseded while the snapshot was copied.
PayloadsReadable == up /\ offload => \A id \in Present(mem) : Readable(id, mem[id])

\* A crash at any step of a rotation, a compaction or a recovery leaves a directory that
\* recovery opens: "On failure nothing is left behind, because a stray empty segment would
\* be mistaken for the start of the next one" (createSegment).  Except when a power failure
\* has undone what createSegment's cleanup or recover did to the directory and did not sync.
AlwaysOpens == ~up => Recoverable \/ astray # {}
=============================================================================
