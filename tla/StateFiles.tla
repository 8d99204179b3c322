----------------------------- MODULE StateFiles -----------------------------
(***************************************************************************)
(* The two file primitives of persistence/src: CursorFile, an append-only  *)
(* log of JSON lines, and SnapshotFile, one value replaced by a rename.    *)
(* One process uses them, one call at a time.  It may be killed between    *)
(* any two system calls, the disk may fill up in the middle of a write,    *)
(* and the machine may lose power.                                         *)
(*                                                                         *)
(* A file's content is a sequence of chunks.  A record is written as its   *)
(* head, its body and, in a log, a newline, so that a write can be cut     *)
(* inside the JSON text and just before the newline.  What a kill leaves   *)
(* is what the kernel took; what a power loss leaves is a prefix of that,  *)
(* no shorter than what was last fsync'd.  A rename reaches the disk at    *)
(* some later time, because nothing syncs the directory.                   *)
(*                                                                         *)
(* Assumed: a write that fails is reported, by write_all or by sync_all.   *)
(* tokio's File (external) buffers and writes on another thread, and       *)
(* neither primitive calls flush; if an error could be lost on the way,    *)
(* a call would return Ok for a line or a file that is not whole.          *)
(***************************************************************************)
EXTENDS Naturals, Sequences

CONSTANTS
    MaxRecords,    \* bound: append calls
    MaxValues      \* bound: write calls

ASSUME BoundsAssumption == MaxRecords \in Nat /\ MaxValues \in Nat

VARIABLES
    \* a CursorFile
    log,           \* its content as the kernel has it
    synced,        \* how many chunks of it are on disk for certain
    appends,       \* append calls so far: the n-th appends record n
    acked,         \* history: records and offsets of the appends that returned Ok
    appender,      \* where append is: "idle", "writing" or "synced"
    \* a SnapshotFile
    file,          \* the content its path names, as the kernel has it
    onDisk,        \* the content its path names after a power loss
    tmp,           \* the content of the temporary file
    tmpSynced,     \* whether that content is on disk
    writes,        \* write calls so far: the n-th writes value n
    writer         \* where write is: "idle", "writing" or "synced"

cursor == <<log, synced, appends, acked, appender>>
snapshot == <<file, onDisk, tmp, tmpSynced, writes, writer>>
vars == <<cursor, snapshot>>

-----------------------------------------------------------------------------
\* Content

Parts == {"head", "body", "newline"}
Chunks == [of : Nat \ {0}, part : Parts]

Json(n) == <<[of |-> n, part |-> "head"], [of |-> n, part |-> "body"]>>
Line(n) == Append(Json(n), [of |-> n, part |-> "newline"])

Prefixes(s) == {SubSeq(s, 1, n) : n \in 0 .. Len(s)}

\* A line of the log begins at the offset read_from starts at and after every
\* newline, and ends before the next newline or at the end of the file.
LineStarts(offset) ==
    {i \in offset + 1 .. Len(log) : i = offset + 1 \/ log[i - 1].part = "newline"}

LineEnd(i) ==
    CHOOSE e \in i .. Len(log) :
        /\ e = Len(log) \/ log[e + 1].part = "newline"
        /\ \A m \in i .. e : log[m].part # "newline"

\* serde_json accepts one whole record, and nothing after it.
Parses(text) == \E n \in 1 .. appends : text = Json(n)

\* CursorFile::read_from: one line that does not parse fails the whole read. The
\* records are given by where their lines start.
ReadFrom(offset) ==
    [ok |-> \A i \in LineStarts(offset) : Parses(SubSeq(log, i, LineEnd(i))),
     records |-> [i \in LineStarts(offset) |-> log[i].of]]

\* CursorFile::read_all
ReadAll == ReadFrom(0)

\* SnapshotFile::read succeeds: no file and an empty one are None, another must
\* parse.
Readable == file = <<>> \/ \E n \in 1 .. writes : file = Json(n)

-----------------------------------------------------------------------------

Init ==
    /\ log = <<>> /\ synced = 0 /\ appends = 0 /\ acked = <<>> /\ appender = "idle"
    /\ file = <<>> /\ onDisk = <<>> /\ tmp = <<>> /\ tmpSynced = TRUE
    /\ writes = 0 /\ writer = "idle"

Idle == appender = "idle" /\ writer = "idle"

-----------------------------------------------------------------------------
\* CursorFile::append

\* The file is open at its end, whatever is there.
OpenLog ==
    /\ Idle /\ appends < MaxRecords
    /\ appends' = appends + 1
    /\ appender' = "writing"
    /\ UNCHANGED <<log, synced, acked, snapshot>>

\* Variant of WriteAndSync: Ok without the fsync.
WriteAndSync_WriteOnly ==
    /\ appender = "writing"
    /\ log' = log \o Line(appends)
    /\ appender' = "synced"
    /\ UNCHANGED <<synced, appends, acked, snapshot>>

\* write_all and sync_all.
WriteAndSync ==
    /\ appender = "writing"
    /\ log' = log \o Line(appends)
    /\ synced' = Len(log')
    /\ appender' = "synced"
    /\ UNCHANGED <<appends, acked, snapshot>>

\* write_all failed part of the way (a full disk), or sync_all failed on a line
\* that is there: append returns the error, by assumption always, and cleans nothing
\* up.
AppendFails ==
    /\ appender = "writing"
    /\ \E written \in Prefixes(Line(appends)) : log' = log \o written
    /\ appender' = "idle"
    /\ UNCHANGED <<synced, appends, acked, snapshot>>

\* append returns Ok with the length of the file.
AppendReturns ==
    /\ appender = "synced"
    /\ acked' = Append(acked, [of |-> appends, end |-> Len(log)])
    /\ appender' = "idle"
    /\ UNCHANGED <<log, synced, appends, snapshot>>

-----------------------------------------------------------------------------
\* SnapshotFile::write

\* Variant of CreateTmp: what an earlier write left there is kept.
CreateTmp_NotTruncated ==
    /\ Idle /\ writes < MaxValues
    /\ writes' = writes + 1
    /\ writer' = "writing" /\ tmpSynced' = FALSE
    /\ UNCHANGED <<file, onDisk, tmp, cursor>>

\* File::create truncates what an earlier write left there.
CreateTmp ==
    /\ Idle /\ writes < MaxValues
    /\ writes' = writes + 1
    /\ tmp' = <<>> /\ tmpSynced' = FALSE
    /\ writer' = "writing"
    /\ UNCHANGED <<file, onDisk, cursor>>

SyncTmp ==
    /\ writer = "writing"
    /\ tmp' = tmp \o Json(writes) /\ tmpSynced' = TRUE
    /\ writer' = "synced"
    /\ UNCHANGED <<file, onDisk, writes, cursor>>

\* A write, a sync or the rename failed; by assumption no write fails unreported, so
\* that a temporary file which is not whole is never renamed.
WriteFails ==
    /\ \/ /\ writer = "writing"
          /\ \E written \in Prefixes(Json(writes)) : tmp' = tmp \o written
       \/ /\ writer = "synced"
          /\ tmp' = tmp
    /\ writer' = "idle"
    /\ UNCHANGED <<file, onDisk, tmpSynced, writes, cursor>>

Rename ==
    /\ writer = "synced"
    /\ file' = tmp /\ tmp' = <<>>
    /\ writer' = "idle"
    /\ UNCHANGED <<onDisk, tmpSynced, writes, cursor>>

-----------------------------------------------------------------------------
\* The machine

\* The directory reaches the disk.
DirectorySynced ==
    /\ onDisk # file
    /\ onDisk' = file
    /\ UNCHANGED <<file, tmp, tmpSynced, writes, writer, cursor>>

\* The process is killed: a write under way stops anywhere.
Kill ==
    /\ ~Idle
    /\ log' \in {log} \cup (IF appender = "writing"
                            THEN {log \o w : w \in Prefixes(Line(appends))} ELSE {})
    /\ tmp' \in {tmp} \cup (IF writer = "writing"
                            THEN {tmp \o w : w \in Prefixes(Json(writes))} ELSE {})
    /\ appender' = "idle" /\ writer' = "idle"
    /\ UNCHANGED <<synced, appends, acked, file, onDisk, tmpSynced, writes>>

\* Power is lost: of the log a prefix survives, of the temporary file too unless
\* it was synced, and the path may name what it named before.
PowerLoss ==
    /\ \E n \in synced .. Len(log) :
          log' = SubSeq(log, 1, n) /\ synced' = n
    /\ file' \in {file, onDisk} /\ onDisk' = file'
    /\ tmp' \in IF tmpSynced THEN {tmp} ELSE Prefixes(tmp)
    /\ tmpSynced' = TRUE
    /\ appender' = "idle" /\ writer' = "idle"
    /\ UNCHANGED <<appends, acked, writes>>

-----------------------------------------------------------------------------

Next ==
    \/ OpenLog \/ WriteAndSync \/ AppendFails \/ AppendReturns
    \/ CreateTmp \/ SyncTmp \/ WriteFails \/ Rename
    \/ DirectorySynced \/ Kill \/ PowerLoss

Spec == Init /\ [][Next]_vars

-----------------------------------------------------------------------------
\* Properties

\* The shape of the state; the temporary file holds part of one value.
TypeOK ==
    /\ log \in Seq(Chunks) /\ synced \in 0 .. Len(log)
    /\ appends \in 0 .. MaxRecords /\ writes \in 0 .. MaxValues
    /\ acked \in Seq([of : 1 .. MaxRecords, end : Nat])
    /\ appender \in {"idle", "writing", "synced"} /\ writer \in {"idle", "writing", "synced"}
    /\ file \in Seq(Chunks) /\ onDisk \in Seq(Chunks)
    /\ tmp = <<>> \/ \E n \in 1 .. writes : tmp \in Prefixes(Json(n))
    /\ tmpSynced \in BOOLEAN

\* Records are numbered in the order of their appends, so in-order means rising.
Rising(s) == \A i, k \in DOMAIN s : i < k => s[i] < s[k]

Holds(s, n) == \E i \in DOMAIN s : s[i] = n

\* Whatever fails or crashes, the log loses nothing silently.  Resuming at the
\* offset an append returned (or at the start), a read either reports an error
\* or returns records in the order they were appended, every one acknowledged
\* after that offset among them and none acknowledged at or before it.
LossIsLoud ==
    \A from \in 0 .. Len(acked) :
        LET offset == IF from = 0 THEN 0 ELSE acked[from].end
            got    == ReadFrom(offset)
        IN  got.ok =>
              /\ Rising(got.records)
              /\ \A i \in DOMAIN acked : Holds(got.records, acked[i].of) <=> i > from

\* A reader of a snapshot sees some value whole, or none before the first: a
\* kill, a full disk or a power loss in the middle of a write, and a temporary
\* file left behind by one, never make it unreadable.
SnapshotIsWhole == Readable

-----------------------------------------------------------------------------
\* What the documents say

\* docs/persistence.md: what append reported durable is, even across an abrupt
\* kill, and read_all returns every line ever appended.
AckedIsReadable ==
    \A i \in DOMAIN acked : ReadAll.ok /\ Holds(ReadAll.records, acked[i].of)

-----------------------------------------------------------------------------
\* The inductive invariant

\* A path names a value that was written whole, or nothing; the temporary file of
\* a write under way is empty until its sync and whole from there.
WholeValues ==
    /\ {file, onDisk} \subseteq {<<>>} \cup {Json(n) : n \in 1 .. writes}
    /\ writer # "idle" => writes \in 1 .. MaxValues
    /\ writer = "writing" => tmp = <<>>
    /\ writer = "synced" => tmp = Json(writes)

\* The line of record n ends at this offset, and all of it is on disk.
LineAt(n, end) ==
    /\ end \in 3 .. synced
    /\ \A c \in 1 .. 3 : log[end - 3 + c] = Line(n)[c]

\* Every acknowledged line is where its append said, in the order of the appends:
\* what is torn can only lie between two of them.
AckedInPlace ==
    \A i \in DOMAIN acked :
        /\ LineAt(acked[i].of, acked[i].end)
        /\ \A k \in DOMAIN acked :
             i < k => acked[i].of < acked[k].of /\ acked[i].end < acked[k].end

\* And an append about to return will say so of the last line of the file.
NextInPlace ==
    /\ \A i \in DOMAIN acked : acked[i].of <= appends
    /\ appender # "idle" =>
         appends \in 1 .. MaxRecords /\ \A i \in DOMAIN acked : acked[i].of < appends
    /\ appender = "synced" =>
         /\ synced = Len(log) /\ LineAt(appends, Len(log))
         /\ \A i \in DOMAIN acked : acked[i].end < Len(log)

FilesInv ==
    /\ TypeOK
    /\ WholeValues
    /\ AckedInPlace
    /\ NextInPlace

\* Of a record that reached the log there is a beginning, uninterrupted, and the
\* records follow each other in the order of their appends.
RecordsInOrder ==
    /\ \A i \in DOMAIN log : log[i].part # "head" =>
         /\ i > 1 /\ log[i - 1].of = log[i].of
         /\ log[i - 1].part = IF log[i].part = "body" THEN "head" ELSE "body"
    /\ \A i, k \in DOMAIN log :
         i < k /\ log[i].part = "head" /\ log[k].part = "head" => log[i].of < log[k].of
    /\ \A i \in DOMAIN log :
         log[i].of <= appends /\ (appender = "writing" => log[i].of < appends)

IInv == FilesInv /\ RecordsInOrder

=============================================================================
