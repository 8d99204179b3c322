-------------------------- MODULE StateFilesProofs --------------------------
(***************************************************************************)
(* What StateFiles says of both primitives, for any number of appends and  *)
(* writes: an acknowledged line is never moved or changed, a read that     *)
(* reports no error misses none, and a path never names half a value.      *)
(***************************************************************************)
EXTENDS StateFiles, SequenceTheorems, WellFoundedInduction, TLAPS

-----------------------------------------------------------------------------
\* Content

LEMMA JsonFacts ==
  ASSUME NEW n \in Nat \ {0}
  PROVE  /\ Json(n) \in Seq(Chunks) /\ Len(Json(n)) = 2 /\ Json(n) # <<>>
         /\ Line(n) \in Seq(Chunks) /\ Len(Line(n)) = 3
<1>1. [of |-> n, part |-> "head"] \in Chunks /\ [of |-> n, part |-> "body"] \in Chunks
      /\ [of |-> n, part |-> "newline"] \in Chunks
  BY DEF Chunks, Parts
<1>2. Json(n) \in Seq(Chunks) /\ Len(Json(n)) = 2
  BY <1>1 DEF Json
<1>3. Line(n) \in Seq(Chunks) /\ Len(Line(n)) = 3
  <2>1. ASSUME NEW c \in Chunks, NEW json \in Seq(Chunks), Len(json) = 2
        PROVE  Append(json, c) \in Seq(Chunks) /\ Len(Append(json, c)) = 3
    <3>1. Append(json, c) \in Seq(Chunks) /\ Len(Append(json, c)) = Len(json) + 1
      BY AppendProperties
    <3> QED
      BY <2>1, <3>1
  <2> QED
    BY <1>1, <1>2, <2>1 DEF Line
<1> QED
  BY <1>2, <1>3, EmptySeq

LEMMA PrefixFacts ==
  ASSUME NEW S, NEW s \in Seq(S), NEW p \in Prefixes(s)
  PROVE  /\ p \in Seq(S) /\ Len(p) \in Nat /\ Len(p) <= Len(s)
         /\ \A c \in 1 .. Len(p) : p[c] = s[c]
<1>1. PICK n \in 0 .. Len(s) : p = SubSeq(s, 1, n)
  BY DEF Prefixes
<1>2. Len(s) \in Nat /\ n \in Nat /\ n <= Len(s) /\ \A c \in 1 .. n : s[c] \in S
  BY LenProperties, ElementOfSeq, SMT
<1>3. /\ p \in Seq(S) /\ Len(p) = IF 1 <= n THEN n - 1 + 1 ELSE 0
      /\ \A c \in 1 .. n - 1 + 1 : p[c] = s[1 + c - 1]
  BY <1>1, <1>2, SubSeqProperties
<1>4. Len(p) = n /\ n - 1 + 1 = n
  BY <1>2, <1>3, SMT
<1>5. \A c \in 1 .. n : 1 + c - 1 = c
  BY <1>2, SMT
<1> QED
  BY <1>2, <1>3, <1>4, <1>5

\* A prefix of a prefix is one; the whole and the empty sequence are two.
LEMMA PrefixesOf ==
  ASSUME NEW S, NEW s \in Seq(S)
  PROVE  /\ <<>> \in Prefixes(s) /\ s \in Prefixes(s)
         /\ \A p \in Prefixes(s) : Prefixes(p) \subseteq Prefixes(s)
<1>1. Len(s) \in Nat /\ 0 \in 0 .. Len(s) /\ Len(s) \in 0 .. Len(s)
  BY LenProperties
<1>2. SubSeq(s, 1, 0) = <<>>
  BY SubSeqEmpty
<1>3. SubSeq(s, 1, Len(s)) = s
  BY SubSeqFull
<1>4. ASSUME NEW p \in Prefixes(s), NEW q \in Prefixes(p)
      PROVE  q \in Prefixes(s)
  <2>1. /\ p \in Seq(S) /\ Len(p) \in Nat /\ Len(p) <= Len(s)
        /\ \A c \in 1 .. Len(p) : p[c] = s[c]
    BY PrefixFacts
  <2>2. /\ q \in Seq(S) /\ Len(q) \in Nat /\ Len(q) <= Len(p)
        /\ \A c \in 1 .. Len(q) : q[c] = p[c]
    BY <2>1, PrefixFacts
  <2>3. SubSeq(s, 1, Len(q)) \in Prefixes(s) /\ Len(q) \in 0 .. Len(s)
    BY <1>1, <2>1, <2>2 DEF Prefixes
  <2>4. /\ SubSeq(s, 1, Len(q)) \in Seq(S) /\ Len(SubSeq(s, 1, Len(q))) \in Nat
        /\ \A c \in 1 .. Len(SubSeq(s, 1, Len(q))) : SubSeq(s, 1, Len(q))[c] = s[c]
    BY <2>3, PrefixFacts
  <2>5. Len(SubSeq(s, 1, Len(q))) = Len(q)
    BY <1>1, <2>1, <2>2
  <2>6. q = SubSeq(s, 1, Len(q))
    BY <2>1, <2>2, <2>4, <2>5, SeqEqual
  <2> QED
    BY <2>3, <2>6
<1> QED
  BY <1>1, <1>2, <1>3, <1>4 DEF Prefixes

\* The facts about the state the steps below use.
LEMMA TypedFacts ==
  ASSUME TypeOK
  PROVE  /\ log \in Seq(Chunks) /\ Len(log) \in Nat /\ synced \in Nat /\ synced <= Len(log)
         /\ appends \in Nat /\ writes \in Nat /\ MaxRecords \in Nat /\ MaxValues \in Nat
         /\ Len(acked) \in Nat /\ DOMAIN acked = 1 .. Len(acked)
         /\ \A i \in DOMAIN acked : acked[i].of \in 1 .. MaxRecords /\ acked[i].end \in Nat
<1>1. /\ log \in Seq(Chunks) /\ synced \in 0 .. Len(log)
      /\ appends \in 0 .. MaxRecords /\ writes \in 0 .. MaxValues
      /\ acked \in Seq([of : 1 .. MaxRecords, end : Nat])
  BY DEF TypeOK
<1>2. Len(log) \in Nat /\ Len(acked) \in Nat /\ DOMAIN acked = 1 .. Len(acked)
  BY <1>1, LenProperties
<1>3. \A i \in DOMAIN acked : acked[i] \in [of : 1 .. MaxRecords, end : Nat]
  BY <1>1, <1>2, ElementOfSeq
<1> QED
  BY <1>1, <1>2, <1>3, BoundsAssumption, SMT

-----------------------------------------------------------------------------

LEMMA InitHolds == Init => FilesInv
<1> SUFFICES ASSUME Init PROVE FilesInv
  OBVIOUS
<1>1. log = <<>> /\ Len(log) = 0 /\ acked = <<>> /\ DOMAIN acked = {} /\ <<>> \in Seq(Chunks)
  BY EmptySeq DEF Init
<1>2. TypeOK
  BY <1>1, BoundsAssumption, EmptySeq DEF Init, TypeOK
<1> QED
  BY <1>1, <1>2 DEF Init, FilesInv, WholeValues, AckedInPlace, NextInPlace

\* The log grew at its end: every line in place stays in place.
LEMMA GrowthKeepsLines ==
  ASSUME FilesInv, NEW w \in Seq(Chunks), log' = log \o w, synced' \in Nat, synced <= synced',
         NEW n, NEW end, LineAt(n, end)
  PROVE  LineAt(n, end)'
<1>1. /\ log \in Seq(Chunks) /\ Len(log) \in Nat /\ synced \in Nat /\ synced <= Len(log)
  BY TypedFacts DEF FilesInv
<1>2. \A c \in 1 .. Len(log) : log'[c] = log[c]
  BY <1>1, LenProperties
<1>3. end \in 3 .. synced' /\ end \in 3 .. synced
  BY <1>1, SMT DEF LineAt
<1>4. \A c \in 1 .. 3 : end - 3 + c \in 1 .. Len(log)
  BY <1>1, <1>3, SMT
<1> QED
  BY <1>2, <1>3, <1>4 DEF LineAt

\* The appender is done or gone, and the log has at most grown or lost its end
\* behind what is synced.
LEMMA LogKept ==
  ASSUME FilesInv, UNCHANGED <<appends, acked>>, appender' = "idle",
         synced' \in Nat, synced <= synced',
         \A n, end : LineAt(n, end) => LineAt(n, end)'
  PROVE  AckedInPlace' /\ NextInPlace'
BY DEF FilesInv, AckedInPlace, NextInPlace

LEMMA SnapshotUntouched ==
  ASSUME FilesInv, UNCHANGED snapshot
  PROVE  /\ WholeValues'
         /\ /\ file' \in Seq(Chunks) /\ onDisk' \in Seq(Chunks)
            /\ writes' \in 0 .. MaxValues /\ writer' \in {"idle", "writing", "synced"}
            /\ tmp' = <<>> \/ \E n \in 1 .. writes' : tmp' \in Prefixes(Json(n))
            /\ tmpSynced' \in BOOLEAN
BY DEF FilesInv, TypeOK, WholeValues, snapshot, Json, Prefixes

LEMMA LogUntouched ==
  ASSUME FilesInv, UNCHANGED cursor
  PROVE  /\ AckedInPlace' /\ NextInPlace'
         /\ /\ log' \in Seq(Chunks) /\ synced' \in 0 .. Len(log')
            /\ appends' \in 0 .. MaxRecords
            /\ acked' \in Seq([of : 1 .. MaxRecords, end : Nat])
            /\ appender' \in {"idle", "writing", "synced"}
BY DEF FilesInv, TypeOK, AckedInPlace, NextInPlace, LineAt, cursor

-----------------------------------------------------------------------------
\* CursorFile::append

LEMMA OpenLogPreserves ==
  ASSUME FilesInv, OpenLog
  PROVE  FilesInv'
<1>1. /\ appends' = appends + 1 /\ appends < MaxRecords /\ appender' = "writing"
      /\ UNCHANGED <<log, synced, acked>> /\ UNCHANGED snapshot
  BY DEF OpenLog
<1>2. appends' \in 1 .. MaxRecords
  BY <1>1, TypedFacts, SMT DEF FilesInv
<1>3. \A i \in DOMAIN acked : acked[i].of < appends' /\ acked[i].of <= appends'
  BY <1>1, TypedFacts, SMT DEF FilesInv, NextInPlace
<1>4. AckedInPlace' /\ NextInPlace'
  BY <1>1, <1>2, <1>3 DEF FilesInv, AckedInPlace, NextInPlace, LineAt
<1>5. TypeOK'
  BY <1>1, <1>2, SnapshotUntouched DEF FilesInv, TypeOK
<1> QED
  BY <1>1, <1>4, <1>5, SnapshotUntouched DEF FilesInv

LEMMA WriteAndSyncPreserves ==
  ASSUME FilesInv, WriteAndSync
  PROVE  FilesInv'
<1>1. /\ appender = "writing" /\ log' = log \o Line(appends) /\ synced' = Len(log')
      /\ appender' = "synced" /\ UNCHANGED <<appends, acked>> /\ UNCHANGED snapshot
  BY DEF WriteAndSync
<1>2. /\ appends \in 1 .. MaxRecords /\ appends \in Nat \ {0}
      /\ \A i \in DOMAIN acked : acked[i].of < appends
  BY <1>1, TypedFacts DEF FilesInv, NextInPlace
<1>3. /\ log \in Seq(Chunks) /\ Len(log) \in Nat /\ synced \in Nat /\ synced <= Len(log)
  BY TypedFacts DEF FilesInv
<1>4. /\ log' \in Seq(Chunks) /\ Len(log') = Len(log) + 3
      /\ \A c \in 1 .. 3 : log'[Len(log) + c] = Line(appends)[c]
  <2>1. Line(appends) \in Seq(Chunks) /\ Len(Line(appends)) = 3
    BY <1>2, JsonFacts
  <2>2. ASSUME NEW line \in Seq(Chunks), Len(line) = 3
        PROVE  /\ log \o line \in Seq(Chunks) /\ Len(log \o line) = Len(log) + 3
               /\ \A c \in 1 .. Len(log) + 3 :
                    (log \o line)[c] = IF c <= Len(log) THEN log[c] ELSE line[c - Len(log)]
    <3>1. /\ log \o line \in Seq(Chunks) /\ Len(log \o line) = Len(log) + Len(line)
          /\ \A c \in 1 .. Len(log) + Len(line) :
               (log \o line)[c] = IF c <= Len(log) THEN log[c] ELSE line[c - Len(log)]
      BY <1>3, ConcatProperties, Zenon
    <3> QED
      BY <2>2, <3>1
  <2>4. /\ log' \in Seq(Chunks) /\ Len(log') = Len(log) + 3
        /\ \A c \in 1 .. Len(log) + 3 :
             log'[c] = IF c <= Len(log) THEN log[c] ELSE Line(appends)[c - Len(log)]
    BY <1>1, <2>1, <2>2
  <2>3. ASSUME NEW c \in 1 .. 3
        PROVE  log'[Len(log) + c] = Line(appends)[c]
    <3>1. /\ Len(log) + c \in 1 .. Len(log) + 3 /\ ~(Len(log) + c <= Len(log))
          /\ Len(log) + c - Len(log) = c
      BY <1>3, SMT
    <3> QED
      BY <2>4, <3>1
  <2> QED
    BY <2>3, <2>4
<1>5. LineAt(appends, Len(log))'
  <2>1. Len(log') \in 3 .. synced' /\ \A c \in 1 .. 3 : Len(log') - 3 + c = Len(log) + c
    BY <1>1, <1>3, <1>4, SMT
  <2> QED
    BY <1>1, <1>4, <2>1 DEF LineAt
<1>6. \A n, end : LineAt(n, end) => LineAt(n, end)'
  <2>1. synced' \in Nat /\ synced <= synced' /\ Line(appends) \in Seq(Chunks)
    BY <1>1, <1>2, <1>3, <1>4, JsonFacts, SMT
  <2> QED
    BY <1>1, <2>1, GrowthKeepsLines
<1>7. \A i \in DOMAIN acked : acked[i].end < Len(log')
  <2>1. \A i \in DOMAIN acked : acked[i].end \in 3 .. synced
    BY DEF FilesInv, AckedInPlace, LineAt
  <2> QED
    BY <1>3, <1>4, <2>1, SMT
<1>8. AckedInPlace' /\ NextInPlace'
  BY <1>1, <1>2, <1>5, <1>6, <1>7 DEF FilesInv, AckedInPlace, NextInPlace
<1>9. TypeOK'
  <2>1. synced' \in 0 .. Len(log')
    BY <1>1, <1>3, <1>4, SMT
  <2> QED
    BY <1>1, <1>4, <2>1, SnapshotUntouched DEF FilesInv, TypeOK
<1> QED
  BY <1>1, <1>8, <1>9, SnapshotUntouched DEF FilesInv

\* What a failed write leaves of its line.
LEMMA TornPreserves ==
  ASSUME FilesInv, appender = "writing", NEW w \in Prefixes(Line(appends)), log' = log \o w,
         appender' = "idle", UNCHANGED <<synced, appends, acked>>
  PROVE  /\ AckedInPlace' /\ NextInPlace'
         /\ log' \in Seq(Chunks) /\ synced' \in 0 .. Len(log')
<1>1. appends \in Nat \ {0}
  BY TypedFacts, SMT DEF FilesInv, NextInPlace
<1>2. w \in Seq(Chunks) /\ Len(w) \in Nat
  BY <1>1, JsonFacts, PrefixFacts
<1>3. /\ log \in Seq(Chunks) /\ Len(log) \in Nat /\ synced \in Nat /\ synced <= Len(log)
  BY TypedFacts DEF FilesInv
<1>4. log' \in Seq(Chunks) /\ Len(log') = Len(log) + Len(w)
  BY <1>2, <1>3, ConcatProperties
<1>5. synced' \in 0 .. Len(log')
  BY <1>2, <1>3, <1>4, SMT
<1>6. \A n, end : LineAt(n, end) => LineAt(n, end)'
  BY <1>2, <1>3, GrowthKeepsLines
<1> QED
  BY <1>3, <1>4, <1>5, <1>6, LogKept

LEMMA AppendFailsPreserves ==
  ASSUME FilesInv, AppendFails
  PROVE  FilesInv'
<1>1. /\ appender = "writing" /\ \E w \in Prefixes(Line(appends)) : log' = log \o w
      /\ appender' = "idle" /\ UNCHANGED <<synced, appends, acked>> /\ UNCHANGED snapshot
  BY DEF AppendFails
<1>2. /\ AckedInPlace' /\ NextInPlace'
      /\ log' \in Seq(Chunks) /\ synced' \in 0 .. Len(log')
  BY <1>1, TornPreserves
<1> QED
  BY <1>1, <1>2, SnapshotUntouched DEF FilesInv, TypeOK

LEMMA AppendReturnsPreserves ==
  ASSUME FilesInv, AppendReturns
  PROVE  FilesInv'
<1> DEFINE ack == [of |-> appends, end |-> Len(log)]
<1>1. /\ appender = "synced" /\ acked' = Append(acked, ack) /\ appender' = "idle"
      /\ UNCHANGED <<log, synced, appends>> /\ UNCHANGED snapshot
  BY DEF AppendReturns
<1>2. /\ appends \in 1 .. MaxRecords /\ LineAt(appends, Len(log))
      /\ \A i \in DOMAIN acked : acked[i].of < appends /\ acked[i].end < Len(log)
  BY <1>1 DEF FilesInv, NextInPlace
<1>3. /\ Len(acked) \in Nat /\ DOMAIN acked = 1 .. Len(acked) /\ Len(log) \in Nat
      /\ acked \in Seq([of : 1 .. MaxRecords, end : Nat]) /\ appends \in Nat
  BY TypedFacts DEF FilesInv, TypeOK
<1>4. ack \in [of : 1 .. MaxRecords, end : Nat]
  BY <1>2, <1>3
<1> HIDE DEF ack
<1>5. /\ acked' \in Seq([of : 1 .. MaxRecords, end : Nat])
      /\ DOMAIN acked' = 1 .. Len(acked) + 1
      /\ \A i \in DOMAIN acked : acked'[i] = acked[i]
      /\ acked'[Len(acked) + 1] = ack
  BY <1>1, <1>3, <1>4
<1>6. ack.of = appends /\ ack.end = Len(log)
  BY DEF ack
<1>7. \A i \in DOMAIN acked' : i \in DOMAIN acked \/ i = Len(acked) + 1
  BY <1>3, <1>5, SMT
<1>8. \A i, k \in DOMAIN acked' : i < k => i \in DOMAIN acked
  BY <1>3, <1>5, SMT
<1>9. AckedInPlace'
  <2>1. \A n, end : LineAt(n, end)' <=> LineAt(n, end)
    BY <1>1 DEF LineAt
  <2>2. ASSUME NEW i \in DOMAIN acked' PROVE LineAt(acked'[i].of, acked'[i].end)
    BY <1>2, <1>5, <1>6, <1>7 DEF FilesInv, AckedInPlace
  <2>3. ASSUME NEW i \in DOMAIN acked', NEW k \in DOMAIN acked', i < k
        PROVE  acked'[i].of < acked'[k].of /\ acked'[i].end < acked'[k].end
    BY <1>2, <1>5, <1>6, <1>7, <1>8, <2>3 DEF FilesInv, AckedInPlace
  <2> QED
    BY <2>1, <2>2, <2>3 DEF AckedInPlace
<1>10. NextInPlace'
  BY <1>1, <1>2, <1>3, <1>5, <1>6, <1>7, SMT DEF FilesInv, NextInPlace
<1>11. TypeOK'
  BY <1>1, <1>5, SnapshotUntouched DEF FilesInv, TypeOK
<1> QED
  BY <1>1, <1>9, <1>10, <1>11, SnapshotUntouched DEF FilesInv

-----------------------------------------------------------------------------
\* SnapshotFile::write

\* A path that named a whole value names one, and the temporary file is a prefix of
\* one: all a step of write has to show.
LEMMA WriteKeeps ==
  ASSUME FilesInv, UNCHANGED cursor, WholeValues',
         file' \in Seq(Chunks), onDisk' \in Seq(Chunks),
         writes' \in 0 .. MaxValues, writer' \in {"idle", "writing", "synced"},
         tmp' = <<>> \/ \E n \in 1 .. writes' : tmp' \in Prefixes(Json(n)),
         tmpSynced' \in BOOLEAN
  PROVE  FilesInv'
BY LogUntouched DEF FilesInv, TypeOK

LEMMA CreateTmpPreserves ==
  ASSUME FilesInv, CreateTmp
  PROVE  FilesInv'
<1>1. /\ writes' = writes + 1 /\ writes < MaxValues /\ tmp' = <<>> /\ tmpSynced' = FALSE
      /\ writer' = "writing" /\ UNCHANGED <<file, onDisk>> /\ UNCHANGED cursor
  BY DEF CreateTmp
<1>2. writes' \in 1 .. MaxValues /\ 1 .. writes \subseteq 1 .. writes'
  BY <1>1, TypedFacts, SMT DEF FilesInv
<1>3. WholeValues'
  <2>1. {Json(n) : n \in 1 .. writes} \subseteq {Json(n) : n \in 1 .. writes'}
    BY <1>2
  <2>2. {file, onDisk} \subseteq {<<>>} \cup {Json(n) : n \in 1 .. writes'}
    BY <2>1 DEF FilesInv, WholeValues
  <2> QED
    BY <1>1, <1>2, <2>2 DEF WholeValues, Json
<1>4. writes' \in 0 .. MaxValues
  BY <1>2, SMT
<1> QED
  BY <1>1, <1>3, <1>4, WriteKeeps DEF FilesInv, TypeOK

LEMMA SyncTmpPreserves ==
  ASSUME FilesInv, SyncTmp
  PROVE  FilesInv'
<1>1. /\ writer = "writing" /\ tmp' = tmp \o Json(writes) /\ tmpSynced' = TRUE
      /\ writer' = "synced" /\ UNCHANGED <<file, onDisk, writes>> /\ UNCHANGED cursor
  BY DEF SyncTmp
<1>2. tmp = <<>> /\ writes \in 1 .. MaxValues /\ writes \in Nat \ {0}
  BY <1>1, TypedFacts, SMT DEF FilesInv, WholeValues
<1>3. tmp' = Json(writes) /\ writes \in 1 .. writes /\ tmp' \in Prefixes(Json(writes))
  BY <1>1, <1>2, JsonFacts, ConcatEmptySeq, PrefixesOf
<1>4. WholeValues'
  BY <1>1, <1>2, <1>3 DEF FilesInv, WholeValues, Json
<1> QED
  BY <1>1, <1>3, <1>4, WriteKeeps DEF FilesInv, TypeOK

\* What a failed write leaves of its value.
LEMMA TornTmp ==
  ASSUME FilesInv, writer = "writing", NEW w \in Prefixes(Json(writes))
  PROVE  writes \in 1 .. writes /\ tmp \o w \in Prefixes(Json(writes))
<1>1. tmp = <<>> /\ writes \in Nat \ {0}
  BY TypedFacts, SMT DEF FilesInv, WholeValues
<1>2. w \in Seq(Chunks)
  BY <1>1, JsonFacts, PrefixFacts
<1> QED
  BY <1>1, <1>2, ConcatEmptySeq

LEMMA WriteFailsPreserves ==
  ASSUME FilesInv, WriteFails
  PROVE  FilesInv'
<1>1. /\ writer' = "idle" /\ UNCHANGED <<file, onDisk, tmpSynced, writes>> /\ UNCHANGED cursor
      /\ \/ writer = "writing" /\ \E w \in Prefixes(Json(writes)) : tmp' = tmp \o w
         \/ tmp' = tmp
  BY DEF WriteFails
<1>2. tmp' = <<>> \/ \E n \in 1 .. writes : tmp' \in Prefixes(Json(n))
  BY <1>1, TornTmp DEF FilesInv, TypeOK
<1>3. WholeValues'
  BY <1>1 DEF FilesInv, WholeValues, Json
<1> QED
  BY <1>1, <1>2, <1>3, WriteKeeps DEF FilesInv, TypeOK

LEMMA RenamePreserves ==
  ASSUME FilesInv, Rename
  PROVE  FilesInv'
<1>1. /\ writer = "synced" /\ file' = tmp /\ tmp' = <<>> /\ writer' = "idle"
      /\ UNCHANGED <<onDisk, tmpSynced, writes>> /\ UNCHANGED cursor
  BY DEF Rename
<1>2. file' = Json(writes) /\ writes \in 1 .. writes /\ writes \in Nat \ {0}
  BY <1>1, TypedFacts, SMT DEF FilesInv, WholeValues
<1>3. file' \in Seq(Chunks)
  BY <1>2, JsonFacts
<1>4. WholeValues'
  BY <1>1, <1>2 DEF FilesInv, WholeValues, Json
<1> QED
  BY <1>1, <1>3, <1>4, WriteKeeps DEF FilesInv, TypeOK

-----------------------------------------------------------------------------
\* The machine

LEMMA DirectorySyncedPreserves ==
  ASSUME FilesInv, DirectorySynced
  PROVE  FilesInv'
<1>1. onDisk' = file /\ UNCHANGED <<file, tmp, tmpSynced, writes, writer>> /\ UNCHANGED cursor
  BY DEF DirectorySynced
<1>2. WholeValues'
  BY <1>1 DEF FilesInv, WholeValues, Json
<1> QED
  BY <1>1, <1>2, WriteKeeps DEF FilesInv, TypeOK

LEMMA KillPreserves ==
  ASSUME FilesInv, Kill
  PROVE  FilesInv'
<1>1. /\ log' \in {log} \cup (IF appender = "writing"
                               THEN {log \o w : w \in Prefixes(Line(appends))} ELSE {})
      /\ tmp' \in {tmp} \cup (IF writer = "writing"
                               THEN {tmp \o w : w \in Prefixes(Json(writes))} ELSE {})
      /\ appender' = "idle" /\ writer' = "idle"
      /\ UNCHANGED <<synced, appends, acked, file, onDisk, tmpSynced, writes>>
  BY DEF Kill
<1>2. /\ AckedInPlace' /\ NextInPlace'
      /\ log' \in Seq(Chunks) /\ synced' \in 0 .. Len(log')
  <2>1. CASE log' = log
    <3>1. \A n, end : LineAt(n, end) => LineAt(n, end)'
      BY <1>1, <2>1 DEF LineAt
    <3>2. synced' \in Nat /\ synced <= synced'
      BY <1>1, TypedFacts, SMT DEF FilesInv
    <3> QED
      BY <1>1, <2>1, <3>1, <3>2, LogKept DEF FilesInv, TypeOK
  <2>2. CASE appender = "writing" /\ \E w \in Prefixes(Line(appends)) : log' = log \o w
    BY <1>1, <2>2, TornPreserves
  <2> QED
    BY <1>1, <2>1, <2>2
<1>3. tmp' = <<>> \/ \E n \in 1 .. writes : tmp' \in Prefixes(Json(n))
  BY <1>1, TornTmp DEF FilesInv, TypeOK
<1>4. WholeValues'
  BY <1>1 DEF FilesInv, WholeValues, Json
<1> QED
  BY <1>1, <1>2, <1>3, <1>4 DEF FilesInv, TypeOK, Json, Prefixes

LEMMA PowerLossPreserves ==
  ASSUME FilesInv, PowerLoss
  PROVE  FilesInv'
<1>1. PICK n \in synced .. Len(log) : log' = SubSeq(log, 1, n) /\ synced' = n
  BY DEF PowerLoss
<1>2. /\ file' \in {file, onDisk} /\ onDisk' = file'
      /\ tmp' \in IF tmpSynced THEN {tmp} ELSE Prefixes(tmp)
      /\ tmpSynced' = TRUE /\ appender' = "idle" /\ writer' = "idle"
      /\ UNCHANGED <<appends, acked, writes>>
  BY DEF PowerLoss
<1>3. /\ log \in Seq(Chunks) /\ Len(log) \in Nat /\ synced \in Nat /\ synced <= Len(log)
      /\ n \in 0 .. Len(log) /\ n \in Nat /\ synced <= n
  BY TypedFacts, SMT DEF FilesInv
<1>4. /\ log' \in Seq(Chunks) /\ Len(log') = n /\ \A c \in 1 .. n : log'[c] = log[c]
  <2>1. log' \in Prefixes(log)
    BY <1>1, <1>3 DEF Prefixes
  <2>2. Len(log') = n
    BY <1>1, <1>3
  <2> QED
    BY <1>3, <2>1, <2>2, PrefixFacts
<1>5. \A m, end : LineAt(m, end) => LineAt(m, end)'
  <2> SUFFICES ASSUME NEW m, NEW end, LineAt(m, end) PROVE LineAt(m, end)'
    OBVIOUS
  <2>1. end \in 3 .. synced' /\ \A c \in 1 .. 3 : end - 3 + c \in 1 .. n
    BY <1>1, <1>3, SMT DEF LineAt
  <2> QED
    BY <1>4, <2>1 DEF LineAt
<1>6. AckedInPlace' /\ NextInPlace'
  BY <1>1, <1>2, <1>3, <1>5, LogKept
<1>7. tmp' = <<>> \/ \E m \in 1 .. writes : tmp' \in Prefixes(Json(m))
  <2>1. CASE tmp' = tmp
    BY <2>1 DEF FilesInv, TypeOK
  <2>2. CASE tmp' \in Prefixes(tmp)
    <3>1. CASE tmp = <<>>
      <4>1. tmp \in Seq(Chunks) /\ Len(tmp) = 0
        BY <3>1, EmptySeq
      <4>2. tmp' \in Seq(Chunks) /\ Len(tmp') \in Nat /\ Len(tmp') <= 0
        BY <2>2, <4>1, PrefixFacts
      <4> QED
        BY <4>2, EmptySeq
    <3>2. CASE \E m \in 1 .. writes : tmp \in Prefixes(Json(m))
      <4>1. PICK m \in 1 .. writes : tmp \in Prefixes(Json(m))
        BY <3>2
      <4>2. Json(m) \in Seq(Chunks)
        BY <4>1, TypedFacts, JsonFacts, SMT DEF FilesInv
      <4> QED
        BY <2>2, <4>1, <4>2, PrefixesOf
    <3> QED
      BY <3>1, <3>2 DEF FilesInv, TypeOK
  <2> QED
    BY <1>2, <2>1, <2>2
<1>8. WholeValues'
  BY <1>2 DEF FilesInv, WholeValues, Json
<1>9. TypeOK'
  <2>1. synced' \in 0 .. Len(log')
    BY <1>1, <1>3, <1>4, SMT
  <2> QED
    BY <1>2, <1>4, <1>7, <2>1 DEF FilesInv, TypeOK, Json, Prefixes
<1> QED
  BY <1>6, <1>8, <1>9 DEF FilesInv

-----------------------------------------------------------------------------

LEMMA FilesStep == FilesInv /\ [Next]_vars => FilesInv'
<1> SUFFICES ASSUME FilesInv, [Next]_vars PROVE FilesInv'
  OBVIOUS
<1>1. CASE OpenLog          BY <1>1, OpenLogPreserves
<1>2. CASE WriteAndSync     BY <1>2, WriteAndSyncPreserves
<1>3. CASE AppendFails      BY <1>3, AppendFailsPreserves
<1>4. CASE AppendReturns    BY <1>4, AppendReturnsPreserves
<1>5. CASE CreateTmp        BY <1>5, CreateTmpPreserves
<1>6. CASE SyncTmp          BY <1>6, SyncTmpPreserves
<1>7. CASE WriteFails       BY <1>7, WriteFailsPreserves
<1>8. CASE Rename           BY <1>8, RenamePreserves
<1>9. CASE DirectorySynced  BY <1>9, DirectorySyncedPreserves
<1>10. CASE Kill            BY <1>10, KillPreserves
<1>11. CASE PowerLoss       BY <1>11, PowerLossPreserves
<1>12. CASE UNCHANGED vars
  BY <1>12, LogUntouched, SnapshotUntouched DEF vars, FilesInv, TypeOK
<1> QED
  BY <1>1, <1>2, <1>3, <1>4, <1>5, <1>6, <1>7, <1>8, <1>9, <1>10, <1>11, <1>12 DEF Next

-----------------------------------------------------------------------------
\* The order of the records

\* The records stay in order while the appender is done or gone and the log has
\* grown by some of the line it was writing.
LEMMA GrowthKeepsOrder ==
  ASSUME FilesInv, RecordsInOrder, appender = "writing",
         NEW w \in Prefixes(Line(appends)), log' = log \o w,
         appends' = appends, appender' # "writing"
  PROVE  RecordsInOrder'
<1> DEFINE L == Len(log)
           line == Line(appends)
<1>1. appends \in Nat \ {0} /\ log \in Seq(Chunks) /\ L \in Nat /\ DOMAIN log = 1 .. L
  BY TypedFacts, SMT DEF FilesInv, NextInPlace
<1>2. /\ line \in Seq(Chunks) /\ Len(line) = 3
      /\ line[1] = [of |-> appends, part |-> "head"]
      /\ line[2] = [of |-> appends, part |-> "body"]
      /\ line[3] = [of |-> appends, part |-> "newline"]
  BY <1>1, JsonFacts DEF Line, Json
<1>3. /\ w \in Seq(Chunks) /\ Len(w) \in Nat /\ Len(w) <= 3
      /\ \A c \in 1 .. Len(w) : w[c] = line[c]
  BY <1>2, PrefixFacts
<1> HIDE DEF L, line
<1>4. /\ DOMAIN log' = 1 .. L + Len(w)
      /\ \A i \in 1 .. L : log'[i] = log[i]
      /\ \A c \in 1 .. Len(w) : log'[L + c] = line[c]
  <2>1. /\ log' \in Seq(Chunks) /\ Len(log') = L + Len(w)
        /\ \A i \in 1 .. L + Len(w) : log'[i] = IF i <= L THEN log[i] ELSE w[i - L]
    BY <1>1, <1>3, ConcatProperties, Zenon DEF L
  <2>2. DOMAIN log' = 1 .. L + Len(w)
    BY <2>1, LenProperties
  <2>3. \A i \in 1 .. L : i \in 1 .. L + Len(w) /\ i <= L
    BY <1>1, <1>3, SMT
  <2>4. ASSUME NEW c \in 1 .. Len(w) PROVE log'[L + c] = line[c]
    <3>1. PICK m \in 1 .. L + Len(w) : m = L + c /\ ~(m <= L) /\ m - L = c
      BY <1>1, <1>3, SMT
    <3>2. log'[m] = w[m - L]
      BY <2>1, <3>1, Zenon
    <3> QED
      BY <1>3, <3>1, <3>2, Zenon
  <2>5. \A i \in 1 .. L : log'[i] = log[i]
    BY <2>1, <2>3, Zenon
  <2> QED
    BY <2>2, <2>4, <2>5
<1>5. ASSUME NEW i \in DOMAIN log'
      PROVE  i \in 1 .. L \/ \E c \in {1, 2, 3} : c \in 1 .. Len(w) /\ i = L + c
  <2>1. CASE i <= L
    BY <1>1, <1>4, <2>1, SMT
  <2>2. CASE ~(i <= L)
    <3>1. i \in Nat /\ i - L \in {1, 2, 3} /\ i - L \in 1 .. Len(w) /\ i = L + (i - L)
      BY <1>1, <1>3, <1>4, <2>2, SMT
    <3> QED
      BY <3>1
  <2> QED
    BY <2>1, <2>2
<1>6. ASSUME NEW i \in DOMAIN log', log'[i].part # "head"
      PROVE  /\ i > 1 /\ log'[i - 1].of = log'[i].of
             /\ log'[i - 1].part = IF log'[i].part = "body" THEN "head" ELSE "body"
  <2>1. CASE i \in 1 .. L
    <3>1. /\ i > 1 /\ log[i - 1].of = log[i].of
          /\ log[i - 1].part = IF log[i].part = "body" THEN "head" ELSE "body"
      BY <1>1, <1>4, <1>6, <2>1 DEF RecordsInOrder
    <3>2. i - 1 \in 1 .. L
      BY <1>1, <2>1, <3>1, SMT
    <3> QED
      BY <1>4, <2>1, <3>1, <3>2
  <2>2. ASSUME NEW c \in {1, 2, 3}, c \in 1 .. Len(w), i = L + c
        PROVE  /\ i > 1 /\ log'[i - 1].of = log'[i].of
               /\ log'[i - 1].part = IF log'[i].part = "body" THEN "head" ELSE "body"
    <3>1. log'[i] = line[c]
      BY <1>4, <2>2
    <3>2. c # 1
      BY <1>2, <1>6, <3>1
    <3>3. c - 1 \in {1, 2} /\ c - 1 \in 1 .. Len(w) /\ i - 1 = L + (c - 1) /\ i > 1
      BY <1>1, <1>3, <2>2, <3>2, SMT
    <3>4. log'[i - 1] = line[c - 1]
      BY <1>4, <3>3
    <3>5. CASE c = 2
      <4>1. line[c - 1] = line[1]
        BY <3>5
      <4> QED
        BY <1>2, <3>1, <3>3, <3>4, <3>5, <4>1
    <3>6. CASE c = 3
      <4>1. line[c - 1] = line[2]
        BY <3>6
      <4> QED
        BY <1>2, <3>1, <3>3, <3>4, <3>6, <4>1
    <3> QED
      BY <2>2, <3>2, <3>5, <3>6
  <2> QED
    BY <1>5, <2>1, <2>2
<1>7. ASSUME NEW i \in DOMAIN log'
      PROVE  log'[i].of <= appends
  <2>1. CASE i \in 1 .. L
    BY <1>1, <1>4, <2>1 DEF RecordsInOrder
  <2>2. CASE \E c \in {1, 2, 3} : c \in 1 .. Len(w) /\ i = L + c
    BY <1>1, <1>2, <1>4, <2>2, SMT
  <2> QED
    BY <1>5, <2>1, <2>2
<1>8. ASSUME NEW i \in DOMAIN log', NEW k \in DOMAIN log', i < k,
             log'[i].part = "head", log'[k].part = "head"
      PROVE  log'[i].of < log'[k].of
  <2>1. ASSUME NEW m \in DOMAIN log', log'[m].part = "head", m \notin 1 .. L
        PROVE  m = L + 1 /\ log'[m].of = appends
    <3>1. PICK c \in {1, 2, 3} : c \in 1 .. Len(w) /\ m = L + c
      BY <1>5, <2>1
    <3>2. log'[m] = line[c]
      BY <1>4, <3>1
    <3>3. c = 1
      BY <1>2, <2>1, <3>1, <3>2
    <3> QED
      BY <1>2, <3>1, <3>2, <3>3
  <2>2. CASE k \in 1 .. L
    <3>1. i \in 1 .. L
      BY <1>1, <1>4, <1>8, <2>2, SMT
    <3> QED
      BY <1>1, <1>4, <1>8, <2>2, <3>1 DEF RecordsInOrder
  <2>3. CASE k \notin 1 .. L
    <3>1. k = L + 1 /\ log'[k].of = appends
      BY <1>8, <2>1, <2>3
    <3>2. i \in 1 .. L
      BY <1>1, <1>4, <1>8, <3>1, SMT
    <3> QED
      BY <1>1, <1>4, <3>1, <3>2 DEF RecordsInOrder
  <2> QED
    BY <2>2, <2>3
<1> QED
  BY <1>6, <1>7, <1>8 DEF RecordsInOrder

\* And they do while the log keeps still or loses its end.
LEMMA PrefixKeepsOrder ==
  ASSUME FilesInv, RecordsInOrder, NEW n \in 0 .. Len(log), log' \in Seq(Chunks),
         Len(log') = n, \A i \in 1 .. n : log'[i] = log[i],
         appends' \in Nat, appends <= appends',
         appender' = "writing" => appender = "writing" \/ appends < appends'
  PROVE  RecordsInOrder'
<1>1. /\ DOMAIN log = 1 .. Len(log) /\ Len(log) \in Nat /\ DOMAIN log' = 1 .. n
      /\ 1 .. n \subseteq DOMAIN log /\ appends \in Nat
  BY TypedFacts, LenProperties, SMT DEF FilesInv
<1>2. \A i \in 1 .. n : log'[i] = log[i] /\ i \in DOMAIN log /\ log[i].of \in Nat
  <2>1. \A i \in DOMAIN log : log[i] \in Chunks
    BY <1>1, TypedFacts, ElementOfSeq DEF FilesInv
  <2> QED
    BY <1>1, <2>1 DEF Chunks
<1>3. ASSUME NEW i \in 1 .. n, log'[i].part # "head"
      PROVE  /\ i > 1 /\ log'[i - 1].of = log'[i].of
             /\ log'[i - 1].part = IF log'[i].part = "body" THEN "head" ELSE "body"
  <2>1. /\ i > 1 /\ log[i - 1].of = log[i].of
        /\ log[i - 1].part = IF log[i].part = "body" THEN "head" ELSE "body"
    BY <1>2, <1>3 DEF RecordsInOrder
  <2>2. i - 1 \in 1 .. n
    BY <2>1, SMT
  <2> QED
    BY <1>2, <2>1, <2>2
<1>4. \A i, k \in 1 .. n :
        i < k /\ log'[i].part = "head" /\ log'[k].part = "head" => log'[i].of < log'[k].of
  BY <1>2 DEF RecordsInOrder
<1>5. \A i \in 1 .. n :
        log'[i].of <= appends' /\ (appender' = "writing" => log'[i].of < appends')
  BY <1>1, <1>2, SMT DEF RecordsInOrder
<1> QED
  BY <1>1, <1>3, <1>4, <1>5 DEF RecordsInOrder

LEMMA OrderStep ==
  ASSUME FilesInv, RecordsInOrder, [Next]_vars
  PROVE  RecordsInOrder'
<1>1. /\ log \in Seq(Chunks) /\ Len(log) \in Nat /\ Len(log) \in 0 .. Len(log)
      /\ appends \in Nat /\ synced \in Nat
  BY TypedFacts, SMT DEF FilesInv
<1>2. CASE \/ UNCHANGED <<log, appends>> /\ (appender' = appender \/ appender' \in {"idle", "synced"})
           \/ UNCHANGED log /\ appends' = appends + 1
  <2>1. /\ appends' \in Nat /\ appends <= appends'
        /\ (appender' = "writing" => appender = "writing" \/ appends < appends')
    BY <1>1, <1>2, SMT
  <2>2. log' = log
    BY <1>2
  <2> QED
    BY <1>1, <2>1, <2>2, PrefixKeepsOrder
<1>3. CASE /\ appender = "writing" /\ UNCHANGED appends /\ appender' # "writing"
           /\ \E w \in Prefixes(Line(appends)) : log' = log \o w
  BY <1>3, GrowthKeepsOrder
<1>4. CASE PowerLoss
  <2>1. PICK n \in synced .. Len(log) : log' = SubSeq(log, 1, n)
    BY <1>4 DEF PowerLoss
  <2>2. n \in 0 .. Len(log) /\ log' \in Prefixes(log) /\ n \in Nat
    BY <1>1, <2>1, SMT DEF Prefixes
  <2>3. log' \in Seq(Chunks) /\ Len(log') = n /\ \A i \in 1 .. n : log'[i] = log[i]
    <3>1. Len(log') = n
      BY <1>1, <2>1, <2>2
    <3> QED
      BY <1>1, <2>2, <3>1, PrefixFacts
  <2>4. appends' = appends /\ appender' = "idle" /\ appends <= appends
    BY <1>1, <1>4, SMT DEF PowerLoss
  <2> QED
    BY <1>1, <2>2, <2>3, <2>4, PrefixKeepsOrder
<1>5. CASE WriteAndSync
  <2>1. appender = "writing" /\ log' = log \o Line(appends) /\ appends' = appends
        /\ appender' = "synced"
    BY <1>5 DEF WriteAndSync
  <2>2. Line(appends) \in Prefixes(Line(appends))
    <3>1. Line(appends) \in Seq(Chunks)
      BY <2>1, JsonFacts, TypedFacts, SMT DEF FilesInv, NextInPlace
    <3> QED
      BY <3>1, PrefixesOf
  <2> QED
    BY <1>3, <2>1, <2>2
<1>6. CASE AppendFails
  BY <1>3, <1>6 DEF AppendFails
<1>7. CASE Kill
  <2>1. /\ UNCHANGED appends /\ appender' = "idle"
        /\ \/ log' = log
           \/ appender = "writing" /\ \E w \in Prefixes(Line(appends)) : log' = log \o w
    BY <1>7 DEF Kill
  <2> QED
    BY <1>2, <1>3, <2>1
<1>8. CASE OpenLog \/ AppendReturns
  BY <1>2, <1>8 DEF OpenLog, AppendReturns
<1>9. CASE CreateTmp \/ SyncTmp \/ WriteFails \/ Rename \/ DirectorySynced \/ UNCHANGED vars
  BY <1>2, <1>9 DEF CreateTmp, SyncTmp, WriteFails, Rename, DirectorySynced, cursor, vars
<1> QED
  BY <1>4, <1>5, <1>6, <1>7, <1>8, <1>9 DEF Next

-----------------------------------------------------------------------------
\* CursorFile::read_from

\* A set of numbers that are no larger than p has a largest.
LEMMA LargestBelow ==
  ASSUME NEW p \in Nat, NEW S \in SUBSET (0 .. p), S # {}
  PROVE  \E m \in S : \A x \in S : x <= m
<1> DEFINE T == {p - x : x \in S}
<1>1. T \subseteq Nat /\ T # {}
  <2>1. \A x \in S : x \in 0 .. p
    OBVIOUS
  <2>2. \A x \in 0 .. p : p - x \in Nat
    BY SMT
  <2> QED
    BY <2>1, <2>2
<1>2. PICK d \in T : \A y \in T : ~(<<y, d>> \in OpToRel(<, Nat))
  BY <1>1, NatLessThanWellFounded, WFMin
<1>3. PICK m \in S : d = p - m
  OBVIOUS
<1>4. ASSUME NEW x \in S PROVE x <= m
  <2>1. p - x \in T /\ p - x \in Nat /\ d \in Nat
    BY <1>1
  <2>2. ~(p - x < d)
    BY <1>2, <2>1 DEF OpToRel
  <2> QED
    BY <1>3, <2>2, SMT
<1> QED
  BY <1>4

\* A line of record n ends at this offset: a head, a body and a newline.
EndsLine(n, end) ==
    /\ end \in Nat /\ end >= 3 /\ end <= Len(log)
    /\ log[end - 2] = [of |-> n, part |-> "head"]
    /\ log[end - 1] = [of |-> n, part |-> "body"]
    /\ log[end] = [of |-> n, part |-> "newline"]

\* Where an append said its line ended, it ends.
LEMMA AckedLine ==
  ASSUME IInv, NEW i \in DOMAIN acked
  PROVE  EndsLine(acked[i].of, acked[i].end)
<1> DEFINE end == acked[i].end
           n == acked[i].of
<1>1. LineAt(n, end) /\ n \in Nat \ {0}
  BY TypedFacts, SMT DEF IInv, FilesInv, AckedInPlace
<1>2. end \in Nat /\ end >= 3 /\ end <= Len(log)
  BY <1>1, TypedFacts, SMT DEF LineAt, IInv, FilesInv
<1>3. /\ end - 3 + 1 = end - 2 /\ end - 3 + 2 = end - 1 /\ end - 3 + 3 = end
  BY <1>2, SMT
<1>4. /\ log[end - 3 + 1] = Line(n)[1] /\ log[end - 3 + 2] = Line(n)[2]
      /\ log[end - 3 + 3] = Line(n)[3]
  BY <1>1 DEF LineAt
<1>5. /\ Line(n)[1] = [of |-> n, part |-> "head"]
      /\ Line(n)[2] = [of |-> n, part |-> "body"]
      /\ Line(n)[3] = [of |-> n, part |-> "newline"]
  BY <1>1, JsonFacts DEF Line, Json
<1> QED
  BY <1>2, <1>3, <1>4, <1>5 DEF EndsLine

\* Wherever a read resumes, every line it reads begins with the head of a record.
LEMMA LinesBeginRecords ==
  ASSUME IInv, NEW offset \in 0 .. Len(log),
         offset = 0 \/ log[offset].part = "newline",
         NEW i \in LineStarts(offset)
  PROVE  i \in DOMAIN log /\ i > offset /\ log[i].part = "head"
<1>1. /\ i \in offset + 1 .. Len(log) /\ Len(log) \in Nat /\ DOMAIN log = 1 .. Len(log)
      /\ i = offset + 1 \/ log[i - 1].part = "newline"
  BY TypedFacts, LenProperties DEF LineStarts, IInv, FilesInv
<1>2. i \in DOMAIN log /\ i > offset /\ i \in Nat
  BY <1>1, SMT
<1>3. i = 1 \/ log[i - 1].part = "newline"
  <2>1. i = offset + 1 => i - 1 = offset
    BY SMT
  <2>2. offset = 0 => offset + 1 = 1
    OBVIOUS
  <2> QED
    BY <1>1, <2>1, <2>2
<1>4. ASSUME log[i].part # "head" PROVE FALSE
  <2>1. i > 1 /\ log[i - 1].part \in {"head", "body"}
    BY <1>2, <1>4 DEF IInv, RecordsInOrder
  <2> QED
    BY <1>2, <1>3, <2>1
<1> QED
  BY <1>2, <1>4

\* A record acknowledged after the offset begins a line, or its line does not parse:
\* the line it stands in has a head before it.
LEMMA AckedBeginsLine ==
  ASSUME IInv, NEW offset \in 0 .. Len(log),
         offset = 0 \/ log[offset].part = "newline",
         ReadFrom(offset).ok,
         NEW i \in DOMAIN acked, acked[i].end > offset
  PROVE  acked[i].end - 2 \in LineStarts(offset)
<1> DEFINE p == acked[i].end - 2
           starts == {x \in LineStarts(offset) : x <= p}
<1>1. /\ Len(log) \in Nat /\ DOMAIN log = 1 .. Len(log) /\ log \in Seq(Chunks)
      /\ offset \in Nat
  BY TypedFacts, LenProperties DEF IInv, FilesInv
<1>2. /\ p \in Nat /\ p >= 1 /\ p + 2 <= Len(log) /\ p + 2 > offset
      /\ log[p].part = "head" /\ log[p + 1].part = "body" /\ log[p + 2].part = "newline"
  <2>1. /\ acked[i].end \in Nat /\ acked[i].end >= 3 /\ acked[i].end <= Len(log)
        /\ log[p].part = "head" /\ log[acked[i].end - 1].part = "body"
        /\ log[acked[i].end].part = "newline"
    <3>1. EndsLine(acked[i].of, acked[i].end)
      BY AckedLine
    <3> QED
      BY <3>1 DEF EndsLine
  <2>2. p + 1 = acked[i].end - 1 /\ p + 2 = acked[i].end /\ p \in Nat /\ p >= 1
    BY <2>1, SMT
  <2> HIDE DEF p
  <2> QED
    BY <2>1, <2>2
<1> HIDE DEF p
<1>3. p > offset
  <2>1. offset # p /\ offset # p + 1
    BY <1>2
  <2> QED
    BY <1>1, <1>2, <2>1, SMT
<1>4. PICK q \in starts : \A x \in starts : x <= q
  <2>1. offset + 1 \in LineStarts(offset) /\ offset + 1 <= p
    BY <1>1, <1>2, <1>3, SMT DEF LineStarts
  <2>2. starts \in SUBSET (0 .. p) /\ starts # {}
    <3>1. \A x \in LineStarts(offset) : x \in Nat
      BY <1>1, SMT DEF LineStarts
    <3>2. \A x \in Nat : x <= p => x \in 0 .. p
      BY <1>2, SMT
    <3> QED
      BY <2>1, <3>1, <3>2
  <2> HIDE DEF starts
  <2> QED
    BY <1>2, <2>2, LargestBelow
<1>5. q \in Nat /\ q > offset /\ q <= p /\ log[q].part = "head" /\ q \in LineStarts(offset)
  <2>1. q \in LineStarts(offset) /\ q <= p
    BY <1>4
  <2>2. q \in DOMAIN log /\ q > offset /\ log[q].part = "head"
    BY <2>1, LinesBeginRecords
  <2> QED
    BY <1>1, <2>1, <2>2
<1>6. ASSUME NEW m \in q .. p PROVE log[m].part # "newline"
  <2>1. CASE m = p
    BY <1>2, <2>1
  <2>2. CASE m # p
    <3>1. /\ m + 1 \in offset + 1 .. Len(log) /\ m + 1 <= p /\ ~(m + 1 <= q)
          /\ (m + 1) - 1 = m
      BY <1>1, <1>2, <1>5, <2>2, SMT
    <3>2. m + 1 \notin LineStarts(offset)
      BY <1>4, <3>1
    <3> QED
      BY <3>1, <3>2 DEF LineStarts
  <2> QED
    BY <2>1, <2>2
<1>7. /\ LineEnd(q) \in q .. Len(log)
      /\ LineEnd(q) = Len(log) \/ log[LineEnd(q) + 1].part = "newline"
  <2>1. p + 1 \in q .. Len(log)
    BY <1>1, <1>2, <1>5, SMT
  <2>2. log[(p + 1) + 1].part = "newline"
    <3>1. (p + 1) + 1 = p + 2
      BY <1>2, SMT
    <3> QED
      BY <1>2, <3>1
  <2>3. \A m \in q .. p + 1 : log[m].part # "newline"
    <3>1. \A m \in q .. p + 1 : m \in q .. p \/ m = p + 1
      BY <1>2, <1>5, SMT
    <3> QED
      BY <1>2, <1>6, <3>1
  <2> QED
    BY <2>1, <2>2, <2>3 DEF LineEnd
<1> DEFINE e == LineEnd(q)
<1>8. e >= p
  <2> HIDE DEF e
  <2> SUFFICES ASSUME e < p PROVE FALSE
    BY <1>1, <1>2, <1>5, <1>7, SMT DEF e
  <2>1. e \in q .. Len(log) /\ (e = Len(log) \/ log[e + 1].part = "newline")
    BY <1>7 DEF e
  <2>2. e \in q .. Len(log)
    BY <2>1
  <2>3. e \in Nat /\ e >= q
    BY <1>1, <1>5, <2>2, SMT
  <2>4. e # Len(log) /\ e + 1 \in q .. p
    <3>1. p \in Nat /\ p + 2 <= Len(log) /\ Len(log) \in Nat /\ q \in Nat
      BY <1>1, <1>2, <1>5
    <3> QED
      BY <2>3, <3>1, SMT
  <2> QED
    BY <1>6, <2>1, <2>4
<1>9. PICK n \in 1 .. appends : SubSeq(log, q, e) = Json(n)
  BY <1>5 DEF ReadFrom, Parses
<1>10. /\ Len(SubSeq(log, q, e)) = e - q + 1
       /\ \A c \in 1 .. e - q + 1 : SubSeq(log, q, e)[c] = log[q + c - 1]
  <2>1. e \in Int /\ q \in Int /\ q <= e /\ \A c \in q .. e : c \in DOMAIN log
    <3> HIDE DEF e
    <3> QED
      BY <1>1, <1>5, <1>7, SMT DEF e
  <2>2. \A c \in q .. e : log[c] \in Chunks
    BY <1>1, <2>1, ElementOfSeq
  <2> HIDE DEF e
  <2> QED
    BY <2>1, <2>2, SubSeqProperties
<1>11. Len(Json(n)) = 2 /\ Json(n)[2].part = "body"
  BY DEF Json
<1>12. e - q + 1 = 2 /\ log[q + 2 - 1].part = "body"
  <2>1. e - q + 1 = 2
    BY <1>9, <1>10, <1>11
  <2>2. 2 \in 1 .. e - q + 1
    BY <2>1
  <2> QED
    BY <1>9, <1>10, <1>11, <2>1, <2>2
<1>13. q = p
  <2>1. e \in Nat
    BY <1>1, <1>5, <1>7, SMT
  <2> HIDE DEF e
  <2>2. p = q \/ p = q + 2 - 1
    BY <1>2, <1>5, <1>8, <1>12, <2>1, SMT
  <2> QED
    BY <1>2, <1>12, <2>2
<1> QED
  BY <1>5, <1>13 DEF p

\* What a read returns that reports no error, wherever it resumes.
LEMMA LossIsReported ==
  ASSUME IInv
  PROVE  LossIsLoud
<1> SUFFICES ASSUME NEW from \in 0 .. Len(acked)
             PROVE  LET offset == IF from = 0 THEN 0 ELSE acked[from].end
                        got    == ReadFrom(offset)
                    IN  got.ok =>
                          /\ Rising(got.records)
                          /\ \A i \in DOMAIN acked : Holds(got.records, acked[i].of) <=> i > from
  BY DEF LossIsLoud
<1> DEFINE offset == IF from = 0 THEN 0 ELSE acked[from].end
           records == ReadFrom(offset).records
<1> SUFFICES ASSUME ReadFrom(offset).ok
             PROVE  /\ Rising(records)
                    /\ \A i \in DOMAIN acked : Holds(records, acked[i].of) <=> i > from
  OBVIOUS
<1>1. /\ Len(acked) \in Nat /\ DOMAIN acked = 1 .. Len(acked) /\ Len(log) \in Nat
      /\ DOMAIN log = 1 .. Len(log)
      /\ \A i \in DOMAIN acked : acked[i].of \in Nat /\ acked[i].end \in Nat
  BY TypedFacts, LenProperties, SMT DEF IInv, FilesInv
<1>2. from # 0 => from \in DOMAIN acked
  BY <1>1, SMT
<1>3. offset \in 0 .. Len(log) /\ (offset = 0 \/ log[offset].part = "newline")
  <2>1. CASE from = 0
    BY <1>1, <2>1, SMT
  <2>2. CASE from # 0
    <3>1. /\ acked[from].end \in Nat /\ acked[from].end <= Len(log)
          /\ log[acked[from].end].part = "newline"
      <4>1. EndsLine(acked[from].of, acked[from].end)
        BY <1>2, <2>2, AckedLine
      <4> QED
        BY <4>1 DEF EndsLine
    <3>2. acked[from].end \in 0 .. Len(log)
      BY <1>1, <3>1, SMT
    <3> QED
      BY <2>2, <3>1, <3>2
  <2> QED
    BY <2>1, <2>2
<1>4. records = [i \in LineStarts(offset) |-> log[i].of]
  BY DEF ReadFrom
<1>5. \A i \in LineStarts(offset) : i \in DOMAIN log /\ i > offset /\ log[i].part = "head"
  <2> HIDE DEF offset
  <2> QED
    BY <1>3, LinesBeginRecords
<1>6. Rising(records)
  <2> HIDE DEF offset, records
  <2> QED
    BY <1>4, <1>5 DEF Rising, IInv, RecordsInOrder
<1>7. ASSUME NEW i \in DOMAIN acked, i > from
      PROVE  Holds(records, acked[i].of)
  <2>1. acked[i].end > offset
    <3>1. CASE from = 0
      <4>1. EndsLine(acked[i].of, acked[i].end)
        BY AckedLine
      <4>2. acked[i].end > 0
        BY <4>1, SMT DEF EndsLine
      <4> QED
        BY <3>1, <4>2
    <3>2. CASE from # 0
      <4>1. acked[from].end < acked[i].end
        BY <1>2, <1>7, <3>2, SMT DEF IInv, FilesInv, AckedInPlace
      <4> QED
        BY <1>1, <1>2, <3>2, <4>1, SMT
    <3> QED
      BY <3>1, <3>2
  <2> HIDE DEF offset
  <2>2. acked[i].end - 2 \in LineStarts(offset)
    BY <1>3, <2>1, AckedBeginsLine DEF offset
  <2>3. log[acked[i].end - 2].of = acked[i].of
    <3>1. EndsLine(acked[i].of, acked[i].end)
      BY AckedLine
    <3> QED
      BY <3>1 DEF EndsLine
  <2> HIDE DEF records
  <2> QED
    BY <1>4, <2>2, <2>3 DEF Holds
<1>8. ASSUME NEW i \in DOMAIN acked, ~(i > from), Holds(records, acked[i].of)
      PROVE  FALSE
  <2>1. from # 0 /\ from \in DOMAIN acked /\ i \in Nat /\ from \in Nat /\ i <= from
    BY <1>1, <1>2, <1>8, SMT
  <2>2. PICK m \in LineStarts(offset) : log[m].of = acked[i].of
    <3> HIDE DEF offset, records
    <3> QED
      BY <1>4, <1>8 DEF Holds
  <2>3. m \in DOMAIN log /\ m > acked[from].end /\ log[m].part = "head"
    BY <1>5, <2>1, <2>2
  <2>4. /\ log[acked[from].end - 2] = [of |-> acked[from].of, part |-> "head"]
        /\ acked[from].end >= 3 /\ acked[from].end <= Len(log) /\ acked[from].end \in Nat
    BY <2>1, AckedLine DEF EndsLine
  <2>5. acked[from].end - 2 \in DOMAIN log /\ acked[from].end - 2 < m
    BY <1>1, <2>3, <2>4, SMT
  <2>6. acked[from].of < log[m].of
    BY <2>3, <2>4, <2>5 DEF IInv, RecordsInOrder
  <2>7. acked[i].of <= acked[from].of
    <3>1. CASE i = from
      BY <1>1, <3>1, SMT
    <3>2. CASE i # from
      <4>1. acked[i].of < acked[from].of
        BY <2>1, <3>2, SMT DEF IInv, FilesInv, AckedInPlace
      <4> QED
        BY <1>1, <2>1, <4>1, SMT
    <3> QED
      BY <3>1, <3>2
  <2> QED
    BY <1>1, <2>1, <2>2, <2>6, <2>7, SMT
<1> QED
  BY <1>6, <1>7, <1>8

-----------------------------------------------------------------------------

\* The inductive invariant of both files: whatever is killed, full or without power,
\* acknowledged lines stay in place and paths name whole values. (cursor.rs,
\* snapshot.rs)
THEOREM InductiveInvariant == Spec => []IInv
<1>1. Init => IInv
  BY InitHolds DEF Init, IInv, RecordsInOrder
<1>2. IInv /\ [Next]_vars => IInv'
  BY FilesStep, OrderStep DEF IInv
<1> QED
  BY <1>1, <1>2, PTL DEF Spec

\* Every state of the two files is well typed. (cursor.rs, snapshot.rs)
THEOREM TypeCorrect == Spec => []TypeOK
<1>1. IInv => TypeOK
  BY DEF IInv, FilesInv
<1> QED
  BY <1>1, InductiveInvariant, PTL

\* The line of an append that returned Ok is on disk where append put it, and stays
\* there. (CursorFile::append)
THEOREM AcknowledgedStays == Spec => []AckedInPlace
<1>1. IInv => AckedInPlace
  BY DEF IInv, FilesInv
<1> QED
  BY <1>1, InductiveInvariant, PTL

\* A reader of a snapshot sees a whole value or none. (SnapshotFile::write, read)
THEOREM SnapshotsWhole == Spec => []SnapshotIsWhole
<1>1. IInv => SnapshotIsWhole
  BY DEF IInv, FilesInv, WholeValues, SnapshotIsWhole, Readable
<1> QED
  BY <1>1, InductiveInvariant, PTL

\* Whatever fails or crashes, a read reports an error or returns, in the order of
\* their appends, every record acknowledged after its offset and none before, for any
\* number of appends. (CursorFile::append, read_from)
THEOREM LossesAreLoud == Spec => []LossIsLoud
  BY LossIsReported, InductiveInvariant, PTL

=============================================================================
