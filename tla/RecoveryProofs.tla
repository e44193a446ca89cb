---------------------------- MODULE RecoveryProofs ----------------------------
(***************************************************************************)
(* Proofs about Backups and Recovery, for any policies, limits, sessions   *)
(* and clients, and for one storage process.                               *)
(***************************************************************************)
EXTENDS Recovery, OrderLemmas, SequenceTheorems, TLAPS

-----------------------------------------------------------------------------
(* The backup side.                                                        *)

\* The orchestrator's lane: one storage command at a time.
OneProcess == \A p, q \in Procs : p = q

Rows == 1..Len(catalog)

\* Backups are catalogued in the order in which they began.
Ordered ==
    /\ \A i \in Rows : /\ 1 <= catalog[i].walStart
                       /\ catalog[i].walStart <= catalog[i].lsn
                       /\ catalog[i].lsn <= lsn
    /\ \A i, j \in Rows : i <= j => catalog[i].walStart <= catalog[j].walStart

\* The log has a record, and the last archived segment is in the archive.
ArchiveTip == lsn > 0 /\ (shipped > 0 => shipped \in archive)

\* A backup under way: none before it began later, and the archive has had
\* every segment since.
Running(p) ==
    /\ 1 <= mem[p].start /\ mem[p].start <= lsn
    /\ \A i \in Rows : catalog[i].walStart <= mem[p].start
    /\ cfg.archive => mem[p].start..shipped \subseteq archive

\* A retention run: it marks live backups only, and no other live backup needs
\* a segment below its floor.
Retaining(p) ==
    /\ mem[p].todo \subseteq Live
    /\ \A i \in Live \ mem[p].todo : mem[p].floor <= catalog[i].walStart
    /\ mem[p].floor = 0 \/ \E i \in Live \ mem[p].todo : mem[p].floor = catalog[i].walStart

Holding(p) ==
    /\ pc[p] \in {"copy", "seal"} => Running(p)
    /\ pc[p] = "seal" => mem[p].start <= mem[p].end /\ mem[p].end <= lsn
    /\ pc[p] \in {"remove", "mark", "clean"} => Retaining(p)
    /\ pc[p] \in {"remove", "mark"} => mem[p].todo # {}
    /\ pc[p] = "clean" => mem[p].todo = {}

BackupInv ==
    /\ TypeOK
    /\ Ordered
    /\ ArchiveTip
    /\ ChainUnbroken
    /\ \A p \in Procs : Holding(p)

(* The least of a set of numbers, and what is known of a catalogue. *)
LEMMA MinLeast ==
    ASSUME NEW S \in SUBSET Nat, S # {}
    PROVE  MinOf(S) \in S /\ \A y \in S : MinOf(S) <= y
BY ChosenLeast DEF MinOf

LEMMA SeqOfFunction ==
    ASSUME NEW T, NEW n \in Nat, NEW f \in [1..n -> T]
    PROVE  f \in Seq(T) /\ Len(f) = n
<1>1. f \in Seq(T)
  BY SeqDef
<1>2. Len(f) \in Nat /\ DOMAIN f = 1..Len(f)
  BY <1>1, LenProperties
<1>3. 1..Len(f) = 1..n
  BY <1>2
<1> QED
  BY <1>1, <1>2, <1>3

LEMMA CatalogTypes ==
    ASSUME TypeOK
    PROVE  /\ Len(catalog) \in Nat
           /\ \A i \in Rows :
                /\ catalog[i] \in Row
                /\ catalog[i].name \in Nat /\ catalog[i].lsn \in Nat
                /\ catalog[i].walStart \in Nat /\ catalog[i].created \in Nat
                /\ catalog[i].pruned \in BOOLEAN
           /\ Live \subseteq Rows /\ Live \in SUBSET Nat
<1>1. Len(catalog) \in Nat /\ \A i \in Rows : catalog[i] \in Row
  BY DEF TypeOK, Rows
<1>2. \A r \in Row : r.name \in Nat /\ r.lsn \in Nat /\ r.walStart \in Nat
                     /\ r.created \in Nat /\ r.pruned \in BOOLEAN
  BY DEF Row
<1>3. Live \subseteq Rows
  BY DEF Live, Rows
<1> QED
  BY <1>1, <1>2, <1>3 DEF Rows

LEMMA HeldTypes ==
    ASSUME NEW m \in Held
    PROVE  /\ m.name \in Nat /\ m.start \in Nat /\ m.end \in Nat /\ m.target \in Nat
           /\ m.cycle \in BOOLEAN /\ m.todo \in SUBSET Nat /\ m.floor \in Nat
BY DEF Held

LEMMA NothingHeld == Nothing \in Held
BY DEF Nothing, Held

LEMMA HeldProbe ==
    ASSUME NEW t \in Nat, NEW c \in BOOLEAN
    PROVE  [Nothing EXCEPT !.target = t, !.cycle = c] \in Held
BY DEF Nothing, Held

LEMMA HeldBegin ==
    ASSUME NEW m \in Held, NEW n \in Nat, NEW s \in Nat
    PROVE  LET h == [m EXCEPT !.name = n, !.start = s]
           IN  h \in Held /\ h.start = s /\ h.name = n
BY DEF Held

LEMMA HeldEnd ==
    ASSUME NEW m \in Held, NEW e \in Nat
    PROVE  LET h == [m EXCEPT !.end = e]
           IN  h \in Held /\ h.end = e /\ h.start = m.start
BY DEF Held

LEMMA HeldList ==
    ASSUME NEW T \in SUBSET Nat, NEW f \in Nat
    PROVE  LET h == [Nothing EXCEPT !.todo = T, !.floor = f]
           IN  h \in Held /\ h.todo = T /\ h.floor = f
BY DEF Nothing, Held

LEMMA HeldTodo ==
    ASSUME NEW m \in Held, NEW T \in SUBSET Nat
    PROVE  LET h == [m EXCEPT !.todo = T]
           IN  h \in Held /\ h.todo = T /\ h.floor = m.floor
BY DEF Held

Labels == {"idle", "decide", "probe", "copy", "seal", "list", "remove", "mark", "clean"}

(* A step of the only process leaves what Goto says. *)
LEMMA GotoTypes ==
    ASSUME TypeOK, OneProcess, NEW p \in Procs, NEW label \in Labels, NEW held \in Held,
           Goto(p, label, held)
    PROVE  /\ pc' \in [Procs -> Labels] /\ mem' \in [Procs -> Held]
           /\ pc'[p] = label /\ mem'[p] = held
           /\ \A q \in Procs : pc'[q] = label /\ mem'[q] = held
<1>1. pc \in [Procs -> Labels] /\ mem \in [Procs -> Held]
  BY DEF TypeOK, Labels
<1>2. pc' = [pc EXCEPT ![p] = label] /\ mem' = [mem EXCEPT ![p] = held]
  BY DEF Goto
<1>3. pc' \in [Procs -> Labels] /\ mem' \in [Procs -> Held] /\ pc'[p] = label /\ mem'[p] = held
  BY <1>1, <1>2
<1>4. \A q \in Procs : q = p
  BY DEF OneProcess
<1> QED
  BY <1>3, <1>4

(* A switch of the log completes its last segment or nothing. *)
LEMMA SwitchTypes ==
    ASSUME TypeOK, NEW t, Switch(t)
    PROVE  closed' \in 0..lsn /\ shipped \in 0..closed'
BY DEF TypeOK, Switch

(* A process that goes idle, or to a label without obligations, keeps the
   invariant when the log only grows and the catalogue and archive stand. *)
LEMMA QuietGoto ==
    ASSUME BackupInv, OneProcess, NEW p \in Procs,
           NEW label \in {"idle", "decide", "probe", "list"}, NEW held \in Held,
           Goto(p, label, held),
           UNCHANGED <<cfg, lsn, shipped, archive, catalog>>,
           closed' \in 0..lsn, shipped \in 0..closed',
           dirs' \subseteq Nat, made' \in Nat, crashes' \in Nat
    PROVE  BackupInv'
<1> USE DEF BackupInv
<1>1. label \in Labels
  BY DEF Labels
<1>2. /\ pc' \in [Procs -> Labels] /\ mem' \in [Procs -> Held]
      /\ \A q \in Procs : pc'[q] = label /\ mem'[q] = held
  BY <1>1, GotoTypes
<1>3. TypeOK'
  BY <1>2 DEF TypeOK, Labels
<1>4. Ordered' /\ ArchiveTip' /\ ChainUnbroken'
  BY DEF Ordered, ArchiveTip, ChainUnbroken, Rows, Live
<1>5. \A q \in Procs : Holding(q)'
  BY <1>2 DEF Holding
<1> QED
  BY <1>3, <1>4, <1>5

LEMMA WriteKeeps ==
    ASSUME BackupInv, Write
    PROVE  BackupInv'
<1>1. /\ lsn' = lsn + 1 /\ closed' = lsn
      /\ UNCHANGED <<cfg, shipped, archive, dirs, catalog, made, pc, mem, crashes>>
  BY DEF Write
<1>2. TypeOK /\ lsn \in Nat
  BY DEF BackupInv, TypeOK
<1>3. TypeOK'
  BY <1>1, <1>2 DEF TypeOK
<1>4. Ordered'
  <2>1. \A i \in Rows : catalog[i].lsn \in Nat
    BY <1>2, CatalogTypes
  <2> QED
    BY <1>1, <1>2, <2>1 DEF BackupInv, Ordered, Rows
<1>5. ArchiveTip' /\ ChainUnbroken'
  BY <1>1, <1>2 DEF BackupInv, ArchiveTip, ChainUnbroken, Live
<1>6. ASSUME NEW p \in Procs PROVE Holding(p)'
  <2>1. mem[p] \in Held
    BY <1>2 DEF TypeOK
  <2>2. mem[p].start \in Nat /\ mem[p].end \in Nat
    BY <2>1, HeldTypes
  <2>3. Holding(p)
    BY DEF BackupInv
  <2>4. Running(p) => Running(p)'
    BY <1>1, <1>2, <2>2 DEF Running, Rows
  <2>5. Retaining(p) => Retaining(p)'
    BY <1>1 DEF Retaining, Live
  <2>6. pc'[p] = pc[p] /\ mem'[p] = mem[p]
    BY <1>1
  <2> QED
    BY <1>1, <1>2, <2>2, <2>3, <2>4, <2>5, <2>6 DEF Holding
<1> QED
  BY <1>3, <1>4, <1>5, <1>6 DEF BackupInv

LEMMA ArchiveSegmentKeeps ==
    ASSUME BackupInv, ArchiveSegment
    PROVE  BackupInv'
<1>1. /\ shipped < closed /\ shipped' = shipped + 1
      /\ archive' = archive \cup {shipped + 1}
      /\ UNCHANGED <<cfg, lsn, closed, dirs, catalog, made, pc, mem, crashes>>
  BY DEF ArchiveSegment
<1>2. TypeOK /\ lsn \in Nat /\ closed \in 0..lsn /\ shipped \in 0..closed /\ archive \subseteq 1..shipped
  BY DEF BackupInv, TypeOK
<1>3. TypeOK'
  BY <1>1, <1>2 DEF TypeOK
<1>4. Ordered'
  BY <1>1 DEF BackupInv, Ordered, Rows
<1>5. ArchiveTip'
  BY <1>1 DEF BackupInv, ArchiveTip
<1>6. \A s \in Nat : s..shipped \subseteq archive => s..shipped' \subseteq archive'
  BY <1>1, <1>2
<1>7. ChainUnbroken'
  <2> SUFFICES ASSUME cfg.archive, NEW i \in Live
               PROVE  /\ catalog[i].lsn <= shipped'
                      /\ catalog[i].walStart..shipped' \subseteq archive'
    BY <1>1 DEF ChainUnbroken, Live
  <2>1. catalog[i].lsn <= shipped /\ catalog[i].walStart..shipped \subseteq archive
    BY DEF BackupInv, ChainUnbroken
  <2>2. catalog[i].lsn \in Nat /\ catalog[i].walStart \in Nat
    BY <1>2, CatalogTypes
  <2> QED
    BY <1>1, <1>2, <1>6, <2>1, <2>2
<1>8. ASSUME NEW p \in Procs PROVE Holding(p)'
  <2>1. mem[p] \in Held
    BY <1>2 DEF TypeOK
  <2>2. mem[p].start \in Nat
    BY <2>1, HeldTypes
  <2>3. Running(p) => Running(p)'
    BY <1>1, <1>6, <2>2 DEF Running, Rows
  <2>4. Retaining(p) => Retaining(p)'
    BY <1>1 DEF Retaining, Live
  <2>5. Holding(p)
    BY DEF BackupInv
  <2> QED
    BY <1>1, <2>3, <2>4, <2>5 DEF Holding
<1> QED
  BY <1>3, <1>4, <1>5, <1>7, <1>8 DEF BackupInv

LEMMA QuietStepKeeps ==
    ASSUME BackupInv, OneProcess, NEW p \in Procs,
           \/ Decide(p) \/ StartSnapshot(p) \/ ProbeFails(p) \/ DiscardBackup(p) \/ Crash(p)
           \/ \E t : StartCycle(p, t)
    PROVE  BackupInv'
<1>1. TypeOK /\ mem[p] \in Held /\ lsn \in Nat /\ crashes \in Nat /\ made \in Nat /\ dirs \subseteq Nat
      /\ closed \in 0..lsn /\ shipped \in 0..closed
  BY DEF BackupInv, TypeOK
<1>2. ASSUME NEW c \in BOOLEAN, Probe(p, c),
             UNCHANGED <<cfg, lsn, shipped, archive, dirs, catalog, made, crashes>>
      PROVE  BackupInv'
  <2> DEFINE h == [Nothing EXCEPT !.target = lsn, !.cycle = c]
  <2>1. h \in Held
    BY <1>1, HeldProbe
  <2>2. Goto(p, "probe", h) /\ Switch(lsn)
    BY <1>2 DEF Probe
  <2> HIDE DEF h
  <2>3. closed' \in 0..lsn /\ shipped \in 0..closed'
    BY <1>1, <2>2, SwitchTypes
  <2> QED
    BY <1>1, <1>2, <2>1, <2>2, <2>3, QuietGoto
<1>3. CASE Decide(p)
  <2>1. CASE Probe(p, TRUE)
    BY <1>2, <1>3, <2>1 DEF Decide
  <2>2. CASE Goto(p, "idle", Nothing) /\ UNCHANGED closed
    BY <1>1, <1>3, <2>2, QuietGoto, NothingHeld DEF Decide
  <2> QED
    BY <1>3, <2>1, <2>2 DEF Decide
<1>4. CASE StartSnapshot(p)
  BY <1>2, <1>4 DEF StartSnapshot
<1>5. CASE ProbeFails(p)
  BY <1>1, <1>5, QuietGoto, NothingHeld DEF ProbeFails, wal
<1>6. CASE DiscardBackup(p)
  <2>1. dirs' \subseteq Nat
    BY <1>1, <1>6 DEF DiscardBackup
  <2> QED
    BY <1>1, <1>6, <2>1, QuietGoto, NothingHeld DEF DiscardBackup, wal
<1>7. CASE Crash(p)
  <2>1. crashes' \in Nat
    BY <1>1, <1>7 DEF Crash
  <2> QED
    BY <1>1, <1>7, <2>1, QuietGoto, NothingHeld DEF Crash, wal
<1>8. CASE \E t : StartCycle(p, t)
  <2>1. PICK t : StartCycle(p, t)
    BY <1>8
  <2>2. closed' \in 0..lsn /\ shipped \in 0..closed'
    BY <1>1, <2>1, SwitchTypes DEF StartCycle
  <2> QED
    BY <1>1, <2>1, <2>2, QuietGoto, NothingHeld DEF StartCycle
<1> QED
  BY <1>3, <1>4, <1>5, <1>6, <1>7, <1>8

LEMMA BeginBackupKeeps ==
    ASSUME BackupInv, OneProcess, NEW p \in Procs, BeginBackup(p)
    PROVE  BackupInv'
<1> DEFINE h == [mem[p] EXCEPT !.name = made + 1, !.start = lsn]
<1>1. TypeOK /\ mem[p] \in Held /\ lsn \in Nat /\ made \in Nat /\ dirs \subseteq Nat
      /\ closed \in 0..lsn /\ shipped \in 0..closed /\ archive \subseteq 1..shipped
  BY DEF BackupInv, TypeOK
<1>2. h \in Held /\ h.start = lsn
  <2>1. made + 1 \in Nat
    BY <1>1
  <2> QED
    BY <1>1, <2>1 DEF Held
<1>3. /\ Goto(p, "copy", h) /\ made' = made + 1 /\ dirs' = dirs \cup {made + 1}
      /\ UNCHANGED <<cfg, lsn, closed, shipped, archive, catalog, crashes>>
  BY DEF BeginBackup, wal
<1> HIDE DEF h
<1>4. /\ pc' \in [Procs -> Labels] /\ mem' \in [Procs -> Held]
      /\ \A q \in Procs : pc'[q] = "copy" /\ mem'[q] = h
  BY <1>1, <1>2, <1>3, GotoTypes DEF Labels
<1>5. TypeOK'
  BY <1>1, <1>3, <1>4 DEF TypeOK, Labels
<1>6. Ordered' /\ ArchiveTip' /\ ChainUnbroken'
  BY <1>3 DEF BackupInv, Ordered, ArchiveTip, ChainUnbroken, Rows, Live
<1>7. ASSUME NEW q \in Procs PROVE Running(q)'
  <2>1. \A i \in Rows : catalog[i].walStart <= lsn
    <3>1. \A i \in Rows : catalog[i].walStart \in Nat /\ catalog[i].lsn \in Nat
      BY <1>1, CatalogTypes
    <3> QED
      BY <1>1, <3>1 DEF BackupInv, Ordered
  <2>2. lsn..shipped \subseteq archive
    <3>1. lsn > 0 /\ (shipped > 0 => shipped \in archive)
      BY DEF BackupInv, ArchiveTip
    <3>2. \A x \in lsn..shipped : x = shipped /\ x = lsn
      BY <1>1
    <3> QED
      BY <1>1, <3>1, <3>2
  <2>3. mem'[q].start = lsn
    BY <1>2, <1>4
  <2> QED
    BY <1>1, <1>3, <2>1, <2>2, <2>3 DEF Running, Rows
<1>8. \A q \in Procs : Holding(q)'
  BY <1>4, <1>7 DEF Holding
<1> QED
  BY <1>5, <1>6, <1>8 DEF BackupInv

LEMMA EndBackupKeeps ==
    ASSUME BackupInv, OneProcess, NEW p \in Procs, EndBackup(p)
    PROVE  BackupInv'
<1> DEFINE h == [mem[p] EXCEPT !.end = lsn]
<1>1. TypeOK /\ mem[p] \in Held /\ lsn \in Nat /\ closed \in 0..lsn /\ shipped \in 0..closed
  BY DEF BackupInv, TypeOK
<1>2. h \in Held /\ h.start = mem[p].start /\ h.end = lsn
  BY <1>1, HeldEnd
<1>3. /\ pc[p] = "copy" /\ Goto(p, "seal", h) /\ closed' = lsn
      /\ UNCHANGED <<cfg, lsn, shipped, archive, dirs, catalog, made, crashes>>
  BY DEF EndBackup
<1> HIDE DEF h
<1>4. /\ pc' \in [Procs -> Labels] /\ mem' \in [Procs -> Held]
      /\ \A q \in Procs : pc'[q] = "seal" /\ mem'[q] = h
  BY <1>1, <1>2, <1>3, GotoTypes DEF Labels
<1>5. TypeOK'
  BY <1>1, <1>3, <1>4 DEF TypeOK, Labels
<1>6. Ordered' /\ ArchiveTip' /\ ChainUnbroken'
  BY <1>3 DEF BackupInv, Ordered, ArchiveTip, ChainUnbroken, Rows, Live
<1>7. Running(p)
  BY <1>3 DEF BackupInv, Holding
<1>8. \A q \in Procs : Running(q)' /\ mem'[q].start <= mem'[q].end /\ mem'[q].end <= lsn'
  BY <1>1, <1>2, <1>3, <1>4, <1>7 DEF Running, Rows
<1>9. \A q \in Procs : Holding(q)'
  BY <1>4, <1>8 DEF Holding
<1> QED
  BY <1>5, <1>6, <1>9 DEF BackupInv

(* The row that a backup adds to the catalogue. *)
NewRow(p) == [name |-> mem[p].name, lsn |-> mem[p].end, walStart |-> mem[p].start,
              created |-> lsn, pruned |-> FALSE]

LEMMA RecordBackupKeeps ==
    ASSUME BackupInv, OneProcess, NEW p \in Procs, RecordBackup(p)
    PROVE  BackupInv'
<1> DEFINE n == Len(catalog) + 1
           r == NewRow(p)
<1>1. TypeOK /\ mem[p] \in Held /\ lsn \in Nat /\ closed \in 0..lsn /\ shipped \in 0..closed
      /\ catalog \in Seq(Row) /\ archive \subseteq 1..shipped
  BY DEF BackupInv, TypeOK
<1>2. mem[p].name \in Nat /\ mem[p].start \in Nat /\ mem[p].end \in Nat
  BY <1>1, HeldTypes
<1>3. r \in Row /\ r.lsn = mem[p].end /\ r.walStart = mem[p].start /\ r.pruned = FALSE
  BY <1>1, <1>2 DEF NewRow, Row
<1>4. /\ pc[p] = "seal" /\ Archived(mem[p].end)
      /\ catalog' = Append(catalog, r)
      /\ Goto(p, "list", Nothing) \/ Goto(p, "idle", Nothing)
      /\ UNCHANGED <<cfg, lsn, closed, shipped, archive, dirs, made, crashes>>
  BY DEF RecordBackup, NewRow, wal
<1> HIDE DEF r
<1>5. /\ pc' \in [Procs -> Labels] /\ mem' \in [Procs -> Held]
      /\ \A q \in Procs : pc'[q] \in {"list", "idle"}
  BY <1>1, <1>4, GotoTypes, NothingHeld DEF Labels
<1>6. /\ Len(catalog) \in Nat /\ Len(catalog') = n /\ catalog' \in Seq(Row)
      /\ \A i \in Rows : catalog'[i] = catalog[i]
      /\ catalog'[n] = r
  BY <1>1, <1>3, <1>4, AppendProperties DEF Rows
<1>7. TypeOK'
  BY <1>1, <1>4, <1>5, <1>6 DEF TypeOK, Labels
<1>8. Running(p) /\ mem[p].start <= mem[p].end /\ mem[p].end <= lsn
  BY <1>4 DEF BackupInv, Holding
<1>9. \A i \in Rows' : i \in Rows \/ i = n
  BY <1>6 DEF Rows
<1>10. Ordered'
  <2>1. ASSUME NEW i \in Rows'
        PROVE  /\ 1 <= catalog'[i].walStart
               /\ catalog'[i].walStart <= catalog'[i].lsn
               /\ catalog'[i].lsn <= lsn'
    <3>1. CASE i \in Rows
      BY <1>4, <1>6, <3>1 DEF BackupInv, Ordered
    <3>2. CASE i = n
      BY <1>3, <1>4, <1>6, <1>8, <3>2 DEF Running
    <3> QED
      BY <1>9, <3>1, <3>2
  <2>2. ASSUME NEW i \in Rows', NEW j \in Rows', i <= j
        PROVE  catalog'[i].walStart <= catalog'[j].walStart
    <3>1. CASE j \in Rows
      <4>1. i \in Rows
        BY <2>2, <3>1, <1>6 DEF Rows
      <4> QED
        BY <2>2, <3>1, <4>1, <1>6 DEF BackupInv, Ordered
    <3>2. CASE j = n /\ i \in Rows
      BY <3>2, <1>3, <1>6, <1>8 DEF Running
    <3>3. CASE j = n /\ i = n
      BY <3>3, <1>2, <1>3, <1>6
    <3> QED
      BY <1>9, <3>1, <3>2, <3>3
  <2> QED
    BY <2>1, <2>2 DEF Ordered
<1>11. ArchiveTip'
  BY <1>4 DEF BackupInv, ArchiveTip
<1>12. ChainUnbroken'
  <2> SUFFICES ASSUME cfg.archive, NEW i \in Live'
               PROVE  /\ catalog'[i].lsn <= shipped
                      /\ catalog'[i].walStart..shipped \subseteq archive
    BY <1>4 DEF ChainUnbroken
  <2>1. i \in Rows'
    BY DEF Live, Rows
  <2>2. CASE i \in Rows
    <3>1. i \in Live
      BY <1>6, <2>2 DEF Live, Rows
    <3> QED
      BY <1>6, <2>2, <3>1 DEF BackupInv, ChainUnbroken
  <2>3. CASE i = n
    <3>1. mem[p].end <= shipped
      BY <1>1, <1>2, <1>4 DEF Archived
    <3> QED
      BY <1>3, <1>6, <1>8, <2>3, <3>1 DEF Running
  <2> QED
    BY <1>9, <2>1, <2>2, <2>3
<1>13. \A q \in Procs : Holding(q)'
  BY <1>5 DEF Holding
<1> QED
  BY <1>7, <1>10, <1>11, <1>12, <1>13 DEF BackupInv

(* Retention takes its choice from the backups it is given. *)
LEMMA PrunableSubset ==
    ASSUME NEW S, NEW now
    PROVE  Prunable(S, now) \subseteq S
BY DEF Prunable, Expired, Surplus

LEMMA ListBackupsKeeps ==
    ASSUME BackupInv, OneProcess, NEW p \in Procs, ListBackups(p)
    PROVE  BackupInv'
<1> DEFINE todo == Prunable(Live, lsn)
           kept == Live \ todo
           floor == IF kept = {} THEN 0 ELSE catalog[MinOf(kept)].walStart
           label == IF todo = {} THEN "clean" ELSE "remove"
           h == [Nothing EXCEPT !.todo = todo, !.floor = floor]
<1>1. TypeOK
  BY DEF BackupInv
<1>2. todo \subseteq Live
  BY PrunableSubset
<1>3. /\ Goto(p, label, h)
      /\ UNCHANGED <<cfg, lsn, closed, shipped, archive, dirs, catalog, made, crashes>>
  BY DEF ListBackups, wal
<1>4. Live \in SUBSET Nat /\ Live \subseteq Rows /\ \A i \in Rows : catalog[i].walStart \in Nat
  BY <1>1, CatalogTypes
<1> HIDE DEF todo, h
<1>5. /\ floor \in Nat
      /\ \A i \in kept : floor <= catalog[i].walStart
      /\ floor = 0 \/ \E i \in kept : floor = catalog[i].walStart
  <2>1. CASE kept = {}
    BY <2>1
  <2>2. CASE kept # {}
    <3>1. kept \in SUBSET Nat /\ kept \subseteq Rows
      BY <1>4
    <3>2. MinOf(kept) \in kept /\ \A y \in kept : MinOf(kept) <= y
      BY <2>2, <3>1, MinLeast
    <3>3. floor = catalog[MinOf(kept)].walStart
      BY <2>2
    <3>4. \A i, j \in Rows : i <= j => catalog[i].walStart <= catalog[j].walStart
      BY DEF BackupInv, Ordered
    <3> HIDE DEF floor, kept
    <3> QED
      BY <1>4, <3>1, <3>2, <3>3, <3>4
  <2> QED
    BY <2>1, <2>2
<1>6. todo \in SUBSET Nat
  BY <1>2, <1>4
<1> HIDE DEF floor
<1>7. h \in Held /\ h.todo = todo /\ h.floor = floor
  BY <1>5, <1>6, HeldList DEF h
<1>8. label \in Labels
  BY DEF Labels
<1>9. /\ pc' \in [Procs -> Labels] /\ mem' \in [Procs -> Held]
      /\ \A q \in Procs : pc'[q] = label /\ mem'[q] = h
  BY <1>1, <1>3, <1>7, <1>8, GotoTypes
<1>10. TypeOK'
  BY <1>1, <1>3, <1>9 DEF TypeOK, Labels
<1>11. Ordered' /\ ArchiveTip' /\ ChainUnbroken'
  BY <1>3 DEF BackupInv, Ordered, ArchiveTip, ChainUnbroken, Rows, Live
<1>12. \A q \in Procs : Retaining(q)' /\ mem'[q].todo = todo
  <2>1. Live' = Live
    BY <1>3 DEF Live
  <2> QED
    BY <1>2, <1>3, <1>5, <1>7, <1>9, <2>1 DEF Retaining
<1>13. \A q \in Procs : Holding(q)'
  BY <1>9, <1>12 DEF Holding
<1> QED
  BY <1>10, <1>11, <1>13 DEF BackupInv

LEMMA RemoveDirKeeps ==
    ASSUME BackupInv, OneProcess, NEW p \in Procs, RemoveDir(p)
    PROVE  BackupInv'
<1>1. TypeOK /\ mem[p] \in Held /\ dirs \subseteq Nat
  BY DEF BackupInv, TypeOK
<1>2. /\ pc[p] = "remove" /\ Goto(p, "mark", mem[p]) /\ dirs' \subseteq dirs
      /\ UNCHANGED <<cfg, lsn, closed, shipped, archive, catalog, made, crashes>>
  BY DEF RemoveDir, wal
<1>3. /\ pc' \in [Procs -> Labels] /\ mem' \in [Procs -> Held]
      /\ \A q \in Procs : pc'[q] = "mark" /\ mem'[q] = mem[p]
  BY <1>1, <1>2, GotoTypes DEF Labels
<1>4. TypeOK'
  BY <1>1, <1>2, <1>3 DEF TypeOK, Labels
<1>5. Ordered' /\ ArchiveTip' /\ ChainUnbroken'
  BY <1>2 DEF BackupInv, Ordered, ArchiveTip, ChainUnbroken, Rows, Live
<1>6. Retaining(p) /\ mem[p].todo # {}
  BY <1>2 DEF BackupInv, Holding
<1>7. \A q \in Procs : Retaining(q)' /\ mem'[q].todo # {}
  BY <1>2, <1>3, <1>6 DEF Retaining, Live
<1>8. \A q \in Procs : Holding(q)'
  BY <1>3, <1>7 DEF Holding
<1> QED
  BY <1>4, <1>5, <1>8 DEF BackupInv

(* Marking a row leaves everything else of the catalogue. *)
LEMMA MarkedCatalog ==
    ASSUME TypeOK, NEW i \in Rows, catalog' = [catalog EXCEPT ![i].pruned = TRUE]
    PROVE  /\ catalog' \in Seq(Row) /\ Len(catalog') = Len(catalog) /\ Rows' = Rows
           /\ \A j \in Rows : /\ catalog'[j].lsn = catalog[j].lsn
                              /\ catalog'[j].walStart = catalog[j].walStart
                              /\ catalog'[j].name = catalog[j].name
                              /\ catalog'[j].created = catalog[j].created
           /\ Live' = Live \ {i}
<1> DEFINE r == [catalog[i] EXCEPT !.pruned = TRUE]
<1>1. catalog \in Seq(Row) /\ catalog[i] \in Row
  BY CatalogTypes DEF TypeOK
<1>2. /\ r \in Row /\ r.pruned = TRUE /\ r.lsn = catalog[i].lsn /\ r.walStart = catalog[i].walStart
      /\ r.name = catalog[i].name /\ r.created = catalog[i].created
  BY <1>1 DEF Row
<1>3. catalog' = [catalog EXCEPT ![i] = r]
  OBVIOUS
<1> HIDE DEF r
<1>4. /\ catalog' \in Seq(Row) /\ Len(catalog') = Len(catalog)
      /\ \A j \in Rows : catalog'[j] = IF j = i THEN r ELSE catalog[j]
  <2>1. i \in 1..Len(catalog) /\ Len(catalog) \in Nat
    BY <1>1 DEF Rows
  <2>2. catalog \in [1..Len(catalog) -> Row]
    BY <1>1
  <2>3. /\ catalog' \in [1..Len(catalog) -> Row]
        /\ \A j \in Rows : catalog'[j] = IF j = i THEN r ELSE catalog[j]
    BY <1>2, <1>3, <2>1, <2>2 DEF Rows
  <2>4. catalog' \in Seq(Row) /\ Len(catalog') = Len(catalog)
    <3> DEFINE n == Len(catalog)
               f == catalog'
    <3>1. n \in Nat /\ f \in [1..n -> Row]
      BY <2>1, <2>3
    <3> HIDE DEF n, f
    <3>2. f \in Seq(Row) /\ Len(f) = n
      BY <3>1, SeqOfFunction, Zenon
    <3> QED
      BY <3>2 DEF n, f
  <2> QED
    BY <2>3, <2>4
<1>5. Rows' = Rows
  BY <1>4 DEF Rows
<1>6. Live' = Live \ {i}
  BY <1>2, <1>4 DEF Live, Rows
<1> QED
  BY <1>2, <1>4, <1>5, <1>6

LEMMA MarkPrunedKeeps ==
    ASSUME BackupInv, OneProcess, NEW p \in Procs, MarkPruned(p)
    PROVE  BackupInv'
<1> DEFINE i == MinOf(mem[p].todo)
           rest == mem[p].todo \ {i}
           label == IF rest = {} THEN "clean" ELSE "remove"
           h == [mem[p] EXCEPT !.todo = rest]
<1>1. TypeOK /\ mem[p] \in Held /\ lsn \in Nat
  BY DEF BackupInv, TypeOK
<1>2. /\ pc[p] = "mark" /\ catalog' = [catalog EXCEPT ![i].pruned = TRUE]
      /\ Goto(p, label, h)
      /\ UNCHANGED <<cfg, lsn, closed, shipped, archive, dirs, made, crashes>>
  BY DEF MarkPruned, wal
<1>3. Retaining(p) /\ mem[p].todo # {} /\ mem[p].todo \in SUBSET Nat
  BY <1>1, <1>2, HeldTypes DEF BackupInv, Holding
<1>4. i \in mem[p].todo /\ i \in Rows
  <2>1. i \in mem[p].todo
    BY <1>3, MinLeast
  <2> QED
    BY <1>1, <1>3, <2>1, CatalogTypes DEF Retaining
<1>5. rest \in SUBSET Nat
  BY <1>3
<1> HIDE DEF i, h
<1>6. h \in Held /\ h.todo = rest /\ h.floor = mem[p].floor
  BY <1>1, <1>5, HeldTodo DEF h
<1>7. label \in Labels
  BY DEF Labels
<1>8. /\ pc' \in [Procs -> Labels] /\ mem' \in [Procs -> Held]
      /\ \A q \in Procs : pc'[q] = label /\ mem'[q] = h
  BY <1>1, <1>2, <1>6, <1>7, GotoTypes
<1>9. /\ catalog' \in Seq(Row) /\ Len(catalog') = Len(catalog) /\ Rows' = Rows
      /\ \A j \in Rows : /\ catalog'[j].lsn = catalog[j].lsn
                         /\ catalog'[j].walStart = catalog[j].walStart
      /\ Live' = Live \ {i}
  BY <1>1, <1>2, <1>4, MarkedCatalog
<1>10. TypeOK'
  BY <1>1, <1>2, <1>8, <1>9 DEF TypeOK, Labels
<1>11. Live \subseteq Rows
  BY <1>1, CatalogTypes
<1>12. Ordered'
  BY <1>2, <1>9 DEF BackupInv, Ordered
<1>13. ArchiveTip' /\ ChainUnbroken'
  BY <1>2, <1>9, <1>11 DEF BackupInv, ArchiveTip, ChainUnbroken
<1>14. \A q \in Procs : Retaining(q)' /\ mem'[q].todo = rest
  <2>1. rest \subseteq Live' /\ Live' \ rest = Live \ mem[p].todo
    BY <1>3, <1>4, <1>9 DEF Retaining
  <2>2. ASSUME NEW q \in Procs PROVE Retaining(q)'
    <3>1. mem'[q].todo = rest /\ mem'[q].floor = mem[p].floor
      BY <1>6, <1>8
    <3>2. \A j \in Live \ mem[p].todo : catalog'[j].walStart = catalog[j].walStart
      BY <1>9, <1>11
    <3> QED
      BY <1>3, <2>1, <3>1, <3>2 DEF Retaining
  <2> QED
    BY <1>6, <1>8, <2>2
<1>15. \A q \in Procs : Holding(q)'
  BY <1>8, <1>14 DEF Holding
<1> QED
  BY <1>10, <1>12, <1>13, <1>15 DEF BackupInv

LEMMA CleanArchiveKeeps ==
    ASSUME BackupInv, OneProcess, NEW p \in Procs, CleanArchive(p)
    PROVE  BackupInv'
<1> DEFINE floor == mem[p].floor
<1>1. TypeOK /\ mem[p] \in Held /\ lsn \in Nat /\ shipped \in Nat /\ archive \subseteq 1..shipped
  BY DEF BackupInv, TypeOK
<1>2. floor \in Nat
  BY <1>1, HeldTypes
<1>3. /\ pc[p] = "clean" /\ Goto(p, "idle", Nothing)
      /\ \/ archive' = archive
         \/ cfg.archive /\ archive' = {s \in archive : s >= floor}
      /\ UNCHANGED <<cfg, lsn, closed, shipped, dirs, catalog, made, crashes>>
  <2>1. /\ pc[p] = "clean" /\ Goto(p, "idle", Nothing)
        /\ UNCHANGED <<cfg, lsn, closed, shipped, dirs, catalog, made, crashes>>
    BY DEF CleanArchive, wal
  <2>2. CASE cfg.horizon > 0 /\ cfg.archive
    BY <2>1, <2>2 DEF CleanArchive
  <2>3. CASE ~(cfg.horizon > 0 /\ cfg.archive)
    BY <2>1, <2>3 DEF CleanArchive
  <2> QED
    BY <2>2, <2>3
<1>4. Retaining(p) /\ mem[p].todo = {}
  BY <1>3 DEF BackupInv, Holding
<1>5. \A i \in Live : floor <= catalog[i].walStart
  BY <1>4 DEF Retaining
<1>6. floor = 0 \/ \E i \in Live : floor = catalog[i].walStart
  BY <1>4 DEF Retaining
<1> HIDE DEF floor
<1>7. /\ pc' \in [Procs -> Labels] /\ mem' \in [Procs -> Held]
      /\ \A q \in Procs : pc'[q] = "idle"
  BY <1>1, <1>3, GotoTypes, NothingHeld DEF Labels
<1>8. archive' \subseteq archive
  BY <1>3
<1>9. TypeOK'
  BY <1>1, <1>3, <1>7, <1>8 DEF TypeOK, Labels
<1>10. Ordered'
  BY <1>3 DEF BackupInv, Ordered, Rows
<1>11. \A i \in Live : i \in Rows /\ catalog[i].walStart \in Nat /\ catalog[i].lsn \in Nat
  BY <1>1, CatalogTypes
<1>12. ArchiveTip'
  <2>1. cfg.archive => floor <= shipped
    <3>1. cfg.archive => \A i \in Live : catalog[i].lsn <= shipped
      BY DEF BackupInv, ChainUnbroken
    <3>2. \A i \in Live : catalog[i].walStart <= catalog[i].lsn
      BY <1>11 DEF BackupInv, Ordered
    <3> QED
      BY <1>1, <1>2, <1>6, <1>11, <3>1, <3>2
  <2> QED
    BY <1>1, <1>2, <1>3, <2>1 DEF BackupInv, ArchiveTip
<1>13. ChainUnbroken'
  <2> SUFFICES ASSUME cfg.archive, NEW i \in Live
               PROVE  /\ catalog[i].lsn <= shipped
                      /\ catalog[i].walStart..shipped \subseteq archive'
    BY <1>3 DEF ChainUnbroken, Live
  <2>1. catalog[i].lsn <= shipped /\ catalog[i].walStart..shipped \subseteq archive
    BY DEF BackupInv, ChainUnbroken
  <2>2. \A s \in catalog[i].walStart..shipped : s \in archive /\ s >= floor
    BY <1>1, <1>2, <1>5, <1>11, <2>1
  <2> QED
    BY <1>3, <2>1, <2>2
<1>14. \A q \in Procs : Holding(q)'
  BY <1>7 DEF Holding
<1> QED
  BY <1>9, <1>10, <1>12, <1>13, <1>14 DEF BackupInv

LEMMA BackupInvInit ==
    ASSUME Init
    PROVE  BackupInv
<1>1. TypeOK
  BY NothingHeld DEF Init, TypeOK
<1>2. Ordered /\ ChainUnbroken /\ ArchiveTip
  BY DEF Init, Ordered, ChainUnbroken, ArchiveTip, Rows, Live
<1>3. \A p \in Procs : Holding(p)
  BY DEF Init, Holding
<1> QED
  BY <1>1, <1>2, <1>3 DEF BackupInv

LEMMA StepKeeps ==
    ASSUME BackupInv, OneProcess, NEW p \in Procs, Step(p)
    PROVE  BackupInv'
BY QuietStepKeeps, BeginBackupKeeps, EndBackupKeeps, RecordBackupKeeps, ListBackupsKeeps,
   RemoveDirKeeps, MarkPrunedKeeps, CleanArchiveKeeps DEF Step

LEMMA StartCycleKeeps ==
    ASSUME BackupInv, OneProcess, NEW p \in Procs, NEW t, StartCycle(p, t)
    PROVE  BackupInv'
BY QuietStepKeeps

LEMMA BackupInvStutter ==
    ASSUME BackupInv, UNCHANGED vars
    PROVE  BackupInv'
<1>1. UNCHANGED <<cfg, lsn, closed, shipped, archive, dirs, catalog, made, pc, mem, crashes>>
  BY DEF vars
<1>2. TypeOK'
  BY <1>1 DEF BackupInv, TypeOK
<1>3. Ordered' /\ ArchiveTip' /\ ChainUnbroken'
  BY <1>1 DEF BackupInv, Ordered, ArchiveTip, ChainUnbroken, Rows, Live
<1>4. \A p \in Procs : Holding(p)'
  BY <1>1 DEF BackupInv, Holding, Running, Retaining, Rows, Live
<1> QED
  BY <1>2, <1>3, <1>4 DEF BackupInv

(* The backup side by itself keeps the log of every backup it has not yet   *)
(* pruned, as long as one storage process runs at a time.                   *)
THEOREM BackupsInvariant ==
    ASSUME OneProcess
    PROVE  Spec => []BackupInv
<1>1. Init => BackupInv
  BY BackupInvInit
<1>2. BackupInv /\ [Next]_vars => BackupInv'
  <2> SUFFICES ASSUME BackupInv, [Next]_vars
               PROVE  BackupInv'
    OBVIOUS
  <2>1. CASE Write \/ ArchiveSegment
    BY <2>1, WriteKeeps, ArchiveSegmentKeeps
  <2>2. ASSUME NEW p \in Procs, Step(p)
        PROVE  BackupInv'
    BY <2>2, StepKeeps
  <2>3. ASSUME NEW p \in Procs, NEW t \in 0..lsn, StartCycle(p, t)
        PROVE  BackupInv'
    BY <2>3, StartCycleKeeps
  <2>4. CASE UNCHANGED vars
    BY <2>4, BackupInvStutter
  <2> QED
    BY <2>1, <2>2, <2>3, <2>4 DEF Next
<1> QED
  BY <1>1, <1>2, PTL DEF Spec

-----------------------------------------------------------------------------
(* Recovery: the log of destructive DDL.                                    *)

Event == [tag : Tags, id : Nat, at : Nat]
Stored == {store[i] : i \in 1..Len(store)}

\* Every event that a transaction, either log or the reader of the model knows.
Known == (ddl \cup Stored \cup {open[s] : s \in Sessions} \cup {newest[g] : g \in Tags}) \ {None}

EventTypes ==
    /\ ids \in Nat
    /\ ddl \subseteq Event /\ IsFiniteSet(ddl)
    /\ store \in Seq(Event)
    /\ open \in [Sessions -> Event \cup {None}]
    /\ newest \in [Tags -> Event \cup {None}]
    /\ fwd \in [step : {"idle", "ship", "prune"}, rows : SUBSET Event]

\* The sequence of the ids is the order in which the triggers fired.
EventIds ==
    /\ \A r \in Known : r.id \in 1..ids /\ r.at \in 2..lsn
    /\ \A r, q \in Known : /\ r.id = q.id => r = q
                           /\ r.id < q.id => r.at < q.at

\* The lock on the table: one destructive transaction at a time, which is later
\* than all that are committed.
TableLock ==
    /\ \A s, t \in Sessions :
         open[s].tag \in ObjectTags /\ open[t].tag \in ObjectTags => s = t
    /\ \A s \in Sessions : \A r \in ddl \cup Stored :
         open[s].tag \in ObjectTags /\ r.tag \in ObjectTags => r.id < open[s].id

StoreSorted ==
    \A i, j \in 1..Len(store) :
        i < j => /\ store[i].id # store[j].id
                 /\ store[i].tag \in ObjectTags /\ store[j].tag \in ObjectTags =>
                        store[i].id < store[j].id

\* What the forwarder has yet to ship is later than what it has shipped.
Forwarding ==
    /\ fwd.step # "idle" => limit.twoDb /\ fwd.rows \subseteq ddl
    /\ \A r \in ddl : \A q \in Stored :
         r.tag \in ObjectTags /\ q.tag \in ObjectTags /\ r.id \notin Shipped => q.id < r.id
    /\ fwd.step = "ship" =>
         \A r \in ddl \ fwd.rows : \A q \in fwd.rows :
            r.tag \in ObjectTags /\ q.tag \in ObjectTags => q.id < r.id

NewestLast ==
    \A g \in ObjectTags :
        /\ newest[g] # None => newest[g].tag = g
        /\ \A r \in ddl \cup Stored : r.tag = g => newest[g] # None /\ r.id <= newest[g].id
        /\ ~limit.twoDb /\ newest[g] # None => newest[g] \in ddl

EventInv ==
    /\ EventTypes
    /\ EventIds
    /\ TableLock
    /\ StoreSorted
    /\ Forwarding
    /\ NewestLast

-----------------------------------------------------------------------------
(* Recovery: the table and the commands.                                    *)

TableInv == tab \in Table /\ past \in Seq(Table) /\ Len(past) = lsn

Recoveries ==
    [step : {"idle", "tenant", "pick", "copy", "replay", "apply", "load"},
     op : Tags \cup {"none", "as-of"}, at : Nat, base : Nat, copy : Table, want : Nat]

\* A command whose table has the history `hist`, over k backups.
RecOk(r, hist, k, archived) ==
    /\ r \in Recoveries
    /\ r.base <= k
    /\ r.step \in {"copy", "replay", "apply", "load"} => 1 <= r.base
    /\ r.at = 0 \/ r.at \in 2..Len(hist) + 1
    /\ r.want > 0 => r.at = r.want /\ r.step # "tenant"
    /\ r.step \in {"apply", "load"} /\ r.want > 0 /\ archived => r.copy = hist[r.want - 1]

RecInv ==
    /\ rec \in [Clients -> Recoveries]
    /\ \A c \in Clients : RecOk(rec[c], past, Len(catalog), cfg.archive)

RInv ==
    /\ BackupInv
    /\ TableInv
    /\ EventInv
    /\ RecInv

-----------------------------------------------------------------------------
(* What a step of the backup side leaves to recovery.                       *)

LEMMA BackupFrame ==
    ASSUME TypeOK,
           \/ ArchiveSegment
           \/ \E p \in Procs : Step(p) \/ \E t : StartCycle(p, t)
    PROVE  /\ UNCHANGED <<cfg, lsn>>
           /\ Len(catalog) \in Nat /\ Len(catalog') \in Nat /\ Len(catalog) <= Len(catalog')
<1>1. catalog \in Seq(Row) /\ Len(catalog) \in Nat
  BY DEF TypeOK
<1>2. CASE UNCHANGED <<cfg, lsn, catalog>>
  BY <1>1, <1>2
<1>3. CASE ArchiveSegment
  BY <1>2, <1>3 DEF ArchiveSegment
<1>4. ASSUME NEW p \in Procs, NEW t, StartCycle(p, t)
      PROVE  UNCHANGED <<cfg, lsn, catalog>>
  BY <1>4 DEF StartCycle
<1>5. ASSUME NEW p \in Procs, RecordBackup(p)
      PROVE  UNCHANGED <<cfg, lsn>> /\ Len(catalog') = Len(catalog) + 1
  <2>1. mem[p] \in Held /\ lsn \in Nat
    BY DEF TypeOK
  <2>2. mem[p].name \in Nat /\ mem[p].end \in Nat /\ mem[p].start \in Nat
    BY <2>1, HeldTypes
  <2>3. NewRow(p) \in Row
    BY <2>1, <2>2 DEF NewRow, Row
  <2>4. catalog' = Append(catalog, NewRow(p)) /\ UNCHANGED <<cfg, lsn>>
    BY <1>5 DEF RecordBackup, NewRow, wal
  <2> QED
    BY <1>1, <2>3, <2>4, AppendProperties
<1>6. ASSUME NEW p \in Procs, MarkPruned(p)
      PROVE  UNCHANGED <<cfg, lsn>> /\ Len(catalog') = Len(catalog)
  <2> DEFINE i == MinOf(mem[p].todo)
             r == [catalog[i] EXCEPT !.pruned = TRUE]
  <2>1. catalog' = [catalog EXCEPT ![i] = r] /\ UNCHANGED <<cfg, lsn>>
    BY <1>6 DEF MarkPruned, wal
  <2> HIDE DEF i, r
  <2> QED
    BY <1>1, <2>1
<1>7. ASSUME NEW p \in Procs, Step(p), ~RecordBackup(p), ~MarkPruned(p)
      PROVE  UNCHANGED <<cfg, lsn, catalog>>
  BY <1>7 DEF Step, Decide, StartSnapshot, BeginBackup, ProbeFails, EndBackup, DiscardBackup,
              ListBackups, RemoveDir, CleanArchive, Crash, wal
<1> QED
  BY <1>1, <1>2, <1>3, <1>4, <1>5, <1>6, <1>7

(* A recovery that pushes out its target only completes a segment. *)
LEMMA SwitchKeeps ==
    ASSUME BackupInv, NEW t, Switch(t) \/ UNCHANGED closed,
           UNCHANGED <<cfg, lsn, shipped, archive, dirs, catalog, made, pc, mem, crashes>>
    PROVE  BackupInv'
<1>1. TypeOK /\ lsn \in Nat /\ closed \in 0..lsn /\ shipped \in 0..closed
  BY DEF BackupInv, TypeOK
<1>2. closed' \in 0..lsn /\ shipped \in 0..closed'
  BY <1>1, SwitchTypes
<1>3. TypeOK'
  BY <1>1, <1>2 DEF TypeOK
<1>4. Ordered' /\ ArchiveTip' /\ ChainUnbroken'
  BY DEF BackupInv, Ordered, ArchiveTip, ChainUnbroken, Rows, Live
<1>5. \A p \in Procs : Holding(p)'
  BY DEF BackupInv, Holding, Running, Retaining, Rows, Live
<1> QED
  BY <1>3, <1>4, <1>5 DEF BackupInv

-----------------------------------------------------------------------------
(* The history of the table and the commands over it.                       *)

LEMMA TableTypes ==
    ASSUME NEW t \in Table
    PROVE  /\ t.there \in BOOLEAN /\ t.col \in BOOLEAN /\ t.pk \in BOOLEAN
           /\ t.rows \in SUBSET (Keys \X Nat)
BY DEF Table

LEMMA TableUpdates ==
    /\ Empty \in Table /\ Gone \in Table
    /\ \A t \in Table : \A R \in SUBSET (Keys \X Nat) : \A b \in BOOLEAN :
         /\ [t EXCEPT !.rows = R] \in Table
         /\ [t EXCEPT !.col = b, !.rows = R] \in Table
         /\ [t EXCEPT !.pk = b, !.rows = R] \in Table
         /\ [t EXCEPT !.rows = R, !.pk = b] \in Table
BY DEF Table, Empty, Gone

LEMMA RecordKeeps ==
    ASSUME BackupInv, TableInv, NEW t \in Table, Record(t)
    PROVE  /\ BackupInv' /\ TableInv'
           /\ lsn \in Nat /\ lsn' = lsn + 1 /\ UNCHANGED <<cfg, catalog>>
           /\ Len(past) = lsn /\ Len(past') = lsn + 1
           /\ \A n \in 1..lsn : past'[n] = past[n]
           /\ past'[lsn + 1] = t
<1>1. Write /\ tab' = t /\ past' = Append(past, t)
  BY DEF Record
<1>2. BackupInv'
  BY <1>1, WriteKeeps
<1>3. lsn \in Nat /\ lsn' = lsn + 1 /\ UNCHANGED <<cfg, catalog>>
  BY <1>1 DEF Write, BackupInv, TypeOK
<1>4. /\ past' \in Seq(Table) /\ Len(past') = lsn + 1
      /\ \A n \in 1..lsn : past'[n] = past[n]
      /\ past'[lsn + 1] = t
  BY <1>1, AppendProperties DEF TableInv
<1> QED
  BY <1>1, <1>2, <1>3, <1>4 DEF TableInv

(* A command stays good when the history of the table and the catalogue grow. *)
LEMMA RecStays ==
    ASSUME NEW r, NEW h, NEW k \in Nat, NEW a, NEW h2, NEW k2 \in Nat,
           RecOk(r, h, k, a), Len(h) \in Nat, Len(h2) \in Nat,
           Len(h) <= Len(h2), k <= k2,
           \A n \in 1..Len(h) : h2[n] = h[n]
    PROVE  RecOk(r, h2, k2, a)
<1>1. r \in Recoveries /\ r.base \in Nat /\ r.at \in Nat /\ r.want \in Nat
  BY DEF RecOk, Recoveries
<1>2. r.base <= k2
  BY <1>1 DEF RecOk
<1>3. r.at = 0 \/ r.at \in 2..Len(h2) + 1
  BY <1>1 DEF RecOk
<1>4. r.want > 0 => r.want - 1 \in 1..Len(h)
  BY <1>1 DEF RecOk
<1> QED
  BY <1>1, <1>2, <1>3, <1>4 DEF RecOk

LEMMA NoRecOk ==
    ASSUME NEW h, NEW k \in Nat, NEW a
    PROVE  NoRec \in Recoveries /\ RecOk(NoRec, h, k, a)
<1>1. NoRec \in Recoveries
  BY TableUpdates DEF NoRec, Recoveries
<1> QED
  BY <1>1 DEF NoRec, RecOk

(* The commands of all clients stay good in a step that gives client c a new
   one, or none a new one. *)
HistoryGrows ==
    /\ UNCHANGED cfg
    /\ Len(catalog) \in Nat /\ Len(catalog') \in Nat /\ Len(catalog) <= Len(catalog')
    /\ Len(past) \in Nat /\ Len(past') \in Nat /\ Len(past) <= Len(past')
    /\ \A n \in 1..Len(past) : past'[n] = past[n]

LEMMA RecInvStays ==
    ASSUME RecInv, HistoryGrows,
           \/ UNCHANGED rec
           \/ \E c \in Clients, r \in Recoveries :
                 rec' = [rec EXCEPT ![c] = r] /\ RecOk(r, past', Len(catalog'), cfg.archive)
    PROVE  RecInv'
<1>1. \A c \in Clients : RecOk(rec[c], past', Len(catalog'), cfg.archive)
  BY RecStays DEF RecInv, HistoryGrows
<1>2. CASE UNCHANGED rec
  BY <1>1, <1>2 DEF RecInv, HistoryGrows
<1>3. ASSUME NEW c \in Clients, NEW r \in Recoveries,
             rec' = [rec EXCEPT ![c] = r], RecOk(r, past', Len(catalog'), cfg.archive)
      PROVE  RecInv'
  <2>1. rec' \in [Clients -> Recoveries]
    BY <1>3 DEF RecInv
  <2>2. \A d \in Clients : rec'[d] = IF d = c THEN r ELSE rec[d]
    BY <1>3 DEF RecInv
  <2>3. \A d \in Clients : RecOk(rec'[d], past', Len(catalog'), cfg'.archive)
    BY <1>1, <1>3, <2>2 DEF HistoryGrows
  <2> QED
    BY <2>1, <2>3 DEF RecInv
<1> QED
  BY <1>2, <1>3

-----------------------------------------------------------------------------
(* The log of destructive DDL and its forwarder.                            *)

LEMMA EventFields ==
    /\ \A r \in Event : r.tag \in Tags /\ r.id \in Nat /\ r.at \in Nat /\ r # None
    /\ None.tag \notin ObjectTags /\ None.id = 0 /\ None.at = 0
    /\ ObjectTags \subseteq Tags
<1>1. None.tag = "none" /\ None.id = 0 /\ None.at = 0
  BY DEF None
<1>2. "none" \notin Tags /\ ObjectTags \subseteq Tags
  BY DEF Tags, ObjectTags
<1>3. \A r \in Event : r.tag \in Tags /\ r.id \in Nat /\ r.at \in Nat
  BY DEF Event
<1> QED
  BY <1>1, <1>2, <1>3

LEMMA KnownFacts ==
    ASSUME EventTypes
    PROVE  /\ Known \subseteq Event
           /\ ddl \subseteq Known /\ Stored \subseteq Known /\ Stored \subseteq Event
           /\ \A s \in Sessions : open[s] # None => open[s] \in Known
           /\ \A g \in Tags : newest[g] # None => newest[g] \in Known
           /\ Len(store) \in Nat
           /\ \A i \in 1..Len(store) : store[i] \in Stored
           /\ \A i : i \in Shipped <=> \E q \in Stored : q.id = i
<1>1. Len(store) \in Nat /\ \A i \in 1..Len(store) : store[i] \in Event
  BY DEF EventTypes
<1>2. Stored \subseteq Event
  BY <1>1 DEF Stored
<1>3. /\ \A s \in Sessions : open[s] \in Event \cup {None}
      /\ \A g \in Tags : newest[g] \in Event \cup {None}
      /\ ddl \subseteq Event
  BY DEF EventTypes
<1>4. Known \subseteq Event
  BY <1>2, <1>3 DEF Known
<1>5. None \notin ddl /\ None \notin Stored
  BY <1>2, <1>3, EventFields
<1>6. ddl \subseteq Known /\ Stored \subseteq Known
  BY <1>5 DEF Known
<1>7. /\ \A s \in Sessions : open[s] # None => open[s] \in Known
      /\ \A g \in Tags : newest[g] # None => newest[g] \in Known
  BY DEF Known
<1>8. \A i \in 1..Len(store) : store[i] \in Stored
  BY DEF Stored
<1>9. \A i : i \in Shipped <=> \E q \in Stored : q.id = i
  BY DEF Shipped, Stored
<1> QED
  BY <1>1, <1>2, <1>4, <1>6, <1>7, <1>8, <1>9

LEMMA LimitTypes ==
    ASSUME TypeOK
    PROVE  /\ limit.keys \subseteq Keys /\ limit.sessions \subseteq Sessions
           /\ limit.tags \subseteq Tags /\ limit.twoDb \in BOOLEAN
<1>1. cfg \in Policies
  BY DEF TypeOK
<1>2. limit \in Limit
  BY <1>1, RecoveryAssumption DEF limit
<1> QED
  BY <1>2 DEF Limit

LEMMA EventIdsShrink ==
    ASSUME EventIds, ids \in Nat, lsn \in Nat, ids' = ids, lsn' = lsn \/ lsn' = lsn + 1,
           Known' \subseteq Known, \A r \in Known : r.at \in Nat
    PROVE  EventIds'
<1>1. \A r \in Known' : r.id \in 1..ids' /\ r.at \in 2..lsn'
  BY DEF EventIds
<1>2. \A r, q \in Known' : /\ r.id = q.id => r = q
                           /\ r.id < q.id => r.at < q.at
  BY DEF EventIds
<1> QED
  BY <1>1, <1>2 DEF EventIds

LEMMA EventsRest ==
    ASSUME EventInv, lsn \in Nat, lsn' = lsn \/ lsn' = lsn + 1,
           UNCHANGED <<cfg, ddl, store, ids, open, fwd, newest>>
    PROVE  EventInv'
<1>1. EventTypes' /\ TableLock' /\ StoreSorted' /\ Forwarding' /\ NewestLast'
  BY DEF EventInv, EventTypes, TableLock, StoreSorted, Forwarding, NewestLast, Stored, Shipped, limit
<1>2. Known' = Known
  BY DEF Known, Stored
<1>3. EventIds'
  BY <1>2, EventIdsShrink, KnownFacts, EventFields DEF EventInv, EventTypes
<1> QED
  BY <1>1, <1>3 DEF EventInv

LEMMA TriggerKeeps ==
    ASSUME EventInv, lsn \in Nat, lsn > 0, NEW s \in Sessions, NEW tag \in Tags, DdlTrigger(s, tag),
           lsn' = lsn + 1, UNCHANGED cfg
    PROVE  EventInv'
<1> DEFINE e == [tag |-> tag, id |-> ids + 1, at |-> lsn + 1]
<1>1. /\ open[s] = None
      /\ tag \in ObjectTags => \A t \in Sessions : open[t].tag \notin ObjectTags
      /\ ids' = ids + 1 /\ open' = [open EXCEPT ![s] = e]
      /\ UNCHANGED <<ddl, store, fwd, newest>>
  BY DEF DdlTrigger, Unlocked
<1>2. EventTypes /\ ids \in Nat /\ open \in [Sessions -> Event \cup {None}]
  BY DEF EventInv, EventTypes
<1>3. e \in Event /\ e.tag = tag /\ e.id = ids + 1 /\ e.at = lsn + 1
  BY <1>2 DEF Event
<1> HIDE DEF e
<1>4. EventTypes'
  BY <1>1, <1>2, <1>3 DEF EventTypes
<1>5. \A t \in Sessions : open'[t] = IF t = s THEN e ELSE open[t]
  BY <1>1, <1>2
<1>6. Stored' = Stored
  BY <1>1 DEF Stored
<1>7. Known' \subseteq Known \cup {e}
  <2>1. \A r \in Known' : r # None /\ (r \in ddl \/ r \in Stored \/ (\E t \in Sessions : r = open'[t])
                                       \/ \E g \in Tags : r = newest[g])
    BY <1>1, <1>6 DEF Known
  <2> QED
    BY <1>5, <2>1 DEF Known
<1>8. EventIds'
  <2>1. \A r \in Known : r.id \in 1..ids /\ r.at \in 2..lsn
    BY DEF EventInv, EventIds
  <2>2. \A r \in Known' : r.id \in 1..ids' /\ r.at \in 2..lsn'
    BY <1>1, <1>2, <1>3, <1>7, <2>1
  <2>3. ASSUME NEW r \in Known', NEW q \in Known'
        PROVE  (r.id = q.id => r = q) /\ (r.id < q.id => r.at < q.at)
    <3>1. CASE r \in Known /\ q \in Known
      BY <3>1 DEF EventInv, EventIds
    <3>2. CASE r = e /\ q \in Known
      BY <1>2, <1>3, <2>1, <3>2
    <3>3. CASE r \in Known /\ q = e
      BY <1>2, <1>3, <2>1, <3>3
    <3>4. CASE r = e /\ q = e
      BY <1>2, <1>3, <3>4
    <3> QED
      BY <1>7, <3>1, <3>2, <3>3, <3>4
  <2> QED
    BY <2>2, <2>3 DEF EventIds
<1>9. TableLock'
  <2>1. \A r \in ddl \cup Stored : r.id \in 1..ids
    BY <1>2, KnownFacts DEF EventInv, EventIds
  <2>2. \A t, u \in Sessions : open'[t].tag \in ObjectTags /\ open'[u].tag \in ObjectTags => t = u
    BY <1>1, <1>3, <1>5 DEF EventInv, TableLock
  <2>3. ASSUME NEW t \in Sessions, NEW r \in ddl \cup Stored,
               open'[t].tag \in ObjectTags, r.tag \in ObjectTags
        PROVE  r.id < open'[t].id
    <3>1. CASE t = s
      BY <1>2, <1>3, <1>5, <2>1, <3>1
    <3>2. CASE t # s
      BY <1>5, <2>3, <3>2 DEF EventInv, TableLock
    <3> QED
      BY <3>1, <3>2
  <2> QED
    BY <1>1, <1>6, <2>2, <2>3 DEF TableLock
<1>10. StoreSorted' /\ Forwarding' /\ NewestLast'
  BY <1>1, <1>6 DEF EventInv, StoreSorted, Forwarding, NewestLast, Shipped, limit
<1> QED
  BY <1>4, <1>8, <1>9, <1>10 DEF EventInv

LEMMA CommitKeeps ==
    ASSUME EventInv, lsn \in Nat, NEW s \in Sessions, DdlCommit(s),
           lsn' = lsn + 1, UNCHANGED cfg
    PROVE  EventInv'
<1> DEFINE e == open[s]
<1>1. /\ e # None /\ ddl' = ddl \cup {e} /\ newest' = [newest EXCEPT ![e.tag] = e]
      /\ open' = [open EXCEPT ![s] = None]
      /\ UNCHANGED <<store, ids, fwd>>
  BY DEF DdlCommit
<1>2. EventTypes /\ ids \in Nat /\ open \in [Sessions -> Event \cup {None}]
      /\ newest \in [Tags -> Event \cup {None}] /\ IsFiniteSet(ddl)
  BY DEF EventInv, EventTypes
<1>3. e \in Event /\ e \in Known /\ e.tag \in Tags /\ e.id \in Nat
  BY <1>1, <1>2, KnownFacts, EventFields
<1>4. \A t \in Sessions : open'[t] = IF t = s THEN None ELSE open[t]
  BY <1>2, <1>1
<1> HIDE DEF e
<1>5. \A g \in Tags : newest'[g] = IF g = e.tag THEN e ELSE newest[g]
  BY <1>1, <1>2, <1>3
<1>6. EventTypes'
  <2>1. IsFiniteSet(ddl')
    BY <1>1, <1>2, FS_AddElement
  <2> QED
    BY <1>1, <1>2, <1>3, <2>1 DEF EventTypes
<1>7. Stored' = Stored /\ Shipped' = Shipped
  BY <1>1 DEF Stored, Shipped
<1>8. Known' \subseteq Known
  <2>1. \A r \in Known' : r # None /\ (r \in ddl \/ r = e \/ r \in Stored \/ (\E t \in Sessions : r = open'[t])
                                       \/ \E g \in Tags : r = newest'[g])
    BY <1>1, <1>7 DEF Known
  <2> QED
    BY <1>3, <1>4, <1>5, <2>1 DEF Known
<1>9. EventIds'
  BY <1>1, <1>2, <1>8, EventIdsShrink, KnownFacts, EventFields DEF EventInv
<1>10. e.tag \in ObjectTags => \A r \in ddl \cup Stored : r.tag \in ObjectTags => r.id < e.id
  BY DEF EventInv, TableLock, e
<1>11. TableLock'
  <2>1. \A t \in Sessions : open'[t].tag \in ObjectTags =>
           t # s /\ open[t].tag \in ObjectTags /\ e.tag \notin ObjectTags /\ open'[t] = open[t]
    BY <1>4, EventFields DEF EventInv, TableLock, e
  <2> QED
    BY <1>1, <1>7, <2>1 DEF EventInv, TableLock
<1>12. StoreSorted'
  BY <1>1 DEF EventInv, StoreSorted
<1>13. Forwarding'
  <2>1. limit' = limit
    BY DEF limit
  <2>2. fwd'.step # "idle" => limit'.twoDb /\ fwd'.rows \subseteq ddl'
    BY <1>1, <2>1 DEF EventInv, Forwarding
  <2>3. ASSUME NEW r \in ddl', NEW q \in Stored,
               r.tag \in ObjectTags, q.tag \in ObjectTags, r.id \notin Shipped
        PROVE  q.id < r.id
    BY <1>1, <1>10, <2>3 DEF EventInv, Forwarding
  <2>4. ASSUME fwd.step = "ship", NEW r \in ddl' \ fwd.rows, NEW q \in fwd.rows,
               r.tag \in ObjectTags, q.tag \in ObjectTags
        PROVE  q.id < r.id
    <3>1. q \in ddl
      BY <2>4 DEF EventInv, Forwarding
    <3> QED
      BY <1>1, <1>10, <2>4, <3>1 DEF EventInv, Forwarding
  <2> QED
    BY <1>1, <1>7, <2>2, <2>3, <2>4 DEF Forwarding
<1>14. NewestLast'
  <2> SUFFICES ASSUME NEW g \in ObjectTags
               PROVE  /\ newest'[g] # None => newest'[g].tag = g
                      /\ \A r \in ddl' \cup Stored : r.tag = g => newest'[g] # None /\ r.id <= newest'[g].id
                      /\ ~limit.twoDb /\ newest'[g] # None => newest'[g] \in ddl'
    BY <1>7 DEF NewestLast, limit
  <2>1. g \in Tags
    BY EventFields
  <2>2. CASE g = e.tag
    <3>1. newest'[g] = e
      BY <1>5, <2>1, <2>2
    <3>2. \A r \in ddl \cup Stored : r.id \in Nat
      BY <1>2, KnownFacts, EventFields
    <3> QED
      BY <1>1, <1>3, <1>10, <2>2, <3>1, <3>2
  <2>3. CASE g # e.tag
    <3>1. newest'[g] = newest[g]
      BY <1>5, <2>1, <2>3
    <3> QED
      BY <1>1, <2>3, <3>1 DEF EventInv, NewestLast
  <2> QED
    BY <2>2, <2>3
<1> QED
  BY <1>6, <1>9, <1>11, <1>12, <1>13, <1>14 DEF EventInv

LEMMA RollbackKeeps ==
    ASSUME EventInv, lsn \in Nat, NEW s \in Sessions, DdlRollback(s)
    PROVE  EventInv'
<1>1. /\ open' = [open EXCEPT ![s] = None]
      /\ UNCHANGED <<lsn, cfg, ddl, store, ids, fwd, newest>>
  BY DEF DdlRollback, vars
<1>2. EventTypes /\ ids \in Nat /\ open \in [Sessions -> Event \cup {None}]
  BY DEF EventInv, EventTypes
<1>3. \A t \in Sessions : open'[t] = IF t = s THEN None ELSE open[t]
  BY <1>1, <1>2
<1>4. EventTypes'
  BY <1>1, <1>2 DEF EventTypes
<1>5. Stored' = Stored
  BY <1>1 DEF Stored
<1>6. Known' \subseteq Known
  <2>1. \A r \in Known' : r # None /\ (r \in ddl \/ r \in Stored \/ (\E t \in Sessions : r = open'[t])
                                       \/ \E g \in Tags : r = newest[g])
    BY <1>1, <1>5 DEF Known
  <2> QED
    BY <1>3, <2>1 DEF Known
<1>7. EventIds'
  BY <1>1, <1>2, <1>6, EventIdsShrink, KnownFacts, EventFields DEF EventInv
<1>8. TableLock'
  <2>1. \A t \in Sessions : open'[t].tag \in ObjectTags => open'[t] = open[t]
    BY <1>3, EventFields
  <2> QED
    BY <1>1, <1>5, <2>1 DEF EventInv, TableLock
<1>9. StoreSorted' /\ Forwarding' /\ NewestLast'
  BY <1>1, <1>5 DEF EventInv, StoreSorted, Forwarding, NewestLast, Shipped, limit
<1> QED
  BY <1>4, <1>7, <1>8, <1>9 DEF EventInv

LEMMA ForwardReadKeeps ==
    ASSUME EventInv, lsn \in Nat, ForwardRead
    PROVE  EventInv'
<1>1. /\ limit.twoDb /\ fwd' = [step |-> "ship", rows |-> ddl]
      /\ UNCHANGED <<lsn, cfg, ddl, store, ids, open, newest>>
  BY DEF ForwardRead, vars
<1>2. EventTypes /\ ddl \subseteq Event /\ ids \in Nat
  BY DEF EventInv, EventTypes
<1>3. EventTypes'
  BY <1>1, <1>2 DEF EventTypes
<1>4. Stored' = Stored /\ Known' = Known /\ limit' = limit /\ Shipped' = Shipped
  BY <1>1 DEF Stored, Known, limit, Shipped
<1>5. EventIds'
  BY <1>1, <1>2, <1>4, EventIdsShrink, KnownFacts, EventFields DEF EventInv
<1>6. TableLock' /\ StoreSorted' /\ NewestLast'
  BY <1>1, <1>4 DEF EventInv, TableLock, StoreSorted, NewestLast
<1>7. Forwarding'
  BY <1>1, <1>4 DEF EventInv, Forwarding
<1> QED
  BY <1>3, <1>5, <1>6, <1>7 DEF EventInv

LEMMA ForwardFailKeeps ==
    ASSUME EventInv, lsn \in Nat, ForwardFail
    PROVE  EventInv'
<1>1. /\ fwd' = [step |-> "idle", rows |-> {}]
      /\ UNCHANGED <<lsn, cfg, ddl, store, ids, open, newest>>
  BY DEF ForwardFail, vars
<1>2. EventTypes /\ ids \in Nat
  BY DEF EventInv, EventTypes
<1>3. EventTypes'
  BY <1>1, <1>2 DEF EventTypes
<1>4. Stored' = Stored /\ Known' = Known /\ limit' = limit /\ Shipped' = Shipped
  BY <1>1 DEF Stored, Known, limit, Shipped
<1>5. EventIds'
  BY <1>1, <1>2, <1>4, EventIdsShrink, KnownFacts, EventFields DEF EventInv
<1>6. TableLock' /\ StoreSorted' /\ NewestLast' /\ Forwarding'
  BY <1>1, <1>4 DEF EventInv, TableLock, StoreSorted, NewestLast, Forwarding
<1> QED
  BY <1>3, <1>5, <1>6 DEF EventInv

LEMMA ForwardPruneKeeps ==
    ASSUME EventInv, lsn \in Nat, ForwardPrune
    PROVE  EventInv'
<1>1. /\ fwd.step = "prune" /\ ddl' \subseteq ddl /\ fwd' = [step |-> "idle", rows |-> {}]
      /\ UNCHANGED <<lsn, cfg, store, ids, open, newest>>
  BY DEF ForwardPrune, vars
<1>2. EventTypes /\ ids \in Nat /\ limit.twoDb /\ IsFiniteSet(ddl)
  BY <1>1 DEF EventInv, EventTypes, Forwarding
<1>3. EventTypes'
  <2>1. IsFiniteSet(ddl')
    BY <1>1, <1>2, FS_Subset
  <2> QED
    BY <1>1, <1>2, <2>1 DEF EventTypes
<1>4. Stored' = Stored /\ limit' = limit /\ Shipped' = Shipped
  BY <1>1 DEF Stored, limit, Shipped
<1>5. Known' \subseteq Known
  BY <1>1, <1>4 DEF Known
<1>6. EventIds'
  BY <1>1, <1>2, <1>5, EventIdsShrink, KnownFacts, EventFields DEF EventInv
<1>7. TableLock' /\ StoreSorted' /\ Forwarding'
  BY <1>1, <1>4 DEF EventInv, TableLock, StoreSorted, Forwarding
<1>8. NewestLast'
  BY <1>1, <1>2, <1>4 DEF EventInv, NewestLast
<1> QED
  BY <1>3, <1>6, <1>7, <1>8 DEF EventInv

(* What the forwarder appends: the rows it has to ship, by id. *)
LEMMA ByIdOrder ==
    ASSUME NEW S \in SUBSET Event, IsFiniteSet(S), \A r, q \in S : r.id = q.id => r = q
    PROVE  /\ Cardinality(S) \in Nat
           /\ ById(S) \in Seq(Event) /\ Len(ById(S)) = Cardinality(S)
           /\ \A i \in 1..Cardinality(S) : ById(S)[i] \in S
           /\ \A r \in S : \E i \in 1..Cardinality(S) : ById(S)[i] = r
           /\ \A i, j \in 1..Cardinality(S) : i < j => ById(S)[i].id < ById(S)[j].id
<1> DEFINE n == Cardinality(S)
           f == ById(S)
<1>1. f = InRankOrder(S)
  BY DEF ById, InRankOrder, Rank
<1>2. \A r \in S : r.id \in Nat
  BY EventFields
<1>3. /\ n \in Nat
      /\ \A i \in 1..n : InRankOrder(S)[i] \in S
      /\ \A r \in S : \E i \in 1..n : InRankOrder(S)[i] = r
      /\ \A i, j \in 1..n : i < j => InRankOrder(S)[i].id < InRankOrder(S)[j].id
  BY <1>2, RanksEnumerate
<1>4. f \in [1..n -> Event]
  <2> DEFINE e(i) == CHOOSE r \in S : Cardinality({q \in S : q.id <= r.id}) = i
  <2>1. f = [i \in 1..n |-> e(i)]
    BY DEF ById
  <2> HIDE DEF e
  <2>2. \A i \in 1..n : f[i] = e(i)
    BY <2>1
  <2>3. \A i \in 1..n : e(i) \in Event
    BY <1>1, <1>3, <2>2
  <2> QED
    BY <2>1, <2>3
<1> HIDE DEF n, f
<1>5. f \in Seq(Event) /\ Len(f) = n
  BY <1>3, <1>4, SeqOfFunction, Zenon
<1> QED
  BY <1>1, <1>3, <1>5 DEF n, f

LEMMA ForwardShipKeeps ==
    ASSUME EventInv, lsn \in Nat, ForwardShip
    PROVE  EventInv'
<1> DEFINE new == {r \in fwd.rows : r.id \notin Shipped}
           m == Len(store)
           n == Cardinality(new)
           tail == ById(new)
<1>1. /\ fwd.step = "ship" /\ store' = store \o tail
      /\ fwd' = [fwd EXCEPT !.step = "prune"]
      /\ UNCHANGED <<lsn, cfg, ddl, ids, open, newest>>
  BY DEF ForwardShip, vars
<1>2. EventTypes /\ ids \in Nat /\ IsFiniteSet(ddl) /\ ddl \subseteq Event /\ store \in Seq(Event)
      /\ m \in Nat /\ limit.twoDb /\ fwd.rows \subseteq ddl
  BY <1>1 DEF EventInv, EventTypes, Forwarding
<1>3. new \subseteq ddl /\ new \subseteq Event /\ IsFiniteSet(new)
  <2>1. new \subseteq ddl
    BY <1>2
  <2> HIDE DEF new
  <2> QED
    BY <1>2, <2>1, FS_Subset
<1>4. \A r \in new : r \in fwd.rows /\ r.id \notin Shipped
  OBVIOUS
<1>5. \A r \in fwd.rows : r \in new \/ r.id \in Shipped
  OBVIOUS
<1> HIDE DEF new
<1>6. \A r, q \in new : r.id = q.id => r = q
  BY <1>2, <1>3, KnownFacts DEF EventInv, EventIds
<1>7. /\ n \in Nat
      /\ tail \in Seq(Event) /\ Len(tail) = n
      /\ \A i \in 1..n : tail[i] \in new
      /\ \A r \in new : \E i \in 1..n : tail[i] = r
      /\ \A i, j \in 1..n : i < j => tail[i].id < tail[j].id
  BY <1>3, <1>6, ByIdOrder
<1> HIDE DEF tail, n, m
<1>8. /\ store' \in Seq(Event) /\ Len(store') = m + n
      /\ \A i \in 1..m + n : store'[i] = IF i <= m THEN store[i] ELSE tail[i - m]
  <2>1. store \in Seq(Event) /\ tail \in Seq(Event)
    BY <1>2, <1>7
  <2>2. /\ store \o tail \in Seq(Event) /\ Len(store \o tail) = Len(store) + Len(tail)
        /\ \A i \in 1..Len(store) + Len(tail) :
              (store \o tail)[i] = IF i <= Len(store) THEN store[i] ELSE tail[i - Len(store)]
    BY <2>1, ConcatProperties
  <2> QED
    BY <1>1, <1>7, <2>2 DEF m
<1>9. \A i \in 1..m : store'[i] = store[i]
  BY <1>2, <1>7, <1>8
<1>10. \A i \in m + 1..m + n : i - m \in 1..n /\ store'[i] = tail[i - m]
  BY <1>2, <1>7, <1>8
<1>11. Stored' = Stored \cup new
  <2>1. \A i \in 1..m + n : i \in 1..m \/ i \in m + 1..m + n
    BY <1>2, <1>7
  <2>2. \A i \in 1..m + n : store'[i] \in Stored \cup new
    BY <1>7, <1>9, <1>10, <2>1 DEF Stored, m
  <2>3. \A i \in 1..m : store[i] \in Stored'
    <3>1. \A i \in 1..m : i \in 1..m + n
      BY <1>2, <1>7
    <3> QED
      BY <1>8, <1>9, <3>1 DEF Stored
  <2>4. ASSUME NEW r \in new PROVE r \in Stored'
    <3>1. PICK i \in 1..n : tail[i] = r
      BY <1>7
    <3>2. m + i \in 1..m + n /\ store'[m + i] = tail[i]
      <4>1. m + i \in m + 1..m + n /\ m + i \in 1..m + n /\ (m + i) - m = i
        BY <1>2, <1>7
      <4> QED
        BY <1>10, <4>1
    <3> QED
      BY <1>8, <3>1, <3>2 DEF Stored
  <2> QED
    BY <1>8, <2>2, <2>3, <2>4 DEF Stored, m
<1>12. Known' \subseteq Known
  BY <1>1, <1>3, <1>11 DEF Known
<1>13. EventTypes'
  BY <1>1, <1>2, <1>8 DEF EventTypes
<1>14. EventIds'
  BY <1>1, <1>2, <1>12, EventIdsShrink, KnownFacts, EventFields DEF EventInv
<1>15. TableLock'
  BY <1>1, <1>3, <1>11 DEF EventInv, TableLock
<1>16. NewestLast'
  BY <1>1, <1>2, <1>3, <1>11 DEF EventInv, NewestLast, limit
<1>17. \A r \in new : \A q \in Stored : r.id # q.id
                       /\ (r.tag \in ObjectTags /\ q.tag \in ObjectTags => q.id < r.id)
  BY <1>2, <1>3, <1>4, KnownFacts DEF EventInv, Forwarding
<1>18. StoreSorted'
  <2> SUFFICES ASSUME NEW i \in 1..m + n, NEW j \in 1..m + n, i < j
               PROVE  /\ store'[i].id # store'[j].id
                      /\ store'[i].tag \in ObjectTags /\ store'[j].tag \in ObjectTags =>
                            store'[i].id < store'[j].id
    BY <1>8 DEF StoreSorted
  <2>1. CASE j <= m
    <3>1. i \in 1..m /\ j \in 1..m
      BY <1>2, <1>7, <2>1
    <3> QED
      BY <1>9, <3>1 DEF EventInv, StoreSorted, m
  <2>2. CASE i <= m /\ m < j
    <3>1. i \in 1..m /\ j \in m + 1..m + n
      BY <1>2, <1>7, <2>2
    <3>2. store'[i] \in Stored /\ store'[j] \in new
      BY <1>7, <1>9, <1>10, <3>1 DEF Stored, m
    <3> QED
      BY <1>17, <3>2
  <2>3. CASE m < i
    <3>1. i \in m + 1..m + n /\ j \in m + 1..m + n /\ i - m < j - m
      BY <1>2, <1>7, <2>3
    <3>2. store'[i].id < store'[j].id /\ store'[i] \in new /\ store'[j] \in new
      BY <1>7, <1>10, <3>1
    <3>3. store'[i].id \in Nat /\ store'[j].id \in Nat
      BY <1>3, <3>2, EventFields
    <3> QED
      BY <3>2, <3>3
  <2> QED
    BY <1>2, <2>1, <2>2, <2>3
<1>19. Forwarding'
  <2>1. fwd'.step = "prune" /\ fwd'.rows = fwd.rows /\ limit' = limit
    BY <1>1, <1>2 DEF EventTypes, limit
  <2>2. \A i : i \in Shipped' <=> \E q \in Stored' : q.id = i
    BY <1>13, KnownFacts DEF Shipped, Stored
  <2>3. ASSUME NEW r \in ddl, NEW q \in Stored',
               r.tag \in ObjectTags, q.tag \in ObjectTags, r.id \notin Shipped'
        PROVE  q.id < r.id
    <3>1. r.id \notin Shipped /\ r \notin new
      BY <1>2, <1>11, <2>2, <2>3, KnownFacts
    <3>2. CASE q \in Stored
      BY <2>3, <3>1, <3>2 DEF EventInv, Forwarding
    <3>3. CASE q \in new
      BY <1>1, <1>4, <1>5, <2>3, <3>1, <3>3 DEF EventInv, Forwarding
    <3> QED
      BY <1>11, <3>2, <3>3
  <2> QED
    BY <1>1, <1>2, <2>1, <2>3 DEF Forwarding
<1> QED
  BY <1>13, <1>14, <1>15, <1>16, <1>18, <1>19 DEF EventInv

-----------------------------------------------------------------------------
(* What a command reads of the two logs.                                    *)

LEMMA InTenantLast ==
    ASSUME EventInv, NEW tag
    PROVE  \/ InTenant(tag) = 0 /\ \A r \in ddl : r.tag # tag
           \/ \E r \in ddl : /\ r.tag = tag /\ InTenant(tag) = r.at
                             /\ \A q \in ddl : q.tag = tag => q.id <= r.id
<1> DEFINE S == {r \in ddl : r.tag = tag}
<1>1. CASE S = {}
  BY <1>1 DEF InTenant
<1>2. CASE S # {}
  <2> DEFINE I == {r.id : r \in S}
  <2>0. EventTypes /\ ids \in Nat
    BY DEF EventInv, EventTypes
  <2>1. \A r \in S : r \in Known /\ r.id \in 1..ids
    BY <2>0, KnownFacts DEF EventInv, EventIds
  <2>2. I \in SUBSET (0..ids) /\ I # {}
    BY <1>2, <2>0, <2>1
  <2>3. PICK m \in I : \A y \in I : y <= m
    <3> HIDE DEF I
    <3> QED
      BY <2>0, <2>2, GreatestElement
  <2>4. \E r \in S : \A q \in S : q.id <= r.id
    BY <2>3
  <2>5. PICK r \in S : r = CHOOSE x \in S : \A q \in S : q.id <= x.id
    BY <2>4
  <2>6. \A q \in S : q.id <= r.id
    BY <2>4, <2>5
  <2>7. InTenant(tag) = r.at
    BY <1>2, <2>5 DEF InTenant
  <2> QED
    BY <2>6, <2>7
<1> QED
  BY <1>1, <1>2

LEMMA InStoreLast ==
    ASSUME EventInv, NEW T
    PROVE  \/ InStore(T) = 0 /\ \A i \in 1..Len(store) : store[i].tag \notin T
           \/ \E i \in 1..Len(store) : /\ store[i].tag \in T /\ InStore(T) = store[i].at
                                       /\ \A j \in 1..Len(store) : store[j].tag \in T => j <= i
<1> DEFINE S == {i \in 1..Len(store) : store[i].tag \in T}
<1>0. Len(store) \in Nat
  BY DEF EventInv, EventTypes
<1>1. CASE S = {}
  BY <1>1 DEF InStore
<1>2. CASE S # {}
  <2>1. S \in SUBSET (0..Len(store))
    BY <1>0
  <2>2. MaxOf(S) \in S /\ \A y \in S : y <= MaxOf(S)
    <3> HIDE DEF S
    <3> QED
      BY <1>0, <1>2, <2>1, ChosenGreatest DEF MaxOf
  <2>3. InStore(T) = store[MaxOf(S)].at
    BY <1>2 DEF InStore
  <2> QED
    BY <2>2, <2>3
<1> QED
  BY <1>1, <1>2

(* A command that finds an event finds one that has happened, and when the
   newest event of its kind is in the log it reads, it finds that one. *)
LEMMA IndexedSettled ==
    ASSUME EventInv, NEW tag \in ObjectTags, lsn \in Nat
    PROVE  /\ Indexed(tag) = 0 \/ Indexed(tag) \in 2..lsn
           /\ InTenant(tag) = 0 \/ InTenant(tag) \in 2..lsn
           /\ Settled(tag) \in Nat
           /\ Settled(tag) > 0 => Indexed(tag) = Settled(tag)
<1>1. EventTypes /\ tag \in Tags
  BY EventFields DEF EventInv
<1>2. \A r \in Known : r.at \in 2..lsn /\ r.id \in Nat /\ r \in Event
  BY <1>1, KnownFacts, EventFields DEF EventInv, EventIds
<1>3. InTenant(tag) = 0 \/ InTenant(tag) \in 2..lsn
  BY <1>1, <1>2, InTenantLast, KnownFacts
<1>4. InStore({tag}) = 0 \/ InStore({tag}) \in 2..lsn
  BY <1>1, <1>2, InStoreLast, KnownFacts
<1>5. Indexed(tag) = 0 \/ Indexed(tag) \in 2..lsn
  BY <1>3, <1>4 DEF Indexed
<1>6. newest[tag] = None \/ newest[tag] \in Known
  BY <1>1, KnownFacts
<1>7. newest[tag].at \in Nat
  BY <1>2, <1>6, EventFields
<1>8. Settled(tag) \in Nat
  BY <1>7 DEF Settled
<1>9. ASSUME Settled(tag) > 0
      PROVE  Indexed(tag) = Settled(tag)
  <2>1. Settled(tag) = newest[tag].at /\ (limit.twoDb => newest[tag].id \in Shipped)
    BY <1>9 DEF Settled
  <2>2. newest[tag] # None
    BY <1>9, <2>1, EventFields
  <2> DEFINE w == newest[tag]
  <2>3. w \in Known /\ w.tag = tag /\ w.id \in Nat
    BY <1>2, <1>6, <2>2 DEF EventInv, NewestLast
  <2>4. \A r \in ddl \cup Stored : r.tag = tag => r.id <= w.id
    BY DEF EventInv, NewestLast
  <2>5. \A r \in Known : r.id = w.id => r = w
    BY <2>3 DEF EventInv, EventIds
  <2>6. CASE ~limit.twoDb
    <3>1. w \in ddl
      BY <2>2, <2>6 DEF EventInv, NewestLast
    <3> HIDE DEF w
    <3>2. PICK r \in ddl : /\ r.tag = tag /\ InTenant(tag) = r.at
                           /\ \A q \in ddl : q.tag = tag => q.id <= r.id
      BY <2>3, <3>1, InTenantLast
    <3>3. r \in Known /\ r.id \in Nat /\ w.id <= r.id /\ r.id <= w.id
      BY <1>1, <1>2, <2>3, <2>4, <3>1, <3>2, KnownFacts
    <3>4. r = w
      BY <2>3, <2>5, <3>3
    <3> QED
      BY <2>1, <2>6, <3>2, <3>4 DEF Indexed, w
  <2>7. CASE limit.twoDb
    <3>1. PICK k \in 1..Len(store) : store[k].id = w.id
      BY <2>1, <2>7 DEF Shipped
    <3> HIDE DEF w
    <3>2. \A i \in 1..Len(store) : store[i] \in Stored /\ store[i] \in Known /\ store[i].id \in Nat
      BY <1>1, <1>2, KnownFacts
    <3>3. store[k] = w
      BY <2>5, <3>1, <3>2
    <3>4. PICK m \in 1..Len(store) : /\ store[m].tag \in {tag} /\ InStore({tag}) = store[m].at
                                     /\ \A j \in 1..Len(store) : store[j].tag \in {tag} => j <= m
      BY <2>3, <3>1, <3>3, InStoreLast
    <3>5. k <= m /\ store[m].id <= w.id
      BY <2>3, <2>4, <3>1, <3>2, <3>3, <3>4
    <3>6. ~(k < m)
      <4> SUFFICES ASSUME k < m PROVE FALSE
        OBVIOUS
      <4>1. store[k].id < store[m].id
        BY <2>3, <3>3, <3>4 DEF EventInv, StoreSorted
      <4> QED
        BY <2>3, <3>1, <3>2, <3>5, <4>1
    <3>7. m = k
      BY <3>5, <3>6
    <3> QED
      BY <2>1, <2>7, <3>3, <3>4, <3>7 DEF Indexed, w
  <2> QED
    BY <2>6, <2>7
<1> QED
  BY <1>3, <1>5, <1>8, <1>9

-----------------------------------------------------------------------------
(* The steps of a command.                                                  *)

LEMMA RInvFacts ==
    ASSUME RInv
    PROVE  /\ TypeOK /\ TableInv /\ EventInv /\ RecInv
           /\ lsn \in Nat /\ lsn > 0 /\ Len(past) = lsn
           /\ tab \in Table /\ past \in Seq(Table) /\ \A n \in 1..lsn : past[n] \in Table
           /\ Len(catalog) \in Nat
           /\ \A i \in 1..Len(catalog) : catalog[i].lsn \in 1..lsn
           /\ \A c \in Clients : rec[c] \in Recoveries /\ RecOk(rec[c], past, Len(catalog), cfg.archive)
<1>1. TypeOK /\ lsn \in Nat /\ lsn > 0
  BY DEF RInv, BackupInv, TypeOK, ArchiveTip
<1>2. tab \in Table /\ past \in Seq(Table) /\ Len(past) = lsn
  BY DEF RInv, TableInv
<1>3. Len(catalog) \in Nat /\ \A i \in Rows : catalog[i].lsn \in Nat /\ catalog[i].walStart \in Nat
  BY <1>1, CatalogTypes
<1>4. \A i \in Rows : catalog[i].lsn \in 1..lsn
  BY <1>1, <1>3 DEF RInv, BackupInv, Ordered
<1>5. \A n \in 1..lsn : past[n] \in Table
  BY <1>2
<1> QED
  BY <1>1, <1>2, <1>3, <1>4, <1>5 DEF RInv, RecInv, Rows

LEMMA RecoveryFields ==
    ASSUME NEW r \in Recoveries
    PROVE  /\ r.at \in Nat /\ r.base \in Nat /\ r.want \in Nat /\ r.copy \in Table
           /\ r.op \in Tags \cup {"none", "as-of"}
BY DEF Recoveries

(* A step of one command that leaves the rest. *)
LEMMA CommandKeeps ==
    ASSUME RInv, UNCHANGED vars, UNCHANGED <<tab, past, ddl, store, ids, open, fwd, newest>>,
           \/ UNCHANGED rec
           \/ \E c \in Clients, r \in Recoveries :
                 rec' = [rec EXCEPT ![c] = r] /\ RecOk(r, past, Len(catalog), cfg.archive)
    PROVE  RInv'
<1>1. /\ UNCHANGED <<cfg, lsn, catalog>> /\ lsn \in Nat /\ Len(catalog) \in Nat /\ Len(past) = lsn
      /\ TableInv /\ EventInv /\ RecInv /\ BackupInv
  BY RInvFacts DEF vars, RInv
<1>2. BackupInv'
  BY <1>1, BackupInvStutter
<1>3. TableInv'
  BY <1>1 DEF TableInv
<1>4. EventInv'
  BY <1>1, EventsRest
<1>5. HistoryGrows
  BY <1>1 DEF HistoryGrows
<1>6. RecInv'
  <2>1. CASE UNCHANGED rec
    BY <1>1, <1>5, <2>1, RecInvStays
  <2>2. ASSUME NEW c \in Clients, NEW r \in Recoveries,
               rec' = [rec EXCEPT ![c] = r], RecOk(r, past, Len(catalog), cfg.archive)
        PROVE  RecInv'
    <3>1. RecOk(r, past', Len(catalog'), cfg.archive)
      BY <1>1, <2>2
    <3> QED
      BY <1>1, <1>5, <2>2, <3>1, RecInvStays
  <2> QED
    BY <2>1, <2>2
<1> QED
  BY <1>2, <1>3, <1>4, <1>6 DEF RInv

(* A step of one command that writes to the tenant, and an application's write. *)
LEMMA WritingKeeps ==
    ASSUME RInv, NEW t \in Table, Record(t), UNCHANGED <<ddl, store, ids, open, fwd, newest>>,
           \/ UNCHANGED rec
           \/ \E c \in Clients : rec' = [rec EXCEPT ![c] = NoRec]
           \/ \E c \in Clients, r \in Recoveries :
                 rec' = [rec EXCEPT ![c] = r] /\ RecOk(r, past, Len(catalog), cfg.archive)
    PROVE  RInv'
<1>1. /\ BackupInv' /\ TableInv'
      /\ lsn \in Nat /\ lsn' = lsn + 1 /\ UNCHANGED <<cfg, catalog>>
      /\ Len(past) = lsn /\ Len(past') = lsn + 1
      /\ \A n \in 1..lsn : past'[n] = past[n]
  BY RecordKeeps DEF RInv
<1>2. EventInv'
  BY <1>1, EventsRest DEF RInv
<1>3. Len(catalog) \in Nat /\ RecInv /\ TableInv
  BY RInvFacts
<1>4. \A r \in Recoveries : RecOk(r, past, Len(catalog), cfg.archive) =>
                            RecOk(r, past', Len(catalog'), cfg.archive)
  BY <1>1, <1>3, RecStays
<1>5. NoRec \in Recoveries /\ RecOk(NoRec, past', Len(catalog'), cfg.archive)
  BY <1>1, <1>3, NoRecOk
<1>6. HistoryGrows
  BY <1>1, <1>3 DEF HistoryGrows
<1>7. RecInv'
  <2>1. CASE UNCHANGED rec
    BY <1>3, <1>6, <2>1, RecInvStays
  <2>2. ASSUME NEW c \in Clients, NEW r \in Recoveries,
               rec' = [rec EXCEPT ![c] = r], RecOk(r, past', Len(catalog'), cfg.archive)
        PROVE  RecInv'
    BY <1>3, <1>6, <2>2, RecInvStays
  <2>3. CASE \E c \in Clients : rec' = [rec EXCEPT ![c] = NoRec]
    BY <1>5, <2>2, <2>3
  <2>4. CASE \E c \in Clients, r \in Recoveries :
                 rec' = [rec EXCEPT ![c] = r] /\ RecOk(r, past, Len(catalog), cfg.archive)
    BY <1>4, <2>2, <2>4
  <2> QED
    BY <2>1, <2>3, <2>4
<1> QED
  BY <1>1, <1>2, <1>7 DEF RInv

(* The record that a command begins with. *)
LEMMA BegunOk ==
    ASSUME NEW r \in Recoveries, NEW h, NEW k \in Nat, NEW a, Len(h) \in Nat,
           r.step \in {"tenant", "pick", "copy"}, r.base <= k, r.step = "copy" => 1 <= r.base,
           r.at = 0 \/ r.at \in 2..Len(h) + 1,
           r.want > 0 => r.at = r.want /\ r.step # "tenant"
    PROVE  RecOk(r, h, k, a)
BY DEF RecOk

Looking(step, tag, at, want) ==
    [NoRec EXCEPT !.step = step, !.op = tag, !.at = at, !.want = want]

LEMMA BegunLook ==
    ASSUME NEW tag \in Tags, NEW at \in Nat, NEW want \in Nat, NEW step \in {"tenant", "pick"}
    PROVE  /\ Looking(step, tag, at, want) \in Recoveries
           /\ Looking(step, tag, at, want).step = step /\ Looking(step, tag, at, want).at = at
           /\ Looking(step, tag, at, want).base = 0 /\ Looking(step, tag, at, want).want = want
<1>1. Gone \in Table
  BY TableUpdates
<1> QED
  BY <1>1 DEF NoRec, Recoveries, Looking

LEMMA BegunNamed ==
    ASSUME NEW tag \in Tags, NEW base \in Nat
    PROVE  LET r == [NoRec EXCEPT !.step = "copy", !.op = tag, !.base = base]
           IN  r \in Recoveries /\ r.step = "copy" /\ r.at = 0 /\ r.base = base /\ r.want = 0
<1>1. Gone \in Table
  BY TableUpdates
<1> QED
  BY <1>1 DEF NoRec, Recoveries

LEMMA BegunAsOf ==
    ASSUME NEW at \in Nat, NEW base \in Nat
    PROVE  LET r == [NoRec EXCEPT !.step = "copy", !.op = "as-of", !.at = at, !.base = base, !.want = at]
           IN  r \in Recoveries /\ r.step = "copy" /\ r.at = at /\ r.base = base /\ r.want = at
<1>1. Gone \in Table
  BY TableUpdates
<1> QED
  BY <1>1 DEF NoRec, Recoveries

(* What a step changes in the record of its command. *)
Picking(q, n) == [q EXCEPT !.step = "pick", !.at = n]
Copying(q, n) == [q EXCEPT !.step = "copy", !.base = n]
Applying(q, t) == [q EXCEPT !.step = "apply", !.copy = t]

LEMMA PickingMoves ==
    ASSUME NEW q \in Recoveries, NEW n \in Nat
    PROVE  /\ Picking(q, n) \in Recoveries /\ Picking(q, n).step = "pick" /\ Picking(q, n).at = n
           /\ Picking(q, n).base = q.base /\ Picking(q, n).want = q.want
BY DEF Recoveries, Picking

LEMMA CopyingMoves ==
    ASSUME NEW q \in Recoveries, NEW n \in Nat
    PROVE  /\ Copying(q, n) \in Recoveries /\ Copying(q, n).step = "copy" /\ Copying(q, n).base = n
           /\ Copying(q, n).at = q.at /\ Copying(q, n).want = q.want
BY DEF Recoveries, Copying

LEMMA ApplyingMoves ==
    ASSUME NEW q \in Recoveries, NEW t \in Table
    PROVE  /\ Applying(q, t) \in Recoveries /\ Applying(q, t).step = "apply" /\ Applying(q, t).copy = t
           /\ Applying(q, t).base = q.base /\ Applying(q, t).at = q.at /\ Applying(q, t).want = q.want
BY DEF Recoveries, Applying

LEMMA StepMoves ==
    ASSUME NEW q \in Recoveries, NEW step \in {"replay", "load"}
    PROVE  LET r == [q EXCEPT !.step = step]
           IN  r \in Recoveries /\ r.step = step /\ r.base = q.base /\ r.at = q.at
               /\ r.want = q.want /\ r.copy = q.copy
BY DEF Recoveries

LEMMA LookKeeps ==
    ASSUME RInv, NEW c \in Clients, NEW tag \in ObjectTags, Look(c, tag)
    PROVE  RInv'
<1> DEFINE at == Indexed(tag)
           want == Settled(tag)
           step == IF at = 0 THEN "tenant" ELSE "pick"
           r == Looking(step, tag, at, want)
<1>1. lsn \in Nat /\ Len(past) = lsn /\ EventInv /\ Len(catalog) \in Nat
  BY RInvFacts
<1>2. at = 0 \/ at \in 2..lsn
  BY <1>1, IndexedSettled
<1>3. want \in Nat /\ (want > 0 => at = want)
  BY <1>1, IndexedSettled
<1>4. /\ rec' = [rec EXCEPT ![c] = r]
      /\ UNCHANGED <<vars, tab, past, ddl, store, ids, open, fwd, newest>>
  BY DEF Look, Begin, Continue, Looking
<1>5. at \in Nat /\ want \in Nat /\ tag \in Tags /\ step \in {"tenant", "pick"}
  BY <1>1, <1>2, <1>3, EventFields
<1>6. want > 0 => step = "pick"
  BY <1>3
<1> HIDE DEF at, want, step
<1>7. r \in Recoveries /\ r.step = step /\ r.at = at /\ r.base = 0 /\ r.want = want
  BY <1>5, BegunLook
<1> HIDE DEF r
<1>8. RecOk(r, past, Len(catalog), cfg.archive)
  BY <1>1, <1>2, <1>3, <1>5, <1>6, <1>7, BegunOk
<1> QED
  BY <1>4, <1>7, <1>8, CommandKeeps

LEMMA NameSnapshotKeeps ==
    ASSUME RInv, NEW c \in Clients, NEW tag \in ObjectTags, NameSnapshot(c, tag)
    PROVE  RInv'
<1>1. PICK i \in 1..Len(catalog) :
         Begin(c, "named", [NoRec EXCEPT !.step = "copy", !.op = tag, !.base = i])
  BY DEF NameSnapshot
<1> DEFINE r == [NoRec EXCEPT !.step = "copy", !.op = tag, !.base = i]
<1>2. lsn \in Nat /\ Len(past) = lsn /\ Len(catalog) \in Nat
  BY RInvFacts
<1>3. /\ rec' = [rec EXCEPT ![c] = r]
      /\ UNCHANGED <<vars, tab, past, ddl, store, ids, open, fwd, newest>>
  BY <1>1 DEF Begin, Continue
<1>4. tag \in Tags /\ i \in Nat /\ i <= Len(catalog) /\ 1 <= i
  BY <1>2, EventFields
<1>5. r \in Recoveries /\ r.step = "copy" /\ r.at = 0 /\ r.base = i /\ r.want = 0
  BY <1>4, BegunNamed
<1> HIDE DEF r
<1>6. RecOk(r, past, Len(catalog), cfg.archive)
  BY <1>2, <1>4, <1>5, BegunOk
<1> QED
  BY <1>3, <1>5, <1>6, CommandKeeps

(* The greatest of some backups is one of them. *)
LEMMA MaxOfBackups ==
    ASSUME TypeOK, NEW S \in SUBSET Live, S # {}
    PROVE  MaxOf(S) \in S /\ MaxOf(S) \in 1..Len(catalog)
<1>1. Len(catalog) \in Nat /\ Live \subseteq 1..Len(catalog)
  BY CatalogTypes DEF Rows
<1>2. S \in SUBSET (0..Len(catalog))
  BY <1>1
<1>3. MaxOf(S) \in S
  BY <1>1, <1>2, ChosenGreatest DEF MaxOf
<1> QED
  BY <1>1, <1>3

LEMMA AsOfKeeps ==
    ASSUME RInv, NEW c \in Clients, AsOf(c)
    PROVE  RInv'
<1>1. lsn \in Nat /\ Len(past) = lsn /\ Len(catalog) \in Nat /\ TypeOK
  BY RInvFacts
<1>2. PICK T \in 1..lsn :
         LET fit == {i \in Live : catalog[i].created <= T}
         IN  /\ fit # {}
             /\ Begin(c, "as-of", [NoRec EXCEPT !.step = "copy", !.op = "as-of", !.at = T + 1,
                                                !.base = MaxOf(fit), !.want = T + 1])
  BY DEF AsOf
<1> DEFINE fit == {i \in Live : catalog[i].created <= T}
           b == MaxOf(fit)
           r == [NoRec EXCEPT !.step = "copy", !.op = "as-of", !.at = T + 1, !.base = b, !.want = T + 1]
<1>3. b \in 1..Len(catalog)
  BY <1>1, <1>2, MaxOfBackups
<1>4. /\ rec' = [rec EXCEPT ![c] = r]
      /\ UNCHANGED <<vars, tab, past, ddl, store, ids, open, fwd, newest>>
  BY <1>2 DEF Begin, Continue
<1>5. T + 1 \in Nat /\ b \in Nat /\ b <= Len(catalog) /\ 1 <= b /\ T + 1 \in 2..Len(past) + 1
  BY <1>1, <1>3
<1> HIDE DEF fit, b
<1>6. r \in Recoveries /\ r.step = "copy" /\ r.at = T + 1 /\ r.base = b /\ r.want = T + 1
  BY <1>5, BegunAsOf
<1> HIDE DEF r
<1>7. RecOk(r, past, Len(catalog), cfg.archive)
  BY <1>1, <1>5, <1>6, BegunOk
<1> QED
  BY <1>4, <1>6, <1>7, CommandKeeps

LEMMA LookInTenantKeeps ==
    ASSUME RInv, NEW c \in Clients, LookInTenant(c)
    PROVE  RInv'
<1> DEFINE q == rec[c]
           at == InTenant(q.op)
           r == Picking(q, at)
<1>1. lsn \in Nat /\ Len(past) = lsn /\ Len(catalog) \in Nat /\ EventInv
      /\ q \in Recoveries /\ RecOk(q, past, Len(catalog), cfg.archive)
  BY RInvFacts
<1>2. /\ q.step = "tenant" /\ rec' = [rec EXCEPT ![c] = r]
      /\ UNCHANGED <<vars, tab, past, ddl, store, ids, open, fwd, newest>>
  BY DEF LookInTenant, Continue, Rest, Picking
<1>3. at = 0 \/ at \in 2..lsn
  <2>1. EventTypes
    BY <1>1 DEF EventInv
  <2>2. \A x \in ddl : x.at \in 2..lsn
    BY <1>1, <2>1, KnownFacts DEF EventInv, EventIds
  <2> QED
    BY <1>1, <2>2, InTenantLast
<1> HIDE DEF at, q
<1>4. r \in Recoveries /\ r.step = "pick" /\ r.at = at /\ r.base = q.base /\ r.want = q.want
  <2>1. at \in Nat
    BY <1>1, <1>3
  <2> QED
    BY <1>1, <2>1, PickingMoves
<1>5. q.want = 0
  BY <1>1, <1>2, RecoveryFields DEF RecOk
<1> HIDE DEF r
<1>6. RecOk(r, past, Len(catalog), cfg.archive)
  BY <1>1, <1>3, <1>4, <1>5 DEF RecOk
<1> QED
  BY <1>2, <1>4, <1>6, CommandKeeps

LEMMA PickKeeps ==
    ASSUME RInv, NEW c \in Clients, Pick(c)
    PROVE  RInv'
<1> DEFINE q == rec[c]
           fit == {i \in Live : q.at > 0 => catalog[i].lsn < q.at}
           b == MaxOf(fit)
           r == Copying(q, b)
<1>1. Len(catalog) \in Nat /\ TypeOK
      /\ q \in Recoveries /\ RecOk(q, past, Len(catalog), cfg.archive)
  BY RInvFacts
<1>2. /\ q.step = "pick" /\ rec' = [rec EXCEPT ![c] = IF fit = {} THEN NoRec ELSE r]
      /\ UNCHANGED <<vars, tab, past, ddl, store, ids, open, fwd, newest>>
  BY DEF Pick, Continue, Rest, Copying
<1>3. CASE fit = {}
  <2>1. NoRec \in Recoveries /\ RecOk(NoRec, past, Len(catalog), cfg.archive)
    BY <1>1, NoRecOk
  <2>2. rec' = [rec EXCEPT ![c] = NoRec]
    BY <1>2, <1>3
  <2> QED
    BY <1>2, <2>1, <2>2, CommandKeeps
<1>4. CASE fit # {}
  <2>1. b \in 1..Len(catalog)
    BY <1>1, <1>4, MaxOfBackups
  <2>2. rec' = [rec EXCEPT ![c] = r]
    BY <1>2, <1>4
  <2> HIDE DEF b, q
  <2>3. r \in Recoveries /\ r.step = "copy" /\ r.base = b /\ r.at = q.at /\ r.want = q.want
    <3>1. b \in Nat
      BY <1>1, <2>1
    <3> QED
      BY <1>1, <3>1, CopyingMoves
  <2> HIDE DEF r
  <2>4. RecOk(r, past, Len(catalog), cfg.archive)
    BY <1>1, <2>1, <2>3 DEF RecOk
  <2> HIDE DEF fit
  <2> QED
    BY <1>2, <2>2, <2>3, <2>4, CommandKeeps
<1> QED
  BY <1>3, <1>4

LEMMA MaterializeKeeps ==
    ASSUME RInv, NEW c \in Clients, Materialize(c)
    PROVE  RInv'
<1> DEFINE q == rec[c]
           r == [q EXCEPT !.step = "replay"]
<1>1. lsn \in Nat /\ Len(past) = lsn /\ Len(catalog) \in Nat /\ TypeOK
      /\ TableInv /\ EventInv /\ RecInv /\ BackupInv
      /\ q \in Recoveries /\ RecOk(q, past, Len(catalog), cfg.archive)
  BY RInvFacts DEF RInv
<1>2. /\ q.step = "copy"
      /\ Switch(q.at) \/ UNCHANGED closed
      /\ rec' = [rec EXCEPT ![c] = r] \/ rec' = [rec EXCEPT ![c] = NoRec]
      /\ UNCHANGED <<cfg, lsn, shipped, archive, dirs, catalog, made, pc, mem, crashes>>
      /\ UNCHANGED <<tab, past, ddl, store, ids, open, fwd, newest>>
  BY DEF Materialize, Continue, Rest
<1>3. BackupInv'
  BY <1>1, <1>2, SwitchKeeps
<1>4. TableInv' /\ EventInv'
  BY <1>1, <1>2, EventsRest DEF TableInv
<1>5. NoRec \in Recoveries /\ RecOk(NoRec, past, Len(catalog), cfg.archive)
  BY <1>1, NoRecOk
<1> HIDE DEF q
<1>6. r \in Recoveries /\ r.step = "replay" /\ r.base = q.base /\ r.at = q.at /\ r.want = q.want
  BY <1>1, StepMoves
<1> HIDE DEF r
<1>7. RecOk(r, past, Len(catalog), cfg.archive)
  BY <1>1, <1>2, <1>6 DEF RecOk
<1>8. RecInv'
  <2>1. \E d \in Clients, x \in Recoveries :
           rec' = [rec EXCEPT ![d] = x] /\ RecOk(x, past', Len(catalog'), cfg.archive)
    BY <1>2, <1>5, <1>6, <1>7
  <2>2. HistoryGrows
    BY <1>1, <1>2 DEF HistoryGrows
  <2> QED
    BY <1>1, <2>1, <2>2, RecInvStays
<1> QED
  BY <1>3, <1>4, <1>8 DEF RInv

LEMMA ReplayKeeps ==
    ASSUME RInv, NEW c \in Clients, Replay(c)
    PROVE  RInv'
<1> DEFINE q == rec[c]
           n == Target(q)
           r == Applying(q, past[n])
<1>1. /\ lsn \in Nat /\ lsn > 0 /\ Len(past) = lsn /\ Len(catalog) \in Nat
      /\ q \in Recoveries /\ RecOk(q, past, Len(catalog), cfg.archive)
      /\ \A i \in 1..Len(catalog) : catalog[i].lsn \in 1..lsn
      /\ \A i \in 1..lsn : past[i] \in Table
  BY RInvFacts
<1>2. /\ q.step = "replay"
      /\ rec' = [rec EXCEPT ![c] = r] \/ rec' = [rec EXCEPT ![c] = NoRec]
      /\ UNCHANGED <<vars, tab, past, ddl, store, ids, open, fwd, newest>>
  BY DEF Replay, Continue, Rest, Applying
<1>3. q.base \in 1..Len(catalog) /\ q.at \in Nat /\ (q.at > 0 => q.at - 1 \in 1..lsn)
      /\ q.want \in Nat
  BY <1>1, <1>2, RecoveryFields DEF RecOk
<1>4. n \in 1..lsn
  BY <1>1, <1>3 DEF Target
<1>5. q.want > 0 /\ cfg.archive => n = q.want - 1
  BY <1>1, <1>3 DEF Target, RecOk
<1>6. NoRec \in Recoveries /\ RecOk(NoRec, past, Len(catalog), cfg.archive)
  BY <1>1, NoRecOk
<1> HIDE DEF q, n
<1>7. r \in Recoveries /\ r.step = "apply" /\ r.base = q.base /\ r.at = q.at /\ r.want = q.want
      /\ r.copy = past[n]
  <2>1. past[n] \in Table
    BY <1>1, <1>4
  <2> QED
    BY <1>1, <2>1, ApplyingMoves
<1> HIDE DEF r
<1>8. RecOk(r, past, Len(catalog), cfg.archive)
  BY <1>1, <1>2, <1>3, <1>5, <1>7 DEF RecOk
<1>9. \E d \in Clients, x \in Recoveries :
         rec' = [rec EXCEPT ![d] = x] /\ RecOk(x, past, Len(catalog), cfg.archive)
  BY <1>2, <1>6, <1>7, <1>8
<1> QED
  BY <1>2, <1>9, CommandKeeps

LEMMA EndRecoveryKeeps ==
    ASSUME RInv, NEW c \in Clients, EndRecovery(c)
    PROVE  RInv'
<1>1. /\ rec' = [rec EXCEPT ![c] = NoRec]
      /\ UNCHANGED <<vars, tab, past, ddl, store, ids, open, fwd, newest>>
  BY DEF EndRecovery, Continue, Rest
<1>2. NoRec \in Recoveries /\ RecOk(NoRec, past, Len(catalog), cfg.archive)
  BY RInvFacts, NoRecOk
<1> QED
  BY <1>1, <1>2, CommandKeeps

-----------------------------------------------------------------------------
(* The steps that write to the table.                                       *)

LEMMA AppKeeps ==
    ASSUME RInv, AppCreate \/ OtherWrite \/ \E k \in limit.keys : AppWrite(k)
    PROVE  RInv'
<1>1. tab \in Table /\ TypeOK /\ lsn \in Nat
  BY RInvFacts
<1>2. CASE AppCreate
  <2>1. Empty \in Table /\ Record(Empty) /\ UNCHANGED <<ddl, store, ids, open, fwd, rec, newest>>
    BY <1>2, TableUpdates DEF AppCreate
  <2> QED
    BY <2>1, WritingKeeps
<1>3. CASE OtherWrite
  <2>1. Record(tab) /\ UNCHANGED <<ddl, store, ids, open, fwd, rec, newest>>
    BY <1>3 DEF OtherWrite
  <2> QED
    BY <1>1, <2>1, WritingKeeps
<1>4. ASSUME NEW k \in limit.keys, AppWrite(k)
      PROVE  RInv'
  <2> DEFINE R == {r \in tab.rows : r[1] # k} \cup {<<k, IF tab.col THEN lsn + 1 ELSE 0>>}
             t == [tab EXCEPT !.rows = R]
  <2>1. Record(t) /\ UNCHANGED <<ddl, store, ids, open, fwd, rec, newest>>
    BY <1>4 DEF AppWrite
  <2>2. k \in Keys
    BY <1>1, LimitTypes
  <2>3. R \in SUBSET (Keys \X Nat)
    BY <1>1, <2>2, TableTypes
  <2> HIDE DEF R
  <2>4. t \in Table
    BY <1>1, <2>3, TableUpdates
  <2> HIDE DEF t
  <2> QED
    BY <2>1, <2>4, WritingKeeps
<1> QED
  BY <1>2, <1>3, <1>4

LEMMA CreateTableKeeps ==
    ASSUME RInv, NEW c \in Clients, CreateTable(c)
    PROVE  RInv'
<1> DEFINE q == rec[c]
           t == [q.copy EXCEPT !.pk = FALSE, !.rows = {}]
           r == [q EXCEPT !.step = "load"]
<1>1. q \in Recoveries /\ RecOk(q, past, Len(catalog), cfg.archive)
  BY RInvFacts
<1>2. /\ q.step = "apply" /\ Record(t) /\ rec' = [rec EXCEPT ![c] = r]
      /\ UNCHANGED <<ddl, store, ids, open, fwd, newest>>
  BY DEF CreateTable, Continue
<1> HIDE DEF q
<1>3. t \in Table
  <2>1. q.copy \in Table /\ {} \in SUBSET (Keys \X Nat)
    BY <1>1, RecoveryFields
  <2> QED
    BY <2>1, TableUpdates
<1>4. r \in Recoveries /\ r.step = "load" /\ r.base = q.base /\ r.at = q.at
      /\ r.want = q.want /\ r.copy = q.copy
  BY <1>1, StepMoves
<1> HIDE DEF t, r
<1>5. RecOk(r, past, Len(catalog), cfg.archive)
  BY <1>1, <1>2, <1>4 DEF RecOk
<1> QED
  BY <1>2, <1>3, <1>4, <1>5, WritingKeeps

LEMMA LoadTableKeeps ==
    ASSUME RInv, NEW c \in Clients, LoadTable(c)
    PROVE  RInv'
<1> DEFINE R == tab.rows \cup rec[c].copy.rows
           b == \A r, q \in R : r[1] = q[1] => r = q
           t == [tab EXCEPT !.rows = R, !.pk = b]
<1>1. /\ Record(t) /\ rec' = [rec EXCEPT ![c] = NoRec]
      /\ UNCHANGED <<ddl, store, ids, open, fwd, newest>>
  BY DEF LoadTable, Continue
<1>2. tab \in Table /\ rec[c].copy \in Table
  BY RInvFacts, RecoveryFields
<1>3. R \in SUBSET (Keys \X Nat) /\ b \in BOOLEAN
  BY <1>2, TableTypes
<1> HIDE DEF R, b
<1>4. t \in Table
  BY <1>2, <1>3, TableUpdates
<1> HIDE DEF t
<1> QED
  BY <1>1, <1>4, WritingKeeps

LEMMA InsertRowsKeeps ==
    ASSUME RInv, NEW c \in Clients, InsertRows(c)
    PROVE  RInv'
<1> DEFINE R == tab.rows \cup {r \in rec[c].copy.rows : r[1] \notin KeysOf(tab)}
           t == [tab EXCEPT !.rows = R]
<1>1. /\ Record(t) /\ rec' = [rec EXCEPT ![c] = NoRec]
      /\ UNCHANGED <<ddl, store, ids, open, fwd, newest>>
  BY DEF InsertRows, Continue
<1>2. tab \in Table /\ rec[c].copy \in Table
  BY RInvFacts, RecoveryFields
<1>3. R \in SUBSET (Keys \X Nat)
  BY <1>2, TableTypes
<1> HIDE DEF R
<1>4. t \in Table
  BY <1>2, <1>3, TableUpdates
<1> HIDE DEF t
<1> QED
  BY <1>1, <1>4, WritingKeeps

LEMMA AddColumnKeeps ==
    ASSUME RInv, NEW c \in Clients, AddColumn(c)
    PROVE  RInv'
<1> DEFINE copy == rec[c].copy
           R == {r \in tab.rows : r[1] \notin KeysOf(copy)} \cup
                {r \in copy.rows : r[1] \in KeysOf(tab)}
           t == [tab EXCEPT !.col = TRUE, !.rows = R]
<1>1. /\ Record(t) /\ rec' = [rec EXCEPT ![c] = NoRec]
      /\ UNCHANGED <<ddl, store, ids, open, fwd, newest>>
  BY DEF AddColumn, Continue
<1>2. tab \in Table /\ rec[c].copy \in Table
  BY RInvFacts, RecoveryFields
<1>3. R \in SUBSET (Keys \X Nat)
  BY <1>2, TableTypes
<1> HIDE DEF R
<1>4. t \in Table
  BY <1>2, <1>3, TableUpdates
<1> HIDE DEF t
<1> QED
  BY <1>1, <1>4, WritingKeeps

(* The destructive transactions. *)
LEMMA EffectTypes ==
    ASSUME tab \in Table, NEW tag
    PROVE  Effect(tag) \in Table
<1>1. KeysOf(tab) \X {0} \in SUBSET (Keys \X Nat) /\ {} \in SUBSET (Keys \X Nat)
  BY TableTypes DEF KeysOf
<1>2. Gone \in Table /\ [tab EXCEPT !.rows = {}] \in Table
      /\ [tab EXCEPT !.col = FALSE, !.rows = KeysOf(tab) \X {0}] \in Table
  BY <1>1, TableUpdates
<1> QED
  BY <1>2 DEF Effect

LEMMA DdlKeeps ==
    ASSUME RInv, NEW s \in limit.sessions,
           DdlCommit(s) \/ DdlRollback(s) \/ \E tag \in limit.tags : DdlTrigger(s, tag)
    PROVE  RInv'
<1>1. /\ TypeOK /\ TableInv /\ EventInv /\ RecInv /\ BackupInv
      /\ lsn \in Nat /\ lsn > 0 /\ tab \in Table /\ Len(catalog) \in Nat /\ Len(past) = lsn
  BY RInvFacts DEF RInv
<1>2. s \in Sessions /\ limit.tags \subseteq Tags
  BY <1>1, LimitTypes
<1>3. ASSUME NEW t \in Table, Record(t), EventInv', UNCHANGED rec
      PROVE  RInv'
  <2>1. /\ BackupInv' /\ TableInv' /\ UNCHANGED <<cfg, catalog>>
        /\ lsn' = lsn + 1 /\ Len(past') = lsn + 1 /\ \A n \in 1..lsn : past'[n] = past[n]
    BY <1>1, <1>3, RecordKeeps
  <2>2. HistoryGrows
    BY <1>1, <2>1 DEF HistoryGrows
  <2>3. RecInv'
    BY <1>1, <1>3, <2>2, RecInvStays
  <2> QED
    BY <1>3, <2>1, <2>3 DEF RInv
<1>4. CASE DdlCommit(s)
  <2> DEFINE t == Effect(open[s].tag)
  <2>1. Record(t) /\ UNCHANGED rec
    BY <1>4 DEF DdlCommit
  <2>2. t \in Table
    BY <1>1, EffectTypes
  <2> HIDE DEF t
  <2>3. lsn' = lsn + 1 /\ UNCHANGED cfg
    BY <1>1, <2>1, <2>2, RecordKeeps
  <2>4. EventInv'
    BY <1>1, <1>2, <1>4, <2>3, CommitKeeps
  <2> QED
    BY <1>3, <2>1, <2>2, <2>4
<1>5. CASE DdlRollback(s)
  <2>1. EventInv'
    BY <1>1, <1>2, <1>5, RollbackKeeps
  <2>2. UNCHANGED <<vars, tab, past, rec>>
    BY <1>5 DEF DdlRollback
  <2>3. BackupInv' /\ TableInv'
    BY <1>1, <2>2, BackupInvStutter DEF TableInv, vars
  <2>4. HistoryGrows
    BY <1>1, <2>2 DEF HistoryGrows, vars
  <2>5. RecInv'
    BY <1>1, <2>2, <2>4, RecInvStays
  <2> QED
    BY <2>1, <2>3, <2>5 DEF RInv
<1>6. ASSUME NEW tag \in limit.tags, DdlTrigger(s, tag)
      PROVE  RInv'
  <2>1. Record(tab) /\ UNCHANGED rec
    BY <1>6 DEF DdlTrigger
  <2>2. lsn' = lsn + 1 /\ UNCHANGED cfg
    BY <1>1, <2>1, RecordKeeps
  <2>3. EventInv'
    BY <1>1, <1>2, <1>6, <2>2, TriggerKeeps
  <2> QED
    BY <1>1, <1>3, <2>1, <2>3
<1> QED
  BY <1>4, <1>5, <1>6

LEMMA ForwardKeeps ==
    ASSUME RInv, ForwardRead \/ ForwardShip \/ ForwardPrune \/ ForwardFail
    PROVE  RInv'
<1>1. /\ TableInv /\ EventInv /\ RecInv /\ BackupInv
      /\ lsn \in Nat /\ Len(catalog) \in Nat /\ Len(past) = lsn
  BY RInvFacts DEF RInv
<1>2. EventInv'
  BY <1>1, ForwardReadKeeps, ForwardShipKeeps, ForwardPruneKeeps, ForwardFailKeeps
<1>3. UNCHANGED <<vars, tab, past, rec>>
  BY DEF ForwardRead, ForwardShip, ForwardPrune, ForwardFail
<1>4. BackupInv' /\ TableInv'
  BY <1>1, <1>3, BackupInvStutter DEF TableInv, vars
<1>5. HistoryGrows
  BY <1>1, <1>3 DEF HistoryGrows, vars
<1>6. RecInv'
  BY <1>1, <1>3, <1>5, RecInvStays
<1> QED
  BY <1>2, <1>4, <1>6 DEF RInv

LEMMA BackupStepKeeps ==
    ASSUME RInv, OneProcess, BackupStep
    PROVE  RInv'
<1>1. /\ TypeOK /\ TableInv /\ EventInv /\ RecInv /\ BackupInv
      /\ lsn \in Nat /\ Len(past) = lsn
  BY RInvFacts DEF RInv
<1>2. UNCHANGED <<tab, past, ddl, store, ids, open, fwd, rec, newest>>
  BY DEF BackupStep, recovery
<1>3. \/ ArchiveSegment
      \/ \E p \in Procs : Step(p) \/ \E t : StartCycle(p, t)
  BY DEF BackupStep
<1>4. BackupInv'
  BY <1>1, <1>3, ArchiveSegmentKeeps, StepKeeps, StartCycleKeeps
<1>5. /\ UNCHANGED <<cfg, lsn>>
      /\ Len(catalog) \in Nat /\ Len(catalog') \in Nat /\ Len(catalog) <= Len(catalog')
  BY <1>1, <1>3, BackupFrame
<1>6. TableInv'
  BY <1>1, <1>2, <1>5 DEF TableInv
<1>7. EventInv'
  BY <1>1, <1>2, <1>5, EventsRest
<1>8. HistoryGrows
  BY <1>1, <1>2, <1>5 DEF HistoryGrows
<1>9. RecInv'
  BY <1>1, <1>2, <1>8, RecInvStays
<1> QED
  BY <1>4, <1>6, <1>7, <1>9 DEF RInv

-----------------------------------------------------------------------------
(* The theorems.                                                            *)

LEMMA RInvInit ==
    ASSUME RInit
    PROVE  RInv
<1>1. /\ Init /\ lsn = 1 /\ tab = Empty /\ past = <<Empty>> /\ catalog = << >>
      /\ ddl = {} /\ store = << >> /\ ids = 0
      /\ open = [s \in Sessions |-> None]
      /\ fwd = [step |-> "idle", rows |-> {}]
      /\ rec = [c \in Clients |-> NoRec]
      /\ newest = [tag \in Tags |-> None]
  BY DEF RInit, Init
<1>2. BackupInv
  BY <1>1, BackupInvInit
<1>3. TableInv
  <2>1. Empty \in Table
    BY TableUpdates
  <2>2. <<Empty>> \in Seq(Table) /\ Len(<<Empty>>) = 1
    <3> HIDE DEF Empty
    <3> QED
      BY <2>1
  <2> QED
    BY <1>1, <2>1, <2>2 DEF TableInv
<1>4. EventInv
  <2>1. EventTypes
    BY <1>1, FS_EmptySet DEF EventTypes
  <2>2. Stored = {}
    BY <1>1 DEF Stored
  <2>3. Known = {}
    BY <1>1, <2>2 DEF Known
  <2>4. EventIds
    BY <2>3 DEF EventIds
  <2>5. TableLock
    BY <1>1, EventFields DEF TableLock
  <2>6. StoreSorted /\ Forwarding
    BY <1>1, <2>2 DEF StoreSorted, Forwarding
  <2>7. NewestLast
    BY <1>1, <2>2, EventFields DEF NewestLast
  <2> QED
    BY <2>1, <2>4, <2>5, <2>6, <2>7 DEF EventInv
<1>5. RecInv
  <2>1. Len(catalog) \in Nat
    BY <1>1
  <2> QED
    BY <1>1, <2>1, NoRecOk DEF RecInv
<1> QED
  BY <1>2, <1>3, <1>4, <1>5 DEF RInv

LEMMA RInvStutter ==
    ASSUME RInv, UNCHANGED rvars
    PROVE  RInv'
<1>1. UNCHANGED vars /\ UNCHANGED <<tab, past, ddl, store, ids, open, fwd, newest>> /\ UNCHANGED rec
  BY DEF rvars, recovery
<1> QED
  BY <1>1, CommandKeeps

LEMMA RInvNext ==
    ASSUME RInv, OneProcess, RNext
    PROVE  RInv'
<1>1. CASE BackupStep
  BY <1>1, BackupStepKeeps
<1>2. CASE AppCreate \/ OtherWrite \/ \E k \in limit.keys : AppWrite(k)
  BY <1>2, AppKeeps
<1>3. ASSUME NEW s \in limit.sessions,
             DdlCommit(s) \/ DdlRollback(s) \/ \E tag \in limit.tags : DdlTrigger(s, tag)
      PROVE  RInv'
  BY <1>3, DdlKeeps
<1>4. CASE ForwardRead \/ ForwardShip \/ ForwardPrune \/ ForwardFail
  BY <1>4, ForwardKeeps
<1>5. ASSUME NEW c \in Clients, NEW tag \in limit.tags \cap ObjectTags,
             Look(c, tag) \/ NameSnapshot(c, tag)
      PROVE  RInv'
  BY <1>5, LookKeeps, NameSnapshotKeeps
<1>6. ASSUME NEW c \in Clients,
             \/ AsOf(c) \/ LookInTenant(c) \/ Pick(c) \/ Materialize(c) \/ Replay(c)
             \/ CreateTable(c) \/ LoadTable(c) \/ InsertRows(c) \/ AddColumn(c)
             \/ EndRecovery(c)
      PROVE  RInv'
  BY <1>6, AsOfKeeps, LookInTenantKeeps, PickKeeps, MaterializeKeeps, ReplayKeeps,
     CreateTableKeeps, LoadTableKeeps, InsertRowsKeeps, AddColumnKeeps, EndRecoveryKeeps
<1> QED
  BY <1>1, <1>2, <1>3, <1>4, <1>5, <1>6 DEF RNext

(* The invariant of the backups, the two logs, the forwarder and the        *)
(* commands: every other theorem about recovery follows from it.            *)
THEOREM RecoveryInvariant ==
    ASSUME OneProcess
    PROVE  RSpec => []RInv
<1>1. RInit => RInv
  BY RInvInit
<1>2. RInv /\ [RNext]_rvars => RInv'
  BY RInvNext, RInvStutter
<1> QED
  BY <1>1, <1>2, PTL DEF RSpec

(* Every variable of recovery keeps its type: a command's backup is in the  *)
(* catalogue, and the events of both logs come from the tenant's sequence.  *)
THEOREM RecoveryTypes ==
    ASSUME OneProcess
    PROVE  RSpec => []RTypeOK
<1>1. RInv => RTypeOK
  <2> SUFFICES ASSUME RInv PROVE RTypeOK
    OBVIOUS
  <2>1. TypeOK /\ TableInv /\ EventInv /\ RecInv /\ Len(catalog) \in Nat
    BY RInvFacts
  <2>2. EventTypes /\ \A r \in Known : r.id \in 1..ids
    BY <2>1 DEF EventInv, EventIds
  <2>3. \A r \in ddl \cup Stored : r.id \in 1..ids /\ r.tag \in Tags
    BY <2>2, KnownFacts, EventFields
  <2>4. \A c \in Clients : rec[c].base \in 0..Len(catalog) /\ rec[c].copy \in Table
    <3> SUFFICES ASSUME NEW c \in Clients
                 PROVE  rec[c].base \in 0..Len(catalog) /\ rec[c].copy \in Table
      OBVIOUS
    <3>1. rec[c] \in Recoveries /\ rec[c].base <= Len(catalog)
      BY <2>1 DEF RecInv, RecOk
    <3>2. rec[c].base \in Nat /\ rec[c].copy \in Table
      BY <3>1, RecoveryFields
    <3> QED
      BY <2>1, <3>1, <3>2
  <2>5. \A i \in 1..Len(catalog) : catalog[i].walStart <= catalog[i].lsn
    BY DEF RInv, BackupInv, Ordered, Rows
  <2> QED
    BY <2>1, <2>3, <2>4, <2>5 DEF RTypeOK, TableInv, Stored
<1> QED
  BY <1>1, RecoveryInvariant, PTL

(* retention.go, snapshot.go: a backup that recovery may pick has its log   *)
(* in the archive, from its first segment to the last one shipped.          *)
THEOREM ChainStaysUnbroken ==
    ASSUME OneProcess
    PROVE  RSpec => []ChainUnbroken
<1>1. RInv => ChainUnbroken
  BY DEF RInv, BackupInv
<1> QED
  BY <1>1, RecoveryInvariant, PTL

(* ddlforward.go: the store has an event once, and the events of the table  *)
(* in the order in which they happened.                                     *)
THEOREM StoreStaysInOrder ==
    ASSUME OneProcess
    PROVE  RSpec => []StoreOrder
<1>1. RInv => StoreOrder
  <2> SUFFICES ASSUME RInv, NEW i \in 1..Len(store), NEW j \in 1..Len(store), i < j
               PROVE  /\ store[i].id # store[j].id
                      /\ store[i].tag = store[j].tag /\ store[i].tag \in ObjectTags =>
                            store[i].at < store[j].at
    BY DEF StoreOrder
  <2>1. EventTypes /\ EventIds /\ StoreSorted
    BY DEF RInv, EventInv
  <2>2. store[i] \in Known /\ store[j] \in Known
    BY <2>1, KnownFacts
  <2> QED
    BY <2>1, <2>2 DEF StoreSorted, EventIds
<1> QED
  BY <1>1, RecoveryInvariant, PTL

(* recover.go, timetravel.go: what a command extracts is the table as it    *)
(* was just before the newest event of its kind, however the forwarder,     *)
(* retention, other commands and new events interleave with it.             *)
THEOREM RestoredIsExact ==
    ASSUME OneProcess
    PROVE  RSpec => []RestoredExact
<1>1. RInv => RestoredExact
  BY DEF RInv, RecInv, RecOk, RestoredExact
<1> QED
  BY <1>1, RecoveryInvariant, PTL

-----------------------------------------------------------------------------
(* The window of retention.  A backup that an interrupted retention run has *)
(* left without its directory is still listed, so the next run may rely on  *)
(* it for points that need the older one it removes.  It cannot when only   *)
(* one of the rules is set, and does not when every listed backup has its   *)
(* directory.                                                               *)

\* A backup ends before the next one starts; names are given once.
Stamped ==
    /\ \A i \in Rows : /\ catalog[i].name <= made
                       /\ catalog[i].lsn <= catalog[i].created
                       /\ catalog[i].created <= lsn
    /\ \A i, j \in Rows : i < j => /\ catalog[i].created <= catalog[j].lsn
                                   /\ catalog[i].name # catalog[j].name

\* A backup under way has its directory, under a name of its own, and started
\* after those in the catalogue.
Fresh(p) ==
    pc[p] \in {"copy", "seal"} =>
    /\ mem[p].name \in dirs /\ mem[p].name <= made
    /\ \A i \in Rows : /\ catalog[i].name # mem[p].name
                       /\ catalog[i].created <= mem[p].start

\* As old as the horizon.
Late(x) == cfg.horizon > 0 /\ catalog[x].created + cfg.horizon <= lsn

\* A retention run keeps a backup that serves whatever the ones it removes do:
\* an older one, or for the horizon rule the one that anchors the horizon.
KeptBy(x, todo) ==
    /\ x \in Live \ todo
    /\ OneRule => catalog[x].name \in dirs
    /\ \A i \in todo : (cfg.retain > 0 /\ x < i) \/ (i < x /\ Late(x))

Keeping(p) ==
    /\ pc[p] \in {"remove", "mark"} => \E x \in Live : KeptBy(x, mem[p].todo)
    /\ pc[p] = "mark" => catalog[MinOf(mem[p].todo)].name \notin dirs

\* With one rule, a live backup without a directory is the one being marked,
\* or one that no later run takes for the backup to keep.
Spared(i) ==
    \/ ~OneRule
    \/ catalog[i].name \in dirs
    \/ \E p \in Procs : pc[p] = "mark" /\ i = MinOf(mem[p].todo)
    \/ cfg.horizon = 0 /\ \E j \in Live : j < i
    \/ cfg.retain = 0 /\ \E j \in Live : i < j /\ Late(j)

WindowInv ==
    /\ Stamped
    /\ \A p \in Procs : Fresh(p) /\ Keeping(p)
    /\ \A i \in Live : Spared(i)

(* Steps that leave the catalogue and the directories keep the window. *)
LEMMA WindowRests ==
    ASSUME BackupInv, WindowInv,
           UNCHANGED <<cfg, dirs, catalog, made, pc, mem>>, lsn' \in Nat, lsn <= lsn'
    PROVE  WindowInv'
<1>1. TypeOK /\ lsn \in Nat /\ cfg.horizon \in Nat
  BY BackupsAssumption DEF BackupInv, TypeOK, Policy
<1>2. Rows' = Rows /\ Live' = Live /\ Live \subseteq Rows
  BY <1>1, CatalogTypes DEF Rows, Live
<1>3. \A i \in Rows : catalog[i].created \in Nat
  BY <1>1, CatalogTypes
<1>4. \A x \in Rows : Late(x) => Late(x)'
  BY <1>1, <1>3 DEF Late
<1>5. Stamped'
  BY <1>1, <1>2, <1>3 DEF WindowInv, Stamped
<1>6. \A p \in Procs : Fresh(p)'
  BY <1>2 DEF WindowInv, Fresh
<1>7. \A x \in Live : \A t : KeptBy(x, t) => KeptBy(x, t)'
  BY <1>2, <1>4 DEF KeptBy, OneRule
<1>8. \A p \in Procs : Keeping(p)'
  BY <1>2, <1>7 DEF WindowInv, Keeping
<1>9. \A i \in Live : Spared(i)'
  <2> SUFFICES ASSUME NEW i \in Live PROVE Spared(i)'
    OBVIOUS
  <2>1. Spared(i)
    BY DEF WindowInv
  <2>2. \A j \in Live : Late(j) => Late(j)'
    BY <1>2, <1>4
  <2> QED
    BY <1>2, <2>1, <2>2 DEF Spared, OneRule
<1> QED
  BY <1>2, <1>5, <1>6, <1>8, <1>9 DEF WindowInv

(* A step of the only process to a label where nothing is held, which leaves
   the catalogue and removes nothing that is in it. *)
LEMMA WindowQuiet ==
    ASSUME BackupInv, WindowInv, OneProcess, NEW p \in Procs,
           NEW label \in {"idle", "decide", "probe", "list", "clean"}, NEW held \in Held,
           Goto(p, label, held),
           UNCHANGED <<cfg, lsn, catalog>>, made' \in Nat, made <= made',
           \A i \in Rows : catalog[i].name \in dirs => catalog[i].name \in dirs'
    PROVE  WindowInv'
<1>1. TypeOK /\ lsn \in Nat /\ cfg.horizon \in Nat /\ cfg.retain \in Nat /\ made \in Nat
  BY BackupsAssumption DEF BackupInv, TypeOK, Policy
<1>2. Rows' = Rows /\ Live' = Live /\ Live \subseteq Rows /\ Live \in SUBSET Nat
  BY <1>1, CatalogTypes DEF Rows, Live
<1>3. \A q \in Procs : pc'[q] = label /\ q = p
  BY <1>1, GotoTypes DEF Labels, OneProcess
<1>4. \A i \in Rows : catalog[i].name \in Nat
  BY <1>1, CatalogTypes
<1>5. Stamped'
  BY <1>1, <1>2, <1>4 DEF WindowInv, Stamped
<1>6. \A q \in Procs : Fresh(q)' /\ Keeping(q)'
  BY <1>3 DEF Fresh, Keeping
<1>7. \A x \in Live : Late(x) <=> Late(x)'
  BY DEF Late
<1>8. ASSUME NEW i \in Live PROVE Spared(i)'
  <2>1. Spared(i)
    BY DEF WindowInv
  <2>0. CASE ~OneRule
    BY <2>0 DEF Spared, OneRule
  <2>2. CASE catalog[i].name \in dirs
    BY <1>2, <2>2 DEF Spared
  <2>3. ASSUME OneRule, NEW q \in Procs, pc[q] = "mark", i = MinOf(mem[q].todo)
        PROVE  Spared(i)'
    <3>1. q = p /\ (cfg.retain = 0 \/ cfg.horizon = 0)
      BY <1>3, <2>3 DEF OneRule
    <3>2. i \in mem[p].todo
      <4>1. mem[p] \in Held /\ mem[p].todo # {}
        BY <1>1, <2>3, <3>1 DEF BackupInv, Holding, TypeOK
      <4> QED
        BY <2>3, <3>1, <4>1, HeldTypes, MinLeast
    <3>3. PICK x \in Live : (cfg.retain > 0 /\ x < i) \/ (i < x /\ Late(x))
      BY <2>3, <3>1, <3>2 DEF WindowInv, Keeping, KeptBy
    <3>4. CASE cfg.horizon = 0
      <4>1. x < i
        BY <3>3, <3>4 DEF Late
      <4> QED
        BY <1>2, <3>4, <4>1 DEF Spared
    <3>5. CASE cfg.retain = 0
      <4>1. i < x /\ Late(x)
        BY <3>3, <3>5
      <4> QED
        BY <1>2, <1>7, <3>5, <4>1 DEF Spared
    <3> QED
      BY <3>1, <3>4, <3>5
  <2>4. CASE \/ cfg.horizon = 0 /\ \E j \in Live : j < i
             \/ cfg.retain = 0 /\ \E j \in Live : i < j /\ Late(j)
    BY <1>2, <1>7, <2>4 DEF Spared
  <2> QED
    BY <2>0, <2>1, <2>2, <2>3, <2>4 DEF Spared
<1> QED
  BY <1>2, <1>5, <1>6, <1>8 DEF WindowInv

LEMMA WindowQuietSteps ==
    ASSUME BackupInv, WindowInv, OneProcess, NEW p \in Procs,
           \/ Decide(p) \/ StartSnapshot(p) \/ ProbeFails(p) \/ DiscardBackup(p)
           \/ CleanArchive(p) \/ Crash(p) \/ \E t : StartCycle(p, t)
    PROVE  WindowInv'
<1>1. TypeOK /\ lsn \in Nat /\ made \in Nat
  BY DEF BackupInv, TypeOK
<1>2. Nothing \in Held /\ \A c \in BOOLEAN : [Nothing EXCEPT !.target = lsn, !.cycle = c] \in Held
  BY <1>1, NothingHeld, HeldProbe
<1> DEFINE Labels0 == {"idle", "decide", "probe", "list", "clean"}
           Quiet == /\ \E label \in Labels0, held \in Held : Goto(p, label, held)
                    /\ UNCHANGED <<cfg, lsn, catalog, made>>
                    /\ \A i \in Rows : catalog[i].name \in dirs => catalog[i].name \in dirs'
<1>3. ASSUME Decide(p) PROVE Quiet
  <2>1. pc[p] = "decide" /\ UNCHANGED <<cfg, lsn, catalog, dirs, made>>
    BY <1>3 DEF Decide
  <2>2. \/ Goto(p, "probe", [Nothing EXCEPT !.target = lsn, !.cycle = TRUE])
        \/ Goto(p, "idle", Nothing)
    BY <1>3 DEF Decide, Probe
  <2>3. \E label \in Labels0, held \in Held : Goto(p, label, held)
    BY <1>2, <2>2
  <2> QED
    BY <2>1, <2>3
<1>4. ASSUME StartSnapshot(p) PROVE Quiet
  <2>1. /\ pc[p] = "idle" /\ UNCHANGED <<cfg, lsn, catalog, dirs, made>>
        /\ Goto(p, "probe", [Nothing EXCEPT !.target = lsn, !.cycle = FALSE])
    BY <1>4 DEF StartSnapshot, Probe
  <2>2. \E label \in Labels0, held \in Held : Goto(p, label, held)
    BY <1>2, <2>1
  <2> QED
    BY <2>1, <2>2
<1>5. ASSUME ProbeFails(p) PROVE Quiet
  <2>1. /\ pc[p] = "probe" /\ UNCHANGED <<cfg, lsn, catalog, dirs, made>>
        /\ Goto(p, "idle", Nothing)
    BY <1>5 DEF ProbeFails, wal
  <2> QED
    BY <1>2, <2>1
<1>6. ASSUME DiscardBackup(p) PROVE Quiet
  <2>1. Fresh(p)
    BY DEF WindowInv
  <2>2. /\ pc[p] = "seal" /\ Goto(p, "idle", Nothing)
        /\ dirs' = dirs \ {mem[p].name} /\ UNCHANGED <<cfg, lsn, catalog, made>>
    BY <1>6 DEF DiscardBackup, wal
  <2>3. \A i \in Rows : catalog[i].name \in dirs => catalog[i].name \in dirs'
    BY <2>1, <2>2 DEF Fresh
  <2> QED
    BY <1>2, <2>2, <2>3
<1>7. ASSUME CleanArchive(p) PROVE Quiet
  <2>1. /\ pc[p] = "clean" /\ UNCHANGED <<cfg, lsn, catalog, dirs, made>>
        /\ Goto(p, "idle", Nothing)
    BY <1>7 DEF CleanArchive, wal
  <2> QED
    BY <1>2, <2>1
<1>8. ASSUME Crash(p) PROVE Quiet
  <2>1. Goto(p, "idle", Nothing) /\ UNCHANGED <<cfg, lsn, catalog, dirs, made>>
    BY <1>8 DEF Crash, wal
  <2> QED
    BY <1>2, <2>1
<1>9. ASSUME NEW t, StartCycle(p, t)
      PROVE  Quiet
  <2>1. /\ pc[p] = "idle" /\ UNCHANGED <<cfg, lsn, catalog, dirs, made>>
        /\ Goto(p, "decide", Nothing)
    BY <1>9 DEF StartCycle
  <2> QED
    BY <1>2, <2>1
<1>10. Quiet
  BY <1>3, <1>4, <1>5, <1>6, <1>7, <1>8, <1>9
<1>11. PICK label \in Labels0, held \in Held : Goto(p, label, held)
  BY <1>10
<1>12. made' \in Nat /\ made <= made'
  BY <1>1, <1>10
<1> QED
  BY <1>10, <1>11, <1>12, WindowQuiet

(* pg_basebackup makes a directory and ends: no row is touched, and the only
   process was not marking one. *)
LEMMA WindowCopies ==
    ASSUME BackupInv, WindowInv, OneProcess, NEW p \in Procs,
           BeginBackup(p) \/ EndBackup(p)
    PROVE  WindowInv'
<1>1. TypeOK /\ lsn \in Nat /\ made \in Nat /\ mem[p] \in Held
  BY DEF BackupInv, TypeOK
<1>2. mem[p].name \in Nat /\ mem[p].start \in Nat
  BY <1>1, HeldTypes
<1>3. \A i \in Rows : catalog[i].name \in Nat /\ catalog[i].created \in Nat
  BY <1>1, CatalogTypes
<1>4. \A q \in Procs : q = p
  BY DEF OneProcess
<1>5. /\ UNCHANGED <<cfg, lsn, catalog>> /\ made' \in Nat /\ made <= made' /\ dirs \subseteq dirs'
      /\ pc[p] # "mark"
  BY <1>1 DEF BeginBackup, EndBackup, wal
<1>6. \E label \in {"copy", "seal"}, held \in Held :
        /\ Goto(p, label, held)
        /\ held.name \in dirs' /\ held.name <= made'
        /\ \A i \in Rows : catalog[i].name # held.name /\ catalog[i].created <= held.start
  <2>1. CASE BeginBackup(p)
    <3> DEFINE h == [mem[p] EXCEPT !.name = made + 1, !.start = lsn]
    <3>1. h \in Held /\ h.start = lsn /\ h.name = made + 1
      <4>1. made + 1 \in Nat
        BY <1>1
      <4> QED
        BY <1>1, <4>1 DEF Held
    <3>2. Goto(p, "copy", h) /\ made' = made + 1 /\ dirs' = dirs \cup {made + 1}
      BY <2>1 DEF BeginBackup
    <3> HIDE DEF h
    <3>3. \A i \in Rows : catalog[i].name # h.name /\ catalog[i].created <= h.start
      BY <1>1, <1>3, <3>1 DEF WindowInv, Stamped
    <3>4. h.name \in dirs' /\ h.name <= made'
      BY <1>1, <3>1, <3>2
    <3> QED
      BY <3>1, <3>2, <3>3, <3>4
  <2>2. CASE EndBackup(p)
    <3> DEFINE h == [mem[p] EXCEPT !.end = lsn]
    <3>1. h \in Held /\ h.start = mem[p].start /\ h.name = mem[p].name
      BY <1>1 DEF Held
    <3>2. Goto(p, "seal", h) /\ UNCHANGED <<made, dirs>> /\ pc[p] = "copy"
      BY <2>2 DEF EndBackup
    <3> HIDE DEF h
    <3>3. /\ h.name \in dirs' /\ h.name <= made'
          /\ \A i \in Rows : catalog[i].name # h.name /\ catalog[i].created <= h.start
      BY <3>1, <3>2 DEF WindowInv, Fresh
    <3> QED
      BY <3>1, <3>2, <3>3
  <2> QED
    BY <2>1, <2>2
<1>7. PICK label \in {"copy", "seal"}, held \in Held :
        /\ Goto(p, label, held)
        /\ held.name \in dirs' /\ held.name <= made'
        /\ \A i \in Rows : catalog[i].name # held.name /\ catalog[i].created <= held.start
  BY <1>6
<1>8. \A q \in Procs : pc'[q] = label /\ mem'[q] = held
  BY <1>1, <1>7, GotoTypes DEF Labels
<1>9. Rows' = Rows /\ Live' = Live /\ Live \subseteq Rows
  BY <1>1, <1>5, CatalogTypes DEF Rows, Live
<1>10. Stamped'
  BY <1>1, <1>3, <1>5, <1>9 DEF WindowInv, Stamped
<1>11. \A q \in Procs : Fresh(q)' /\ Keeping(q)'
  BY <1>5, <1>7, <1>8, <1>9 DEF Fresh, Keeping
<1>12. \A i \in Live : Spared(i)'
  <2> SUFFICES ASSUME NEW i \in Live PROVE Spared(i)'
    OBVIOUS
  <2>1. Spared(i)
    BY DEF WindowInv
  <2>2. \A x \in Live : Late(x) => Late(x)'
    BY <1>5 DEF Late
  <2>3. ~\E q \in Procs : pc[q] = "mark"
    BY <1>4, <1>5
  <2> QED
    BY <1>5, <1>9, <2>1, <2>2, <2>3 DEF Spared, OneRule
<1> QED
  BY <1>9, <1>10, <1>11, <1>12 DEF WindowInv

LEMMA WindowRecords ==
    ASSUME BackupInv, WindowInv, OneProcess, NEW p \in Procs, RecordBackup(p)
    PROVE  WindowInv'
<1> DEFINE n == Len(catalog) + 1
           r == NewRow(p)
<1>1. TypeOK /\ mem[p] \in Held /\ lsn \in Nat /\ made \in Nat /\ catalog \in Seq(Row)
  BY DEF BackupInv, TypeOK
<1>2. mem[p].name \in Nat /\ mem[p].start \in Nat /\ mem[p].end \in Nat
  BY <1>1, HeldTypes
<1>3. /\ r \in Row /\ r.lsn = mem[p].end /\ r.created = lsn /\ r.name = mem[p].name
      /\ r.pruned = FALSE
  BY <1>1, <1>2 DEF NewRow, Row
<1>4. /\ pc[p] = "seal" /\ catalog' = Append(catalog, r)
      /\ Goto(p, "list", Nothing) \/ Goto(p, "idle", Nothing)
      /\ UNCHANGED <<cfg, lsn, dirs, made>>
  BY DEF RecordBackup, NewRow, wal
<1> HIDE DEF r
<1>5. \A q \in Procs : pc'[q] \in {"list", "idle"}
  BY <1>1, <1>4, GotoTypes, NothingHeld DEF Labels
<1>6. /\ Len(catalog) \in Nat /\ Len(catalog') = n
      /\ \A i \in Rows : catalog'[i] = catalog[i]
      /\ catalog'[n] = r
  BY <1>1, <1>3, <1>4, AppendProperties DEF Rows
<1>7. Fresh(p) /\ mem[p].start <= mem[p].end /\ mem[p].end <= lsn
  BY <1>4 DEF WindowInv, BackupInv, Holding
<1>8. /\ mem[p].name \in dirs /\ mem[p].name <= made
      /\ \A i \in Rows : catalog[i].name # mem[p].name /\ catalog[i].created <= mem[p].start
  BY <1>4, <1>7 DEF Fresh
<1>9. \A i \in Rows' : i \in Rows \/ i = n
  BY <1>6 DEF Rows
<1>10. \A i \in Rows : catalog[i].created \in Nat
  BY <1>1, CatalogTypes
<1>11. Stamped'
  <2>1. ASSUME NEW i \in Rows'
        PROVE  /\ catalog'[i].name <= made'
               /\ catalog'[i].lsn <= catalog'[i].created
               /\ catalog'[i].created <= lsn'
    <3>1. CASE i \in Rows
      BY <1>4, <1>6, <3>1 DEF WindowInv, Stamped
    <3>2. CASE i = n
      BY <1>1, <1>3, <1>4, <1>6, <1>7, <1>8, <3>2
    <3> QED
      BY <1>9, <3>1, <3>2
  <2>2. ASSUME NEW i \in Rows', NEW j \in Rows', i < j
        PROVE  catalog'[i].created <= catalog'[j].lsn /\ catalog'[i].name # catalog'[j].name
    <3>1. i \in Rows
      BY <1>6, <1>9, <2>2 DEF Rows
    <3>2. CASE j \in Rows
      BY <1>6, <2>2, <3>1, <3>2 DEF WindowInv, Stamped
    <3>3. CASE j = n
      <4>1. catalog[i].created <= mem[p].end /\ catalog[i].name # mem[p].name
        BY <1>2, <1>7, <1>8, <1>10, <3>1
      <4> QED
        BY <1>3, <1>6, <3>1, <3>3, <4>1
    <3> QED
      BY <1>9, <3>2, <3>3
  <2> QED
    BY <2>1, <2>2 DEF Stamped
<1>12. \A q \in Procs : Fresh(q)' /\ Keeping(q)'
  BY <1>5 DEF Fresh, Keeping
<1>13. Live \subseteq Live' /\ Live \subseteq Rows
  <2>1. Live \subseteq Rows
    BY <1>1, CatalogTypes
  <2> QED
    BY <1>6, <2>1 DEF Live, Rows
<1>14. ASSUME NEW i \in Live' PROVE Spared(i)'
  <2>1. i \in Rows'
    BY DEF Live, Rows
  <2>2. CASE i \in Rows
    <3>1. i \in Live
      BY <1>6, <2>2 DEF Live, Rows
    <3>2. \A x \in Live : Late(x) => Late(x)'
      BY <1>4, <1>6, <1>13 DEF Late
    <3>3. Spared(i)
      BY <3>1 DEF WindowInv
    <3>4. ~\E q \in Procs : pc[q] = "mark"
      BY <1>4 DEF OneProcess
    <3> QED
      BY <1>4, <1>6, <1>13, <2>2, <3>2, <3>3, <3>4 DEF Spared, OneRule
  <2>3. CASE i = n
    BY <1>3, <1>4, <1>6, <1>8, <2>3 DEF Spared
  <2> QED
    BY <1>9, <2>1, <2>2, <2>3
<1> QED
  BY <1>11, <1>12, <1>14 DEF WindowInv

(* selectPrunable keeps, of the backups it is given, one that serves what the
   others did: the oldest that the horizon rule leaves. *)
LEMMA SomethingIsKept ==
    ASSUME BackupInv, WindowInv, ~\E p \in Procs : pc[p] = "mark",
           Prunable(Live, lsn) # {}
    PROVE  \E x \in Live : KeptBy(x, Prunable(Live, lsn))
<1> DEFINE n == Len(catalog)
           E == Expired(Live, lsn)
           R == Live \ E
           x == MinOf(R)
<1>1. TypeOK /\ lsn \in Nat /\ cfg.horizon \in Nat /\ cfg.retain \in Nat
  BY BackupsAssumption DEF BackupInv, TypeOK, Policy
<1>2. /\ n \in Nat /\ Rows = 1..n /\ Live \subseteq Rows /\ Live \in SUBSET Nat
      /\ \A i \in Rows : catalog[i].created \in Nat /\ catalog[i].lsn \in Nat
  BY <1>1, CatalogTypes DEF Rows
<1>3. \A i, j \in Rows : i <= j => catalog[i].created <= catalog[j].created
  <2> SUFFICES ASSUME NEW i \in Rows, NEW j \in Rows, i <= j
               PROVE  catalog[i].created <= catalog[j].created
    OBVIOUS
  <2>1. CASE i < j
    BY <1>2, <2>1 DEF WindowInv, Stamped
  <2>2. CASE i = j
    BY <1>2, <2>2
  <2> QED
    BY <1>2, <2>1, <2>2
<1>4. Live # {}
  BY PrunableSubset
<1>5. \A i \in Live : i \in E <=> \E j \in Live : i < j /\ Late(j)
  <2>1. CASE cfg.horizon = 0
    BY <2>1 DEF Expired, Late
  <2>2. CASE cfg.horizon > 0
    <3>1. E = {i \in Live : \E j \in Live : i < j /\ \A k \in Live :
                 MinOf(Live) < k /\ k <= j => catalog[k].created <= lsn - cfg.horizon}
      BY <2>2 DEF Expired
    <3>2. MinOf(Live) \in Live /\ \A y \in Live : MinOf(Live) <= y
      BY <1>2, <1>4, MinLeast
    <3>3. \A k \in Live : Late(k) <=> catalog[k].created <= lsn - cfg.horizon
      BY <1>1, <1>2, <2>2 DEF Late
    <3> HIDE DEF E
    <3>4. ASSUME NEW i \in Live, i \in E
          PROVE  \E j \in Live : i < j /\ Late(j)
      <4>1. PICK j \in Live : i < j /\ \A k \in Live :
                 MinOf(Live) < k /\ k <= j => catalog[k].created <= lsn - cfg.horizon
        BY <3>1, <3>4
      <4>2. MinOf(Live) < j /\ j <= j
        <5>1. i \in Nat /\ j \in Nat /\ MinOf(Live) \in Nat /\ MinOf(Live) <= i
          BY <1>2, <3>2
        <5>2. i < j
          BY <4>1
        <5> QED
          BY <5>1, <5>2
      <4>3. Late(j)
        BY <3>3, <4>1, <4>2
      <4> QED
        BY <4>1, <4>3
    <3>5. ASSUME NEW i \in Live, NEW j \in Live, i < j, Late(j)
          PROVE  i \in E
      <4>1. ASSUME NEW k \in Live, k <= j
            PROVE  catalog[k].created <= lsn - cfg.horizon
        <5>1. catalog[k].created <= catalog[j].created /\ catalog[j].created <= lsn - cfg.horizon
          BY <1>2, <1>3, <3>3, <3>5, <4>1
        <5> QED
          BY <1>1, <1>2, <5>1
      <4> QED
        BY <3>1, <3>5, <4>1
    <3> QED
      BY <3>4, <3>5
  <2> QED
    BY <1>1, <2>1, <2>2
<1>6. Live \in SUBSET (0..n) /\ E \subseteq Live
  <2>1. E \subseteq Live
    BY DEF Expired
  <2> QED
    BY <1>2, <2>1
<1> HIDE DEF E
<1>7. R # {}
  <2>1. PICK g \in Live : \A y \in Live : y <= g
    BY <1>2, <1>4, <1>6, GreatestElement
  <2>2. ~\E j \in Live : g < j
    BY <1>2, <2>1
  <2> QED
    BY <1>5, <2>2
<1>8. R \in SUBSET Nat
  BY <1>2
<1>9. x \in R /\ \A y \in R : x <= y
  <2> HIDE DEF R
  <2> QED
    BY <1>7, <1>8, MinLeast
<1> HIDE DEF x
<1>10. x \in Live /\ x \notin E /\ x \in Nat
  BY <1>8, <1>9
<1>11. ASSUME OneRule PROVE catalog[x].name \in dirs
  <2>1. Spared(x)
    BY <1>10 DEF WindowInv
  <2>2. ~\E j \in Live : x < j /\ Late(j)
    BY <1>5, <1>10
  <2>3. ASSUME cfg.horizon = 0, NEW j \in Live, j < x
        PROVE  FALSE
    <3>1. j \in E
      BY <1>2, <1>9, <1>10, <2>3
    <3>2. PICK k \in Live : Late(k)
      BY <1>5, <3>1
    <3> QED
      BY <2>3, <3>2 DEF Late
  <2> QED
    BY <1>11, <2>1, <2>2, <2>3 DEF Spared
<1>12. ASSUME NEW i \in E
       PROVE  i < x /\ Late(x)
  <2>1. i < x
    <3>1. PICK j \in Live : i < j /\ Late(j)
      BY <1>5, <1>6
    <3>2. ~(x < j)
      BY <1>5, <1>10, <3>1
    <3> QED
      BY <1>2, <1>6, <1>10, <3>1, <3>2
  <2>2. PICK g \in E : \A y \in E : y <= g
    <3>1. E \in SUBSET (0..n) /\ E # {}
      BY <1>6
    <3> QED
      BY <1>2, <3>1, GreatestElement
  <2>3. PICK j \in Live : g < j /\ Late(j)
    BY <1>5, <1>6, <2>2
  <2>4. j \notin E
    BY <1>2, <1>6, <2>2, <2>3
  <2>5. x <= j
    BY <1>9, <2>3, <2>4
  <2>6. catalog[x].created <= catalog[j].created
    BY <1>2, <1>3, <1>10, <2>5
  <2> QED
    BY <1>1, <1>2, <1>10, <2>1, <2>3, <2>6 DEF Late
<1>13. \A i \in Surplus(R) : cfg.retain > 0 /\ x < i
  <2> SUFFICES ASSUME NEW i \in Surplus(R)
               PROVE  cfg.retain > 0 /\ x < i
    OBVIOUS
  <2>1. cfg.retain # 0 /\ i \in R /\ i # x
    BY DEF Surplus, x
  <2> QED
    BY <1>1, <1>8, <1>9, <2>1
<1>14. x \notin Surplus(R)
  BY <1>10, <1>13
<1>15. Prunable(Live, lsn) = E \cup Surplus(R)
  BY DEF Prunable, E
<1>16. KeptBy(x, Prunable(Live, lsn))
  BY <1>10, <1>11, <1>12, <1>13, <1>14, <1>15 DEF KeptBy
<1> QED
  BY <1>10, <1>16

LEMMA WindowLists ==
    ASSUME BackupInv, WindowInv, OneProcess, NEW p \in Procs, ListBackups(p)
    PROVE  WindowInv'
<1> DEFINE todo == Prunable(Live, lsn)
           kept == Live \ todo
           floor == IF kept = {} THEN 0 ELSE catalog[MinOf(kept)].walStart
           label == IF todo = {} THEN "clean" ELSE "remove"
           h == [Nothing EXCEPT !.todo = todo, !.floor = floor]
<1>1. TypeOK
  BY DEF BackupInv
<1>2. /\ pc[p] = "list" /\ Goto(p, label, h)
      /\ UNCHANGED <<cfg, lsn, dirs, catalog, made>>
  BY DEF ListBackups, wal
<1>3. Live \in SUBSET Nat /\ Live \subseteq Rows /\ \A i \in Rows : catalog[i].walStart \in Nat
  BY <1>1, CatalogTypes
<1>4. todo \subseteq Live
  BY PrunableSubset
<1>5. ~\E q \in Procs : pc[q] = "mark"
  BY <1>2 DEF OneProcess
<1> HIDE DEF todo, h
<1>6. floor \in Nat
  <2>1. CASE kept = {}
    BY <2>1
  <2>2. CASE kept # {}
    <3>1. kept \in SUBSET Nat /\ kept \subseteq Rows
      BY <1>3
    <3> HIDE DEF kept
    <3>2. MinOf(kept) \in kept
      BY <2>2, <3>1, MinLeast
    <3> QED
      BY <1>3, <2>2, <3>1, <3>2
  <2> QED
    BY <2>1, <2>2
<1> HIDE DEF floor
<1>7. h \in Held /\ h.todo = todo
  BY <1>3, <1>4, <1>6, HeldList DEF h
<1>8. Rows' = Rows /\ Live' = Live
  BY <1>2 DEF Rows, Live
<1>9. \A q \in Procs : pc'[q] = label /\ mem'[q] = h
  BY <1>1, <1>2, <1>7, GotoTypes DEF Labels
<1>10. Stamped'
  BY <1>2, <1>8 DEF WindowInv, Stamped
<1>11. \A q \in Procs : Fresh(q)'
  BY <1>9 DEF Fresh
<1>12. \A q \in Procs : Keeping(q)'
  <2>1. CASE todo = {}
    BY <1>9, <2>1 DEF Keeping
  <2>2. CASE todo # {}
    <3>1. PICK x \in Live : KeptBy(x, todo)
      BY <1>5, <2>2, SomethingIsKept DEF todo
    <3>2. \A t : KeptBy(x, t) => KeptBy(x, t)'
      BY <1>2, <1>8 DEF KeptBy, Late, OneRule
    <3>3. \A q \in Procs : pc'[q] = "remove" /\ mem'[q].todo = todo
      BY <1>7, <1>9, <2>2
    <3>4. ASSUME NEW q \in Procs PROVE KeptBy(x, mem[q].todo)'
      BY <3>1, <3>2, <3>3 DEF KeptBy
    <3> QED
      BY <1>8, <3>1, <3>3, <3>4 DEF Keeping
  <2> QED
    BY <2>1, <2>2
<1>13. \A i \in Live : Spared(i)'
  <2> SUFFICES ASSUME NEW i \in Live PROVE Spared(i)'
    OBVIOUS
  <2>1. Spared(i)
    BY DEF WindowInv
  <2>2. \A j \in Live : Late(j) <=> Late(j)'
    BY <1>2 DEF Late
  <2> QED
    BY <1>2, <1>5, <1>8, <2>1, <2>2 DEF Spared, OneRule
<1> QED
  BY <1>8, <1>10, <1>11, <1>12, <1>13 DEF WindowInv

\* What a step must leave: a base for every point inside the horizon.
BasesStay ==
    OneRule \/ Husks = {} =>
    \A t \in Nat : (cfg.horizon = 0 \/ t + cfg.horizon >= lsn) /\ HasBase(t) => HasBase(t)'

(* The backup being removed, and the one kept in its place. *)
LEMMA KeptInPlace ==
    ASSUME BackupInv, WindowInv, NEW p \in Procs, pc[p] \in {"remove", "mark"}
    PROVE  /\ MinOf(mem[p].todo) \in mem[p].todo /\ mem[p].todo \subseteq Live
           /\ \E x \in Live : KeptBy(x, mem[p].todo)
<1>1. mem[p] \in Held /\ Retaining(p) /\ mem[p].todo # {}
  BY DEF BackupInv, TypeOK, Holding
<1>2. mem[p].todo \in SUBSET Nat
  BY <1>1, HeldTypes
<1>3. MinOf(mem[p].todo) \in mem[p].todo
  BY <1>1, <1>2, MinLeast
<1>4. \E x \in Live : KeptBy(x, mem[p].todo)
  BY DEF WindowInv, Keeping
<1> QED
  BY <1>1, <1>3, <1>4 DEF Retaining

LEMMA WindowRemoves ==
    ASSUME BackupInv, WindowInv, OneProcess, NEW p \in Procs, RemoveDir(p)
    PROVE  WindowInv' /\ BasesStay
<1> DEFINE i == MinOf(mem[p].todo)
           todo == mem[p].todo
<1>1. TypeOK /\ lsn \in Nat /\ mem[p] \in Held /\ cfg.horizon \in Nat
  BY BackupsAssumption DEF BackupInv, TypeOK, Policy
<1>2. /\ pc[p] = "remove" /\ Goto(p, "mark", mem[p])
      /\ dirs' = dirs \ {catalog[i].name} /\ UNCHANGED <<cfg, lsn, catalog, made>>
  BY DEF RemoveDir, wal
<1>3. i \in todo /\ todo \subseteq Live /\ \E x \in Live : KeptBy(x, todo)
  BY <1>2, KeptInPlace
<1>4. PICK x \in Live : KeptBy(x, todo)
  BY <1>3
<1> HIDE DEF i
<1>5. /\ Rows' = Rows /\ Live' = Live /\ Live \subseteq Rows /\ Live \in SUBSET Nat
      /\ \A j \in Rows : catalog[j].created \in Nat /\ catalog[j].lsn \in Nat
  BY <1>1, <1>2, CatalogTypes DEF Rows, Live
<1>6. \A q \in Procs : pc'[q] = "mark" /\ mem'[q] = mem[p] /\ q = p
  BY <1>1, <1>2, GotoTypes DEF Labels, OneProcess
<1>7. \A j, k \in Live : catalog[j].name = catalog[k].name => j = k
  <2> SUFFICES ASSUME NEW j \in Live, NEW k \in Live, j # k
               PROVE  catalog[j].name # catalog[k].name
    OBVIOUS
  <2>1. j < k \/ k < j
    BY <1>5
  <2> QED
    BY <1>5, <2>1 DEF WindowInv, Stamped
<1>8. x # i /\ i \in Live /\ catalog[x].name # catalog[i].name
  BY <1>2, <1>3, <1>4, <1>7 DEF KeptBy
<1>0. OneRule \/ Husks = {} => catalog[x].name \in dirs'
  BY <1>2, <1>4, <1>8 DEF KeptBy, Husks
<1>9. Stamped'
  BY <1>2, <1>5 DEF WindowInv, Stamped
<1>10. \A q \in Procs : Fresh(q)' /\ Keeping(q)'
  <2>1. \A q \in Procs : Fresh(q)'
    BY <1>6 DEF Fresh
  <2>2. ASSUME NEW q \in Procs PROVE Keeping(q)'
    <3>1. pc'[q] = "mark" /\ mem'[q].todo = todo
      BY <1>6
    <3>2. KeptBy(x, mem[q].todo)'
      BY <1>0, <1>2, <1>4, <1>5, <1>8, <3>1 DEF KeptBy, Late, OneRule
    <3>3. catalog'[MinOf(mem[q].todo)'].name \notin dirs'
      BY <1>2, <3>1 DEF MinOf, i
    <3> QED
      BY <1>4, <1>5, <3>1, <3>2, <3>3 DEF Keeping
  <2> QED
    BY <2>1, <2>2
<1>11. ASSUME NEW j \in Live PROVE Spared(j)'
  <2>1. Spared(j) /\ ~\E q \in Procs : pc[q] = "mark"
    BY <1>2, <1>6 DEF WindowInv
  <2>2. \A k \in Live : Late(k) => Late(k)'
    BY <1>2 DEF Late
  <2>3. CASE j = i
    <3>1. pc'[p] = "mark" /\ mem'[p].todo = todo
      BY <1>6
    <3>2. j = MinOf(mem[p].todo)'
      BY <2>3, <3>1 DEF MinOf, i
    <3> QED
      BY <3>1, <3>2 DEF Spared
  <2>4. CASE j # i
    <3>1. catalog[j].name # catalog[i].name
      BY <1>7, <1>8, <2>4
    <3> QED
      BY <1>2, <1>5, <2>1, <2>2, <3>1 DEF Spared, OneRule
  <2> QED
    BY <2>3, <2>4
<1>12. ASSUME OneRule \/ Husks = {},
              NEW t \in Nat, cfg.horizon = 0 \/ t + cfg.horizon >= lsn, HasBase(t)
       PROVE  HasBase(t)'
  <2>1. PICK b \in Live : catalog[b].name \in dirs /\ catalog[b].lsn <= t
    BY <1>12 DEF HasBase
  <2>2. CASE b # i
    <3>1. catalog[b].name \in dirs'
      BY <1>2, <1>7, <1>8, <2>1, <2>2
    <3> QED
      BY <1>2, <1>5, <2>1, <3>1 DEF HasBase
  <2>3. CASE b = i
    <3>1. x < i \/ Late(x)
      BY <1>3, <1>4 DEF KeptBy
    <3>2. x \in Rows /\ i \in Rows /\ catalog[x].lsn <= catalog[x].created
      BY <1>5, <1>8 DEF WindowInv, Stamped
    <3>3. catalog[x].lsn <= t
      <4>1. CASE x < i
        <5>1. catalog[x].created <= catalog[i].lsn
          BY <3>2, <4>1 DEF WindowInv, Stamped
        <5> QED
          BY <1>5, <2>1, <2>3, <3>2, <5>1
      <4>2. CASE Late(x)
        <5>1. cfg.horizon > 0 /\ catalog[x].created + cfg.horizon <= lsn
          BY <4>2 DEF Late
        <5> QED
          BY <1>1, <1>5, <1>12, <3>2, <5>1
      <4> QED
        BY <3>1, <4>1, <4>2
    <3> QED
      BY <1>0, <1>2, <1>5, <1>8, <1>12, <3>3 DEF HasBase
  <2> QED
    BY <2>2, <2>3
<1> QED
  BY <1>5, <1>9, <1>10, <1>11, <1>12 DEF WindowInv, BasesStay

LEMMA WindowMarks ==
    ASSUME BackupInv, WindowInv, OneProcess, NEW p \in Procs, MarkPruned(p)
    PROVE  WindowInv' /\ BasesStay
<1> DEFINE i == MinOf(mem[p].todo)
           todo == mem[p].todo
           rest == todo \ {i}
           label == IF rest = {} THEN "clean" ELSE "remove"
           h == [mem[p] EXCEPT !.todo = rest]
<1>1. TypeOK /\ mem[p] \in Held /\ lsn \in Nat
  BY DEF BackupInv, TypeOK
<1>2. /\ pc[p] = "mark" /\ catalog' = [catalog EXCEPT ![i].pruned = TRUE]
      /\ Goto(p, label, h) /\ UNCHANGED <<cfg, lsn, dirs, made>>
  BY DEF MarkPruned, wal
<1>3. i \in todo /\ todo \subseteq Live /\ \E x \in Live : KeptBy(x, todo)
  BY <1>2, KeptInPlace
<1>4. PICK x \in Live : KeptBy(x, todo)
  BY <1>3
<1>5. catalog[i].name \notin dirs
  BY <1>2 DEF WindowInv, Keeping
<1>6. todo \in SUBSET Nat /\ rest \in SUBSET Nat
  BY <1>1, HeldTypes
<1> HIDE DEF i, h
<1>7. Live \subseteq Rows /\ Live \in SUBSET Nat /\ i \in Rows /\ x \in Rows
  BY <1>1, <1>3, CatalogTypes
<1>8. /\ Rows' = Rows /\ Live' = Live \ {i}
      /\ \A j \in Rows : /\ catalog'[j].lsn = catalog[j].lsn
                         /\ catalog'[j].name = catalog[j].name
                         /\ catalog'[j].created = catalog[j].created
  BY <1>1, <1>2, <1>7, MarkedCatalog
<1>9. h \in Held /\ h.todo = rest
  BY <1>1, <1>6, HeldTodo DEF h
<1>10. \A q \in Procs : pc'[q] = label /\ mem'[q] = h /\ q = p
  BY <1>1, <1>2, <1>9, GotoTypes DEF Labels, OneProcess
<1>11. \A j \in Rows : Late(j) <=> Late(j)'
  BY <1>2, <1>8 DEF Late
<1>12. /\ x \in Live' /\ (OneRule => catalog[x].name \in dirs)
       /\ \A j \in todo : (cfg.retain > 0 /\ x < j) \/ (j < x /\ Late(x))
  BY <1>3, <1>4, <1>8 DEF KeptBy
<1>13. Stamped'
  <2>1. Stamped
    BY DEF WindowInv
  <2> QED
    BY <1>2, <1>8, <2>1 DEF Stamped
<1>14. \A q \in Procs : Fresh(q)' /\ Keeping(q)'
  <2>1. \A q \in Procs : Fresh(q)'
    BY <1>10 DEF Fresh
  <2>2. ASSUME NEW q \in Procs PROVE Keeping(q)'
    <3>1. pc'[q] \in {"clean", "remove"} /\ mem'[q].todo = rest
      BY <1>9, <1>10
    <3>2. KeptBy(x, mem[q].todo)'
      <4>1. /\ x \notin rest /\ (OneRule => catalog'[x].name \in dirs')
            /\ Late(x) => Late(x)'
        BY <1>2, <1>4, <1>7, <1>8, <1>11, <1>12 DEF KeptBy
      <4> QED
        BY <1>2, <1>12, <3>1, <4>1 DEF KeptBy, OneRule
    <3> QED
      BY <1>12, <3>1, <3>2 DEF Keeping
  <2> QED
    BY <2>1, <2>2
<1>15. ASSUME NEW j \in Live' PROVE Spared(j)'
  <2>1. j \in Live /\ j # i /\ j \in Rows /\ j \in Nat
    BY <1>7, <1>8
  <2>2. Spared(j)
    BY <2>1 DEF WindowInv
  <2>3. CASE catalog[j].name \in dirs
    BY <1>2, <1>8, <2>1, <2>3 DEF Spared
  <2>4. ASSUME NEW q \in Procs, pc[q] = "mark", j = MinOf(mem[q].todo)
        PROVE  FALSE
    BY <1>10, <2>1, <2>4 DEF i
  <2>5. ASSUME cfg.horizon = 0, NEW k \in Live, k < j
        PROVE  \E l \in Live' : l < j
    <3>1. CASE k = i
      <4>1. x < i
        BY <1>3, <1>12, <2>5 DEF Late
      <4>2. x < j
        BY <1>7, <2>1, <2>5, <3>1, <4>1
      <4> QED
        BY <1>12, <4>2
    <3>2. CASE k # i
      BY <1>8, <2>5, <3>2
    <3> QED
      BY <3>1, <3>2
  <2>6. ASSUME cfg.retain = 0, NEW k \in Live, j < k, Late(k)
        PROVE  \E l \in Live' : j < l /\ Late(l)'
    <3>1. CASE k = i
      <4>1. i < x /\ Late(x)
        BY <1>3, <1>12, <2>6
      <4>2. j < x
        BY <1>7, <2>1, <2>6, <3>1, <4>1
      <4> QED
        BY <1>7, <1>11, <1>12, <4>1, <4>2
    <3>2. CASE k # i
      BY <1>7, <1>8, <1>11, <2>6, <3>2
    <3> QED
      BY <3>1, <3>2
  <2> QED
    BY <1>2, <2>2, <2>3, <2>4, <2>5, <2>6 DEF Spared, OneRule
<1>16. ASSUME NEW t \in Nat, HasBase(t) PROVE HasBase(t)'
  <2>1. PICK b \in Live : catalog[b].name \in dirs /\ catalog[b].lsn <= t
    BY <1>16 DEF HasBase
  <2>2. b \in Live' /\ b \in Rows
    BY <1>5, <1>7, <1>8, <2>1
  <2> QED
    BY <1>2, <1>8, <2>1, <2>2 DEF HasBase
<1> QED
  BY <1>13, <1>14, <1>15, <1>16 DEF WindowInv, BasesStay

(* No other step takes a base away. *)
LEMMA BasesRest ==
    ASSUME TypeOK, UNCHANGED <<catalog, dirs>>
    PROVE  BasesStay
BY DEF BasesStay, HasBase, Live

LEMMA BasesGrow ==
    ASSUME BackupInv, WindowInv, NEW p \in Procs,
           BeginBackup(p) \/ RecordBackup(p) \/ DiscardBackup(p)
    PROVE  BasesStay
<1>1. TypeOK /\ mem[p] \in Held /\ catalog \in Seq(Row) /\ lsn \in Nat
  BY DEF BackupInv, TypeOK
<1>2. Live \subseteq Rows
  BY <1>1, CatalogTypes
<1> SUFFICES ASSUME NEW t \in Nat, NEW b \in Live, catalog[b].name \in dirs, catalog[b].lsn <= t
             PROVE  HasBase(t)'
  BY DEF BasesStay, HasBase
<1>3. CASE BeginBackup(p)
  <2>1. dirs \subseteq dirs' /\ catalog' = catalog
    BY <1>3 DEF BeginBackup
  <2> QED
    BY <2>1 DEF HasBase, Live
<1>4. CASE RecordBackup(p)
  <2>1. mem[p].name \in Nat /\ mem[p].start \in Nat /\ mem[p].end \in Nat
    BY <1>1, HeldTypes
  <2>2. NewRow(p) \in Row
    BY <1>1, <2>1 DEF NewRow, Row
  <2>3. catalog' = Append(catalog, NewRow(p)) /\ dirs' = dirs
    BY <1>4 DEF RecordBackup, NewRow
  <2>4. /\ Len(catalog) \in Nat /\ Len(catalog') = Len(catalog) + 1
        /\ \A i \in Rows : catalog'[i] = catalog[i]
    BY <1>1, <2>2, <2>3, AppendProperties DEF Rows
  <2>5. b \in Live' /\ catalog'[b] = catalog[b]
    BY <1>2, <2>4 DEF Live, Rows
  <2> QED
    BY <2>3, <2>5 DEF HasBase
<1>5. CASE DiscardBackup(p)
  <2>1. pc[p] = "seal" /\ dirs' = dirs \ {mem[p].name} /\ catalog' = catalog
    BY <1>5 DEF DiscardBackup
  <2>2. catalog[b].name # mem[p].name
    BY <1>2, <2>1 DEF WindowInv, Fresh
  <2> QED
    BY <2>1, <2>2 DEF HasBase, Live
<1> QED
  BY <1>3, <1>4, <1>5

LEMMA WindowSteps ==
    ASSUME BackupInv, WindowInv, OneProcess,
           \/ ArchiveSegment
           \/ \E p \in Procs : Step(p) \/ \E t : StartCycle(p, t)
    PROVE  WindowInv' /\ BasesStay
<1>1. TypeOK /\ lsn \in Nat
  BY DEF BackupInv, TypeOK
<1>2. CASE ArchiveSegment
  <2>1. UNCHANGED <<cfg, lsn, dirs, catalog, made, pc, mem>>
    BY <1>2 DEF ArchiveSegment
  <2> QED
    BY <1>1, <2>1, WindowRests, BasesRest
<1>3. ASSUME NEW p \in Procs, NEW t, StartCycle(p, t)
      PROVE  WindowInv' /\ BasesStay
  <2>1. UNCHANGED <<catalog, dirs>>
    BY <1>3 DEF StartCycle
  <2> QED
    BY <1>1, <1>3, <2>1, WindowQuietSteps, BasesRest
<1>4. ASSUME NEW p \in Procs, Step(p)
      PROVE  WindowInv' /\ BasesStay
  <2>1. CASE Decide(p) \/ StartSnapshot(p) \/ ProbeFails(p) \/ CleanArchive(p) \/ Crash(p)
    <3>1. UNCHANGED <<catalog, dirs>>
      BY <2>1 DEF Decide, StartSnapshot, ProbeFails, CleanArchive, Crash
    <3> QED
      BY <1>1, <2>1, <3>1, WindowQuietSteps, BasesRest
  <2>2. CASE DiscardBackup(p)
    BY <2>2, WindowQuietSteps, BasesGrow
  <2>3. CASE BeginBackup(p) \/ EndBackup(p)
    <3>1. EndBackup(p) => UNCHANGED <<catalog, dirs>>
      BY DEF EndBackup
    <3> QED
      BY <1>1, <2>3, <3>1, WindowCopies, BasesGrow, BasesRest
  <2>4. CASE RecordBackup(p)
    BY <2>4, WindowRecords, BasesGrow
  <2>5. CASE ListBackups(p)
    <3>1. UNCHANGED <<catalog, dirs>>
      BY <2>5 DEF ListBackups
    <3> QED
      BY <1>1, <2>5, <3>1, WindowLists, BasesRest
  <2>6. CASE RemoveDir(p)
    BY <2>6, WindowRemoves
  <2>7. CASE MarkPruned(p)
    BY <2>7, WindowMarks
  <2> QED
    BY <1>4, <2>1, <2>2, <2>3, <2>4, <2>5, <2>6, <2>7 DEF Step
<1> QED
  BY <1>2, <1>3, <1>4

(* A step of the tenant, the forwarder or a recovery. *)
LEMMA OtherSteps ==
    ASSUME RInv, \/ RNext /\ ~BackupStep
                 \/ UNCHANGED rvars
    PROVE  UNCHANGED <<cfg, dirs, catalog, made, pc, mem>> /\ lsn' \in Nat /\ lsn <= lsn'
<1>1. lsn \in Nat
  BY DEF RInv, BackupInv, TypeOK
<1> DEFINE Aside == UNCHANGED <<cfg, dirs, catalog, made, pc, mem>> /\ lsn' \in Nat /\ lsn <= lsn'
<1>2. ASSUME NEW t, Record(t) PROVE Aside
  BY <1>1, <1>2 DEF Record, Write
<1>3. ASSUME UNCHANGED vars PROVE Aside
  BY <1>1, <1>3 DEF vars
<1>4. ASSUME UNCHANGED rvars PROVE Aside
  BY <1>3, <1>4 DEF rvars
<1>5. ASSUME AppCreate \/ OtherWrite \/ \E k \in limit.keys : AppWrite(k) PROVE Aside
  BY <1>2, <1>5 DEF AppCreate, OtherWrite, AppWrite
<1>6. ASSUME NEW s, NEW tag, DdlCommit(s) \/ DdlRollback(s) \/ DdlTrigger(s, tag)
      PROVE  Aside
  BY <1>2, <1>3, <1>6 DEF DdlCommit, DdlRollback, DdlTrigger
<1>7. ASSUME ForwardRead \/ ForwardShip \/ ForwardPrune \/ ForwardFail PROVE Aside
  BY <1>3, <1>7 DEF ForwardRead, ForwardShip, ForwardPrune, ForwardFail
<1>8. ASSUME NEW c, NEW way, NEW r, Begin(c, way, r)
      PROVE  Aside
  BY <1>3, <1>8 DEF Begin
<1>9. ASSUME NEW c, NEW tag, Look(c, tag) \/ NameSnapshot(c, tag)
      PROVE  Aside
  BY <1>8, <1>9 DEF Look, NameSnapshot
<1>10. ASSUME NEW c, AsOf(c)
       PROVE  Aside
  BY <1>8, <1>10 DEF AsOf
<1>11. ASSUME NEW c, LookInTenant(c) \/ Pick(c) \/ Replay(c) \/ EndRecovery(c)
       PROVE  Aside
  BY <1>3, <1>11 DEF LookInTenant, Pick, Replay, EndRecovery
<1>12. ASSUME NEW c, Materialize(c)
       PROVE  Aside
  BY <1>1, <1>12 DEF Materialize
<1>13. ASSUME NEW c, CreateTable(c) \/ LoadTable(c) \/ InsertRows(c) \/ AddColumn(c)
       PROVE  Aside
  BY <1>2, <1>13 DEF CreateTable, LoadTable, InsertRows, AddColumn
<1> HIDE DEF Aside
<1>14. ASSUME NEW s \in limit.sessions,
              DdlCommit(s) \/ DdlRollback(s) \/ \E tag \in limit.tags : DdlTrigger(s, tag)
       PROVE  Aside
  BY <1>6, <1>14
<1>15. ASSUME NEW c \in Clients,
              \/ AsOf(c) \/ LookInTenant(c) \/ Pick(c) \/ Materialize(c) \/ Replay(c)
              \/ CreateTable(c) \/ LoadTable(c) \/ InsertRows(c) \/ AddColumn(c)
              \/ EndRecovery(c)
       PROVE  Aside
  BY <1>10, <1>11, <1>12, <1>13, <1>15
<1>16. ASSUME NEW c \in Clients, NEW tag \in limit.tags \cap ObjectTags,
              Look(c, tag) \/ NameSnapshot(c, tag)
       PROVE  Aside
  BY <1>9, <1>16
<1>17. ASSUME RNext /\ ~BackupStep PROVE Aside
  BY <1>5, <1>7, <1>14, <1>15, <1>16, <1>17 DEF RNext
<1> QED
  BY <1>4, <1>17 DEF Aside

LEMMA WindowInit ==
    ASSUME RInit
    PROVE  WindowInv /\ Window!Init
<1>1. /\ cfg \in Policies /\ lsn = 1 /\ catalog = << >> /\ pc = [p \in Procs |-> "idle"]
  BY DEF RInit, Init
<1>2. Live = {} /\ Rows = {}
  BY <1>1 DEF Live, Rows
<1>3. WindowInv
  BY <1>1, <1>2 DEF WindowInv, Stamped, Fresh, Keeping
<1>4. Covered = {}
  BY <1>2 DEF Covered, HasBase
<1>5. cfg.horizon \in Nat
  BY <1>1, BackupsAssumption DEF Policy
<1>6. OneRule \/ Husks = {}
  BY <1>2 DEF Husks
<1> QED
  BY <1>1, <1>3, <1>4, <1>5, <1>6 DEF Window!Init

LEMMA WindowNext ==
    ASSUME RInv, WindowInv, OneProcess, [RNext]_rvars
    PROVE  WindowInv' /\ Window!Advance
<1>1. BackupInv /\ TypeOK /\ lsn \in Nat /\ cfg.horizon \in Nat
  BY BackupsAssumption DEF RInv, BackupInv, TypeOK, Policy
<1>2. WindowInv' /\ BasesStay /\ cfg' = cfg /\ lsn' \in Nat /\ lsn <= lsn'
  <2>1. CASE BackupStep
    <3>1. \/ ArchiveSegment
          \/ \E p \in Procs : Step(p) \/ \E t : StartCycle(p, t)
      BY <2>1 DEF BackupStep
    <3>2. UNCHANGED <<cfg, lsn>>
      BY <1>1, <3>1, BackupFrame
    <3> QED
      BY <1>1, <3>1, <3>2, WindowSteps
  <2>2. CASE (RNext /\ ~BackupStep) \/ UNCHANGED rvars
    <3>1. UNCHANGED <<cfg, dirs, catalog, made, pc, mem>> /\ lsn' \in Nat /\ lsn <= lsn'
      BY <2>2, OtherSteps
    <3> QED
      BY <1>1, <3>1, WindowRests, BasesRest
  <2> QED
    BY <2>1, <2>2
<1>3. ASSUME OneRule \/ Husks = {},
             NEW t \in Covered, cfg.horizon = 0 \/ t + cfg.horizon >= lsn'
      PROVE  t \in Covered'
  <2>1. t \in 0..lsn /\ HasBase(t)
    BY DEF Covered
  <2>2. cfg.horizon = 0 \/ t + cfg.horizon >= lsn
    BY <1>1, <1>2, <1>3, <2>1
  <2>3. HasBase(t)'
    BY <1>1, <1>2, <1>3, <2>1, <2>2 DEF BasesStay
  <2>4. t \in 0..lsn'
    BY <1>1, <1>2, <2>1
  <2> QED
    BY <2>3, <2>4 DEF Covered
<1> QED
  BY <1>1, <1>2, <1>3 DEF Window!Advance, Window!InWindow

(* retention.go: a point inside the horizon stays recoverable, whatever is  *)
(* removed and wherever a command ends.  With both rules set that is so of  *)
(* every step taken while each listed backup has its directory; once an     *)
(* interrupted retention run has left one without, it is not promised until *)
(* a later run has marked that backup as well.                              *)
THEOREM PointsStayRecoverable ==
    ASSUME OneProcess
    PROVE  RSpec => ImplementsWindow
<1>1. RInit => RInv /\ WindowInv /\ Window!Init
  BY RInvInit, WindowInit
<1>2. RInv /\ WindowInv /\ [RNext]_rvars =>
          RInv' /\ WindowInv'
          /\ [Window!Advance]_<<lsn, cfg.horizon, Covered, OneRule \/ Husks = {}>>
  BY RInvNext, RInvStutter, WindowNext
<1> QED
  BY <1>1, <1>2, PTL DEF RSpec, ImplementsWindow, Window!Spec
=============================================================================
