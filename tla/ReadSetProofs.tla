----------------------------- MODULE ReadSetProofs -----------------------------
(***************************************************************************)
(* Theorems about ReadSet for any number of transactions, rows, sessions   *)
(* and faults, from ReadSetAssumption.                                     *)
(*                                                                         *)
(* What an edge speaks of is settled once its two transactions have        *)
(* committed: their positions, what the reader read and what the writer    *)
(* wrote.  The invariant says of every line on its way that it is a true   *)
(* account of a reader past its reading, of every edge, stored or still in *)
(* an open transaction, that it is real, and of every read that it is      *)
(* somewhere: an edge, a line, or a loss on record.                        *)
(***************************************************************************)
EXTENDS ReadSet, TLAPS

-----------------------------------------------------------------------------
(* The inductive invariant. *)

(* Each transaction commits once, after what it read. *)
CommitsOnce ==
    /\ \A i, j \in 1..Len(commits) : commits[i] = commits[j] => i = j
    /\ \A i \in 1..Len(commits) :
        /\ phase[commits[i]] = "committed"
        /\ read[commits[i]].upto < i
    /\ \A t \in Txns : read[t].upto <= Len(commits)

PastReading == {t \in Txns : phase[t] \in {"flushed", "committed", "aborted"}}

(* Who has written no line has seen nothing.                                 *)
NothingSeen == \A t \in Txns \ PastReading : read[t].upto = 0

(* What a line says was read, or what a drain leaves of it.                  *)
TrueLine(l) ==
    /\ l.reader \in PastReading
    /\ l.key = read[l.reader].key \/ (l.key = Cut /\ TooLong(l.reader))

LinesTrue ==
    /\ \A l \in file : TrueLine(l)
    /\ \A l \in readSet : TrueLine(l)
    /\ \A d \in Drainers : \A l \in got[d] : TrueLine(l)
    /\ \A p \in Previewers : \A l \in looked[p] : TrueLine(l)

Real(e) ==
    /\ e[1] # e[2] /\ {e[1], e[2]} \subseteq Committed
    /\ CommittedAt(e[2]) < CommittedAt(e[1])
    /\ read[e[1]].key \in {wrote[e[2]], Table}

EdgesTrue ==
    /\ \A e \in deps : Real(e)
    /\ \A s \in Drainers \cup Previewers : \A e \in found[s] : Real(e)

(* A pair that a derivation had to find: found, or not for a known reason. *)
Answered(r, w, edges) ==
    \/ <<r, w>> \in edges
    \/ <<r, w>> \in behind
    \/ deploy = "trigger" /\ r < w
    \/ TooLong(r)

Matched ==
    /\ \A d \in Drainers \ Forwarders : stage[d] = "taken" =>
        \A l \in got[d] : \A w \in Seen(l.reader) : Answered(l.reader, w, found[d])
    /\ \A p \in Previewers : preview[p] = "derived" =>
        \A l \in looked[p] : \A w \in Seen(l.reader) : Answered(l.reader, w, found[p])

(* A line that a session has read does not count before the session has      *)
(* emptied the file: until then another session may take it instead.         *)
UnderWay(r) ==
    \/ \E l \in file \cup readSet : l.reader = r
    \/ \E d \in Drainers : stage[d] \in {"taken", "ship"} /\ \E l \in got[d] : l.reader = r

Gone(r) ==
    \/ r \in Committed /\ CommittedAt(r) < age
    \/ \E cause \in Causes : <<r, cause>> \in lost

Accounted ==
    \A r \in PastReading : \A w \in Seen(r) :
        Answered(r, w, deps) \/ UnderWay(r) \/ Gone(r)

IInv ==
    TypeOK /\ CommitsOnce /\ NothingSeen /\ LinesTrue /\ EdgesTrue /\ Matched /\ Accounted

-----------------------------------------------------------------------------
(* The actions by what they share. *)

(* A draining session's step. *)
DrainStep(d) ==
    \/ DrainRead(d) \/ DrainTake(d) \/ CommitDrain(d) \/ FailDrain(d) \/ Deadlock(d)
    \/ Ship(d) \/ FailShip(d)

PreviewStep(p) == PreviewDerive(p) \/ PreviewClear(p) \/ PreviewFail(p)

LEMMA NextCases ==
    ASSUME Next
    PROVE  \/ Application
           \/ Capture
           \/ \E d \in Drainers : DrainStep(d)
           \/ \E p \in Previewers : PreviewStep(p)
           \/ \E cutoff \in Cutoffs : Age(cutoff)
BY DEF Next, DrainStep, PreviewStep

-----------------------------------------------------------------------------
(* Type correctness. *)

LEMMA EdgesType ==
    ASSUME TypeOK, NEW lines, NEW history, history \subseteq Txns
    PROVE  /\ Edges(lines, history) \subseteq Txns \X Txns
           /\ TooEarly(lines, history) \subseteq Txns \X Txns
BY DEF Edges, TooEarly

LEMMA ParsedLine ==
    ASSUME NEW l \in Lines
    PROVE  /\ Parsed(l) \in Lines /\ Parsed(l).reader = l.reader
           /\ Parsed(l).key = l.key \/ (l.key \in LongKeys /\ Parsed(l).key = Cut)
BY DEF Parsed, Lines

LEMMA LostType ==
    ASSUME NEW lines \in SUBSET Lines, NEW cause \in Causes
    PROVE  Lost(lines, cause) \subseteq Txns \X Causes
BY DEF Lost, Lines

LEMMA HistoryType ==
    ASSUME TypeOK
    PROVE  /\ History \subseteq Committed /\ TenantHistory \subseteq Committed
           /\ Committed \subseteq Txns
<1>1. Len(commits) \in Nat /\ captured \in 0..Len(commits)
      /\ \A i \in 1..Len(commits) : commits[i] \in Txns
  BY DEF TypeOK
<1>2. History \subseteq Committed
  BY <1>1 DEF History, Committed
<1> QED
  BY <1>1, <1>2 DEF TenantHistory, Committed

LEMMA ApplicationType ==
    ASSUME ReadSetAssumption, TypeOK, Application
    PROVE  TypeOK'
<1>1. PICK t \in Txns :
        \/ \E k \in Written : Write(t, k)
        \/ \E k \in Keys \cup {Table} : PreCommit(t, k) \/ PreCommitUnwritten(t, k)
        \/ Commit(t)
        \/ Rollback(t)
  BY Zenon DEF Application
<1>2. CASE \E k \in Written : Write(t, k)
  BY <1>2 DEF Write, TypeOK, drains, previews
<1>3. CASE \E k \in Keys \cup {Table} : PreCommit(t, k) \/ PreCommitUnwritten(t, k)
  <2>1. PICK k \in Keys \cup {Table} : PreCommit(t, k) \/ PreCommitUnwritten(t, k)
    BY <1>3
  <2>2. [key |-> k, upto |-> Len(commits)] \in [key : Keys \cup {Table}, upto : Nat]
    BY DEF TypeOK
  <2>3. [reader |-> t, key |-> k] \in Lines
    BY DEF Lines
  <2>4. CASE PreCommit(t, k)
    BY <2>2, <2>3, <2>4 DEF PreCommit, TypeOK, drains, previews
  <2>5. CASE PreCommitUnwritten(t, k)
    <3>1. faults' \in 0..MaxFaults
      BY <2>5 DEF PreCommitUnwritten, TypeOK, ReadSetAssumption
    <3>2. <<t, "unwritten">> \in Txns \X Causes
      BY DEF Causes
    <3> QED
      BY <2>2, <2>5, <3>1, <3>2 DEF PreCommitUnwritten, TypeOK, drains, previews
  <2> QED
    BY <2>1, <2>4, <2>5
<1>4. CASE Commit(t)
  <2>1. commits' \in Seq(Txns) /\ Len(commits') = Len(commits) + 1
    BY <1>4 DEF Commit, TypeOK
  <2>2. captured' \in 0..Len(commits')
    BY <1>4, <2>1 DEF Commit, TypeOK
  <2> QED
    BY <1>4, <2>1, <2>2 DEF Commit, TypeOK, drains, previews
<1>5. CASE Rollback(t)
  BY <1>5 DEF Rollback, TypeOK, drains, previews
<1> QED
  BY <1>1, <1>2, <1>3, <1>4, <1>5

LEMMA DrainType ==
    ASSUME ReadSetAssumption, TypeOK, NEW d \in Drainers, DrainStep(d)
    PROVE  TypeOK'
<1>1. TenantHistory \subseteq Txns
  BY HistoryType
<1>2. CASE DrainRead(d)
  <2>1. {Parsed(l) : l \in file} \subseteq Lines
    BY ParsedLine DEF TypeOK
  <2>2. got' = [got EXCEPT ![d] = {Parsed(l) : l \in file}]
    BY <1>2 DEF DrainRead
  <2>3. got' \in [Drainers -> SUBSET Lines]
    BY <2>1, <2>2 DEF TypeOK
  <2> QED
    BY <1>2, <2>3 DEF DrainRead, Move, TypeOK, txns, previews
<1>3. CASE DrainTake(d)
  <2>1. Lost({l \in file : Parsed(l) \notin got[d]}, "late") \subseteq Txns \X Causes
    <3>1. {l \in file : Parsed(l) \notin got[d]} \subseteq Lines
      BY DEF TypeOK
    <3> QED
      BY <3>1, LostType DEF Causes
  <2>2. found' \in [Drainers \cup Previewers -> SUBSET (Txns \X Txns)]
        /\ behind' \subseteq Txns \X Txns
    <3>1. CASE d \in Forwarders
      BY <1>3, <3>1 DEF DrainTake, TypeOK
    <3>2. CASE d \notin Forwarders
      <4>1. /\ found' = [found EXCEPT ![d] = Edges(got[d], TenantHistory)]
            /\ behind' = behind \cup TooEarly(got[d], TenantHistory)
        BY <1>3, <3>2 DEF DrainTake
      <4>2. Edges(got[d], TenantHistory) \subseteq Txns \X Txns
        BY <1>1, EdgesType
      <4>3. TooEarly(got[d], TenantHistory) \subseteq Txns \X Txns
        BY <1>1, EdgesType
      <4> QED
        BY <4>1, <4>2, <4>3 DEF TypeOK
    <3> QED
      BY <3>1, <3>2
  <2>3. /\ stage' \in [Drainers -> {"idle", "read", "taken", "ship"}]
        /\ file' \subseteq Lines
        /\ lost' \subseteq Txns \X Causes
    BY <1>3, <2>1 DEF DrainTake, Move, TypeOK
  <2>4. UNCHANGED <<deploy, phase, wrote, read, commits, captured, got, readSet, preview,
                    looked, deps, age, faults>>
    BY <1>3 DEF DrainTake, txns, previews
  <2> QED
    BY <2>2, <2>3, <2>4 DEF TypeOK
<1>4. CASE CommitDrain(d)
  BY <1>4 DEF CommitDrain, Drained, Move, TypeOK, txns, previews
<1>5. CASE FailDrain(d) \/ Deadlock(d)
  <2>1. Lost(got[d], "rollback") \subseteq Txns \X Causes
    BY LostType DEF TypeOK, Causes
  <2>2. faults' \in 0..MaxFaults
    BY <1>5 DEF FailDrain, Deadlock, TypeOK, ReadSetAssumption
  <2>3. RollbackDrain(d)
    BY <1>5 DEF FailDrain, Deadlock
  <2> QED
    BY <2>1, <2>2, <2>3 DEF RollbackDrain, Drained, Move, TypeOK, txns, previews
<1>6. CASE Ship(d)
  BY <1>6 DEF Ship, Drained, Move, TypeOK, txns, previews
<1>7. CASE FailShip(d)
  <2>1. Lost(got[d], "ship") \subseteq Txns \X Causes
    BY LostType DEF TypeOK, Causes
  <2>2. faults' \in 0..MaxFaults
    BY <1>7 DEF FailShip, TypeOK, ReadSetAssumption
  <2> QED
    BY <1>7, <2>1, <2>2 DEF FailShip, Drained, Move, TypeOK, txns, previews
<1> QED
  BY <1>2, <1>3, <1>4, <1>5, <1>6, <1>7 DEF DrainStep

LEMMA PreviewType ==
    ASSUME ReadSetAssumption, TypeOK, NEW p \in Previewers, PreviewStep(p)
    PROVE  TypeOK'
<1>1. CASE PreviewDerive(p)
  <2>1. History \subseteq Txns
    BY HistoryType
  <2>2. found' \in [Drainers \cup Previewers -> SUBSET (Txns \X Txns)]
        /\ behind' \subseteq Txns \X Txns
    BY <1>1, <2>1, EdgesType DEF PreviewDerive, TypeOK
  <2> QED
    BY <1>1, <2>2 DEF PreviewDerive, TypeOK, txns
<1>2. CASE PreviewClear(p)
  <2>1. Lost(readSet \ looked[p], "swept") \subseteq Txns \X Causes
    BY LostType DEF TypeOK, Causes
  <2> QED
    BY <1>2, <2>1 DEF PreviewClear, PreviewEnd, TypeOK, txns
<1>3. CASE PreviewFail(p)
  BY <1>3 DEF PreviewFail, PreviewEnd, TypeOK, txns
<1> QED
  BY <1>1, <1>2, <1>3 DEF PreviewStep

LEMMA TypeStep ==
    ASSUME ReadSetAssumption, TypeOK, [Next]_vars
    PROVE  TypeOK'
<1>1. CASE Application
  BY <1>1, ApplicationType
<1>2. CASE Capture
  BY <1>2 DEF Capture, TypeOK, txns, drains, previews
<1>3. CASE \E d \in Drainers : DrainStep(d)
  BY <1>3, DrainType
<1>4. CASE \E p \in Previewers : PreviewStep(p)
  BY <1>4, PreviewType
<1>5. CASE \E cutoff \in Cutoffs : Age(cutoff)
  BY <1>5 DEF Age, TypeOK, txns, drains, previews
<1>6. CASE UNCHANGED vars
  BY <1>6 DEF vars, txns, drains, previews, TypeOK
<1> QED
  BY <1>1, <1>2, <1>3, <1>4, <1>5, <1>6, NextCases

-----------------------------------------------------------------------------
(* What a step leaves alone: the past of the committed transactions and of   *)
(* those past their reading.                                                 *)

Kept ==
    /\ deploy' = deploy
    /\ Len(commits) <= Len(commits')
    /\ \A i \in 1..Len(commits) : commits'[i] = commits[i]
    /\ \A t \in Txns : phase[t] = "committed" => wrote'[t] = wrote[t]
    /\ \A t \in PastReading : t \in PastReading' /\ read'[t] = read[t]

LEMMA ReadType ==
    ASSUME TypeOK
    PROVE  \A t \in Txns : read[t].upto \in Nat /\ read[t].key \in Keys \cup {Table}
<1> SUFFICES ASSUME NEW t \in Txns
             PROVE  read[t].upto \in Nat /\ read[t].key \in Keys \cup {Table}
  OBVIOUS
<1>1. read[t] \in [key : Keys \cup {Table}, upto : Nat]
  BY DEF TypeOK
<1> QED
  BY <1>1

LEMMA StepKeeps ==
    ASSUME TypeOK, CommitsOnce, [Next]_vars
    PROVE  Kept /\ CommitsOnce'
<1>0. Len(commits) \in Nat /\ commits \in Seq(Txns)
      /\ \A i \in 1..Len(commits) : commits[i] \in Txns
  BY DEF TypeOK
<1>8. phase \in [Txns -> {"none", "open", "flushed", "committed", "aborted"}]
  BY DEF TypeOK
<1>9. \A u \in Txns : read[u].upto \in Nat /\ read[u].upto <= Len(commits)
  BY ReadType DEF CommitsOnce
<1>1. CASE Application
  <2>1. PICK t \in Txns :
          \/ \E k \in Written : Write(t, k)
          \/ \E k \in Keys \cup {Table} : PreCommit(t, k) \/ PreCommitUnwritten(t, k)
          \/ Commit(t)
          \/ Rollback(t)
    BY <1>1, Zenon DEF Application
  <2>2. CASE \E k \in Written : Write(t, k)
    <3>1. wrote \in [Txns -> Written \cup {Table}]
      BY DEF TypeOK
    <3> QED
      BY <1>0, <1>8, <2>2, <3>1 DEF Write, Kept, CommitsOnce, PastReading
  <2>3. CASE \E k \in Keys \cup {Table} : PreCommit(t, k) \/ PreCommitUnwritten(t, k)
    <3>1. CASE \E k \in Keys \cup {Table} : PreCommit(t, k)
      BY <1>0, <1>8, <3>1 DEF PreCommit, Kept, CommitsOnce, PastReading
    <3>2. CASE \E k \in Keys \cup {Table} : PreCommitUnwritten(t, k)
      BY <1>0, <1>8, <3>2 DEF PreCommitUnwritten, Kept, CommitsOnce, PastReading
    <3> QED
      BY <2>3, <3>1, <3>2
  <2>4. CASE Commit(t)
    <3>1. /\ Len(commits') = Len(commits) + 1
          /\ \A i \in 1..Len(commits) : commits'[i] = commits[i]
          /\ commits'[Len(commits) + 1] = t
      BY <1>0, <1>8, <2>4 DEF Commit
    <3>2. \A i \in 1..Len(commits) : commits[i] # t
      BY <2>4 DEF Commit, CommitsOnce
    <3>3. Kept
      BY <1>0, <1>8, <2>4, <3>1 DEF Commit, Kept, PastReading
    <3>4. \A i, j \in 1..Len(commits') : commits'[i] = commits'[j] => i = j
      <4> SUFFICES ASSUME NEW i \in 1..Len(commits'), NEW j \in 1..Len(commits'),
                          commits'[i] = commits'[j]
                   PROVE  i = j
        OBVIOUS
      <4>1. i \in 1..Len(commits) \/ i = Len(commits) + 1
        BY <1>0, <1>8, <3>1
      <4>2. j \in 1..Len(commits) \/ j = Len(commits) + 1
        BY <1>0, <1>8, <3>1
      <4> QED
        BY <3>1, <3>2, <4>1, <4>2 DEF CommitsOnce
    <3>5. \A i \in 1..Len(commits') : phase'[commits'[i]] = "committed"
                                   /\ read'[commits'[i]].upto < i
      <4> SUFFICES ASSUME NEW i \in 1..Len(commits')
                   PROVE  phase'[commits'[i]] = "committed" /\ read'[commits'[i]].upto < i
        OBVIOUS
      <4>1. CASE i \in 1..Len(commits)
        BY <1>0, <1>8, <2>4, <3>1, <4>1 DEF Commit, CommitsOnce
      <4>2. CASE i = Len(commits) + 1
        <5>1. commits'[i] = t /\ read[t].upto < i
          BY <1>0, <1>9, <3>1, <4>2
        <5>2. phase'[t] = "committed"
          BY <1>8, <2>4 DEF Commit
        <5>3. read' = read
          BY <2>4 DEF Commit
        <5> QED
          BY <5>1, <5>2, <5>3
      <4> QED
        BY <1>0, <1>8, <3>1, <4>1, <4>2
    <3>6. \A u \in Txns : read'[u].upto <= Len(commits')
      BY <1>0, <1>9, <2>4, <3>1 DEF Commit
    <3> QED
      BY <3>3, <3>4, <3>5, <3>6 DEF CommitsOnce
  <2>5. CASE Rollback(t)
    BY <1>0, <1>8, <2>5 DEF Rollback, Kept, CommitsOnce, PastReading
  <2> QED
    BY <2>1, <2>2, <2>3, <2>4, <2>5
<1>2. CASE UNCHANGED <<deploy, txns>>
  BY <1>0, <1>8, <1>2 DEF txns, Kept, CommitsOnce, PastReading
<1>3. CASE Capture
  BY <1>2, <1>3 DEF Capture
<1>4. CASE \E d \in Drainers : DrainStep(d)
  BY <1>2, <1>4 DEF DrainStep, DrainRead, DrainTake, CommitDrain, FailDrain, Deadlock, Ship,
                    FailShip, RollbackDrain
<1>5. CASE \E p \in Previewers : PreviewStep(p)
  BY <1>2, <1>5 DEF PreviewStep, PreviewDerive, PreviewClear, PreviewFail, PreviewEnd
<1>6. CASE \E cutoff \in Cutoffs : Age(cutoff)
  BY <1>2, <1>6 DEF Age
<1>7. CASE UNCHANGED vars
  BY <1>2, <1>7 DEF vars
<1> QED
  BY <1>1, <1>3, <1>4, <1>5, <1>6, <1>7, NextCases

(* Positions, and with them ages, of committed transactions are unique and   *)
(* stay.                                                                     *)
LEMMA Positions ==
    ASSUME TypeOK, CommitsOnce, NEW i \in 1..Len(commits)
    PROVE  /\ deploy # "trigger" => CommittedAt(commits[i]) = i
           /\ deploy = "trigger" => CommittedAt(commits[i]) = commits[i]
           /\ commits[i] \in Txns /\ commits[i] \in PastReading
<1>1. commits[i] \in Txns
  BY DEF TypeOK
<1>2. ASSUME deploy # "trigger"
      PROVE  CommittedAt(commits[i]) = i
  <2>1. \A j \in 1..Len(commits) : commits[j] = commits[i] => j = i
    BY DEF CommitsOnce
  <2>2. (CHOOSE j \in 1..Len(commits) : commits[j] = commits[i]) = i
    BY <2>1
  <2> QED
    BY <1>2, <2>2 DEF CommittedAt
<1>3. deploy = "trigger" => CommittedAt(commits[i]) = commits[i]
  BY DEF CommittedAt
<1>4. commits[i] \in PastReading
  BY <1>1 DEF CommitsOnce, PastReading
<1> QED
  BY <1>1, <1>2, <1>3, <1>4

LEMMA PositionsKept ==
    ASSUME TypeOK, TypeOK', CommitsOnce, CommitsOnce', Kept, NEW t \in Committed
    PROVE  /\ t \in Committed' /\ CommittedAt(t)' = CommittedAt(t)
           /\ t \in Txns /\ t \in PastReading /\ phase[t] = "committed"
<1>1. PICK i \in 1..Len(commits) : t = commits[i]
  BY DEF Committed
<1>2. Len(commits) \in Nat /\ Len(commits') \in Nat
  BY DEF TypeOK
<1>3. i \in 1..Len(commits') /\ t = commits'[i]
  BY <1>1, <1>2 DEF Kept
<1>4. t \in Committed'
  BY <1>3 DEF Committed
<1>5. phase[t] = "committed" /\ t \in Txns /\ t \in PastReading
  BY <1>1, Positions DEF CommitsOnce
<1>6. CommittedAt(t)' = CommittedAt(t)
  <2>1. CASE deploy = "trigger"
    BY <2>1 DEF CommittedAt, Kept
  <2>2. CASE deploy # "trigger"
    <3>1. CommittedAt(t) = i
      BY <1>1, <2>2, Positions
    <3>2. \A j \in 1..Len(commits') : commits'[j] = commits'[i] => j = i
      BY <1>3 DEF CommitsOnce
    <3>3. (CHOOSE j \in 1..Len(commits') : commits'[j] = t) = i
      BY <1>3, <3>2
    <3>4. deploy' # "trigger"
      BY <2>2 DEF Kept
    <3> QED
      BY <3>1, <3>3, <3>4 DEF CommittedAt
  <2> QED
    BY <2>1, <2>2
<1> QED
  BY <1>4, <1>5, <1>6

LEMMA SeenKept ==
    ASSUME TypeOK, CommitsOnce, Kept, NEW r \in PastReading
    PROVE  Seen(r)' = Seen(r)
<1>1. read'[r] = read[r] /\ r \in Txns
  BY DEF Kept, PastReading
<1>2. read[r].upto \in Nat /\ Len(commits) \in Nat /\ read[r].upto <= Len(commits)
  BY <1>1 DEF TypeOK, CommitsOnce
<1>3. \A j \in 1..read[r].upto : /\ commits'[j] = commits[j]
                                /\ wrote'[commits[j]] = wrote[commits[j]]
  <2> SUFFICES ASSUME NEW j \in 1..read[r].upto
               PROVE  commits'[j] = commits[j] /\ wrote'[commits[j]] = wrote[commits[j]]
    OBVIOUS
  <2>1. j \in 1..Len(commits)
    BY <1>2
  <2> QED
    BY <2>1, Positions DEF Kept, CommitsOnce
<1> QED
  BY <1>1, <1>3 DEF Seen

(* What a reader read committed before it, and counts as a write.            *)
LEMMA SeenBefore ==
    ASSUME TypeOK, CommitsOnce, NEW r \in PastReading, NEW w \in Seen(r)
    PROVE  /\ w \in Committed
           /\ read[r].key \in {wrote[w], Table}
           /\ r \in Committed => r # w
           /\ r \in Committed /\ deploy # "trigger" => CommittedAt(w) < CommittedAt(r)
<1>1. r \in Txns /\ read[r].upto \in Nat /\ Len(commits) \in Nat
      /\ read[r].upto <= Len(commits)
  BY DEF PastReading, TypeOK, CommitsOnce
<1>2. PICK j \in 1..read[r].upto :
        w = commits[j] /\ read[r].key \in {wrote[commits[j]], Table}
  BY DEF Seen
<1>3. j \in 1..Len(commits)
  BY <1>1, <1>2
<1>4. ASSUME r \in Committed
      PROVE  r # w /\ (deploy # "trigger" => CommittedAt(w) < CommittedAt(r))
  <2>1. PICK i \in 1..Len(commits) : r = commits[i]
    BY <1>4 DEF Committed
  <2>2. j < i
    BY <1>1, <1>2, <2>1 DEF CommitsOnce
  <2>3. r # w
    BY <1>2, <1>3, <2>1, <2>2 DEF CommitsOnce
  <2>4. deploy # "trigger" => CommittedAt(w) = j /\ CommittedAt(r) = i
    BY <1>2, <1>3, <2>1, Positions
  <2> QED
    BY <2>2, <2>3, <2>4
<1> QED
  BY <1>2, <1>3, <1>4 DEF Committed

-----------------------------------------------------------------------------
(* Lines, edges and answers outlive a step. *)

LEMMA LineKept ==
    ASSUME Kept, NEW l, TrueLine(l)
    PROVE  TrueLine(l)'
BY DEF Kept, TrueLine, TooLong

LEMMA TooLongKept ==
    ASSUME Kept, NEW r \in PastReading, TooLong(r)
    PROVE  TooLong(r)'
BY DEF Kept, TooLong

LEMMA RealKept ==
    ASSUME TypeOK, TypeOK', CommitsOnce, CommitsOnce', Kept, NEW e, Real(e)
    PROVE  Real(e)'
<1>1. e[1] \in Committed /\ e[2] \in Committed
  BY DEF Real
<1>2. /\ e[1] \in Committed' /\ CommittedAt(e[1])' = CommittedAt(e[1])
      /\ e[1] \in PastReading
  BY <1>1, PositionsKept
<1>3. /\ e[2] \in Committed' /\ CommittedAt(e[2])' = CommittedAt(e[2])
      /\ e[2] \in Txns /\ phase[e[2]] = "committed"
  BY <1>1, PositionsKept
<1>4. read'[e[1]] = read[e[1]] /\ wrote'[e[2]] = wrote[e[2]]
  BY <1>2, <1>3 DEF Kept
<1> QED
  BY <1>2, <1>3, <1>4 DEF Real

(* What a derivation finds is real. *)
LEMMA EdgesReal ==
    ASSUME ReadSetAssumption, TypeOK, CommitsOnce, NEW lines, \A l \in lines : TrueLine(l),
           NEW history, history \subseteq Committed, NEW e \in Edges(lines, history)
    PROVE  Real(e)
<1>1. /\ e[1] \in Committed /\ e[2] \in Committed
      /\ e[1] # e[2] /\ CommittedAt(e[1]) >= CommittedAt(e[2])
  BY DEF Edges
<1>2. PICK l \in lines : l.reader = e[1] /\ l.key \in {wrote[e[2]], Table}
  BY DEF Edges
<1>3. read[e[1]].key \in {wrote[e[2]], Table}
  <2>1. wrote[e[2]] \in Written \cup {Table}
    BY <1>1, HistoryType DEF TypeOK
  <2>2. l.key # Cut
    BY <1>2, <2>1 DEF ReadSetAssumption
  <2> QED
    BY <1>2, <2>2 DEF TrueLine
<1>4. PICK i \in 1..Len(commits) : e[1] = commits[i]
  BY <1>1 DEF Committed
<1>5. PICK j \in 1..Len(commits) : e[2] = commits[j]
  BY <1>1 DEF Committed
<1>6. CommittedAt(e[2]) < CommittedAt(e[1])
  <2>1. CASE deploy = "trigger"
    BY <1>1, <1>4, <1>5, <2>1, Positions, ReadSetAssumption DEF Txns, ReadSetAssumption
  <2>2. CASE deploy # "trigger"
    BY <1>1, <1>4, <1>5, <2>2, Positions
  <2> QED
    BY <2>1, <2>2
<1> QED
  BY <1>1, <1>3, <1>6 DEF Real

LEMMA EdgesHave ==
    ASSUME NEW lines, NEW history, NEW l \in lines, NEW r, NEW w,
           r \in history, w \in history, r # w, CommittedAt(r) >= CommittedAt(w),
           l.reader = r, l.key \in {wrote[w], Table}
    PROVE  <<r, w>> \in Edges(lines, history)
<1> DEFINE e == <<r, w>>
<1>1. e \in history \X history /\ e[1] = r /\ e[2] = w
  OBVIOUS
<1> HIDE DEF e
<1>2. e \in Edges(lines, history)
  BY <1>1 DEF Edges
<1> QED
  BY <1>2 DEF e

(* What a derivation does not find was too early, or the trigger dated the   *)
(* reader before the writer.                                                 *)
LEMMA EdgesAnswer ==
    ASSUME ReadSetAssumption, TypeOK, CommitsOnce,
           NEW lines, NEW history, history \subseteq Committed,
           NEW l \in lines, TrueLine(l), NEW w \in Seen(l.reader)
    PROVE  \/ <<l.reader, w>> \in Edges(lines, history)
           \/ <<l.reader, w>> \in TooEarly(lines, history)
           \/ deploy = "trigger" /\ l.reader < w
           \/ TooLong(l.reader)
<1> SUFFICES ASSUME ~TooLong(l.reader)
             PROVE  \/ <<l.reader, w>> \in Edges(lines, history)
                    \/ <<l.reader, w>> \in TooEarly(lines, history)
                    \/ deploy = "trigger" /\ l.reader < w
  OBVIOUS
<1> DEFINE r == l.reader
<1>1. r \in PastReading /\ l.key = read[r].key
  BY DEF TrueLine
<1>2. w \in Committed /\ read[r].key \in {wrote[w], Table}
  BY <1>1, SeenBefore
<1>6. ASSUME r \in Committed
      PROVE  r # w
  BY <1>1, <1>6, SeenBefore
<1>7. ASSUME r \in Committed, deploy # "trigger"
      PROVE  CommittedAt(w) < CommittedAt(r)
  BY <1>1, <1>7, SeenBefore
<1>3. r \in Txns /\ w \in Txns
  BY <1>1, <1>2, HistoryType DEF PastReading
<1>4. CASE ~({r, w} \subseteq history)
  BY <1>3, <1>4 DEF TooEarly
<1>5. CASE {r, w} \subseteq history
  <2>0. CommittedAt(r) >= CommittedAt(w) => <<r, w>> \in Edges(lines, history)
    <3>0. r \in history /\ w \in history /\ history \subseteq Committed
      BY <1>5
    <3>3. r \in Committed
      BY <3>0
    <3>4. r # w
      BY <1>6, <3>3, Zenon
    <3>1. r \in history /\ w \in history /\ r # w
      BY <3>0, <3>4
    <3>2. l.key \in {wrote[w], Table}
      BY <1>1, <1>2
    <3> QED
      BY <3>1, <3>2, EdgesHave
  <2>1. r \in Committed
    BY <1>5
  <2>2. PICK i \in 1..Len(commits) : r = commits[i]
    BY <2>1 DEF Committed
  <2>3. PICK j \in 1..Len(commits) : w = commits[j]
    BY <1>2 DEF Committed
  <2>4. CASE deploy = "trigger"
    <3>1. CommittedAt(r) = r /\ CommittedAt(w) = w
      BY <2>2, <2>3, <2>4, Positions
    <3>2. r \in Nat /\ w \in Nat
      BY <1>3 DEF Txns, ReadSetAssumption
    <3>3. CASE r < w
      BY <2>4, <3>3
    <3>4. CASE ~(r < w)
      <4>1. CommittedAt(r) >= CommittedAt(w)
        BY <3>1, <3>2, <3>4
      <4> QED
        BY <2>0, <4>1
    <3> QED
      BY <3>3, <3>4
  <2>5. CASE deploy # "trigger"
    <3>1. CommittedAt(r) = i /\ CommittedAt(w) = j
      BY <2>2, <2>3, <2>5, Positions
    <3>2. CommittedAt(r) >= CommittedAt(w)
      BY <1>7, <2>1, <2>5, <3>1
    <3> QED
      BY <2>0, <3>2
  <2> QED
    BY <2>4, <2>5
<1> QED
  BY <1>4, <1>5

-----------------------------------------------------------------------------
(* Lines stay true. *)

LEMMA LinesStep ==
    ASSUME TypeOK, LinesTrue, Kept, [Next]_vars
    PROVE  LinesTrue'
<1>1. \A l : TrueLine(l) => TrueLine(l)'
  BY LineKept
<1>2. CASE /\ \A l \in file' : TrueLine(l)'
           /\ UNCHANGED <<readSet, got, looked>>
  BY <1>1, <1>2 DEF LinesTrue
<1>3. CASE Application
  <2>1. UNCHANGED <<readSet, got, looked>>
    BY <1>3 DEF Application, Write, PreCommit, PreCommitUnwritten, Commit, Rollback,
       drains, previews
  <2>2. CASE UNCHANGED file
    BY <1>1, <1>2, <2>1, <2>2 DEF LinesTrue
  <2>3. CASE \E t \in Txns, k \in Keys \cup {Table} : PreCommit(t, k)
    <3>1. PICK t \in Txns, k \in Keys \cup {Table} : PreCommit(t, k)
      BY <2>3
    <3>2. phase'[t] = "flushed" /\ read'[t].key = k
      BY <3>1 DEF PreCommit, TypeOK
    <3>3. TrueLine([reader |-> t, key |-> k])'
      BY <3>2 DEF TrueLine, PastReading
    <3>4. file' = file \cup {[reader |-> t, key |-> k]}
      BY <3>1 DEF PreCommit
    <3> QED
      BY <1>1, <1>2, <2>1, <3>3, <3>4 DEF LinesTrue
  <2> QED
    BY <1>3, <2>2, <2>3 DEF Application, Write, PreCommitUnwritten, Commit, Rollback
<1>4. CASE Capture \/ UNCHANGED vars
  BY <1>1, <1>4 DEF Capture, vars, drains, previews, LinesTrue
<1>5. CASE \E d \in Drainers : DrainStep(d)
  <2>1. PICK d \in Drainers : DrainStep(d)
    BY <1>5
  <2>2. got \in [Drainers -> SUBSET Lines]
    BY DEF TypeOK
  <2>3. CASE DrainRead(d)
    <3>1. \A l \in file : TrueLine(Parsed(l))
      <4> SUFFICES ASSUME NEW l \in file PROVE TrueLine(Parsed(l))
        OBVIOUS
      <4>1. l \in Lines /\ TrueLine(l)
        BY DEF TypeOK, LinesTrue
      <4>2. Parsed(l).reader = l.reader
            /\ (Parsed(l).key = l.key \/ (l.key \in LongKeys /\ Parsed(l).key = Cut))
        BY <4>1, ParsedLine
      <4>3. CASE Parsed(l).key = l.key
        BY <4>1, <4>2, <4>3 DEF TrueLine
      <4>4. CASE l.key \in LongKeys /\ Parsed(l).key = Cut
        BY <4>1, <4>2, <4>4 DEF TrueLine, TooLong
      <4> QED
        BY <4>2, <4>3, <4>4
    <3>2. \A l \in got'[d] : TrueLine(l)
      BY <2>2, <2>3, <3>1 DEF DrainRead
    <3>3. \A e \in Drainers : \A l \in got'[e] : TrueLine(l)
      <4> SUFFICES ASSUME NEW e \in Drainers, NEW l \in got'[e] PROVE TrueLine(l)
        OBVIOUS
      <4>1. e # d => got'[e] = got[e]
        BY <2>2, <2>3 DEF DrainRead
      <4> QED
        BY <3>2, <4>1 DEF LinesTrue
    <3>4. UNCHANGED <<file, readSet, looked>>
      BY <2>3 DEF DrainRead, previews
    <3> QED
      BY <1>1, <3>3, <3>4 DEF LinesTrue
  <2>4. CASE DrainTake(d)
    BY <1>1, <2>4 DEF DrainTake, LinesTrue, previews
  <2>5. CASE CommitDrain(d)
    BY <1>1, <2>2, <2>5 DEF CommitDrain, Drained, LinesTrue, previews
  <2>6. CASE FailDrain(d) \/ Deadlock(d)
    BY <1>1, <2>2, <2>6 DEF FailDrain, Deadlock, RollbackDrain, Drained, LinesTrue, previews
  <2>7. CASE Ship(d)
    BY <1>1, <2>2, <2>7 DEF Ship, Drained, LinesTrue, previews
  <2>8. CASE FailShip(d)
    BY <1>1, <2>2, <2>8 DEF FailShip, Drained, LinesTrue, previews
  <2> QED
    BY <2>1, <2>3, <2>4, <2>5, <2>6, <2>7, <2>8 DEF DrainStep
<1>6. CASE \E p \in Previewers : PreviewStep(p)
  <2>1. PICK p \in Previewers : PreviewStep(p)
    BY <1>6
  <2>2. looked \in [Previewers -> SUBSET Lines]
    BY DEF TypeOK
  <2>3. CASE PreviewDerive(p)
    BY <1>1, <2>2, <2>3 DEF PreviewDerive, LinesTrue
  <2>4. CASE PreviewClear(p) \/ PreviewFail(p)
    BY <1>1, <2>2, <2>4 DEF PreviewClear, PreviewFail, PreviewEnd, LinesTrue
  <2> QED
    BY <2>1, <2>3, <2>4 DEF PreviewStep
<1>7. CASE \E cutoff \in Cutoffs : Age(cutoff)
  BY <1>1, <1>7 DEF Age, drains, previews, LinesTrue
<1> QED
  BY <1>3, <1>4, <1>5, <1>6, <1>7, NextCases

-----------------------------------------------------------------------------
(* Edges stay real. *)

LEMMA EdgesStep ==
    ASSUME ReadSetAssumption, TypeOK, TypeOK', CommitsOnce, CommitsOnce', LinesTrue,
           EdgesTrue, Kept, [Next]_vars
    PROVE  EdgesTrue'
<1> DEFINE S == Drainers \cup Previewers
<1>0. found \in [S -> SUBSET (Txns \X Txns)]
  BY DEF TypeOK
<1>1. \A e : Real(e) => Real(e)'
  BY RealKept
<1>2. CASE UNCHANGED <<deps, found>>
  BY <1>1, <1>2 DEF EdgesTrue
<1>3. CASE Application \/ Capture \/ UNCHANGED vars
  BY <1>2, <1>3 DEF Application, Write, PreCommit, PreCommitUnwritten, Commit, Rollback,
     Capture, vars, drains
<1>4. CASE \E d \in Drainers : DrainStep(d)
  <2>1. PICK d \in Drainers : DrainStep(d)
    BY <1>4
  <2>2. CASE DrainRead(d)
    BY <1>2, <2>2 DEF DrainRead
  <2>3. CASE DrainTake(d)
    <3>1. CASE d \in Forwarders
      BY <1>2, <2>3, <3>1 DEF DrainTake
    <3>2. CASE d \notin Forwarders
      <4>1. found' = [found EXCEPT ![d] = Edges(got[d], TenantHistory)] /\ deps' = deps
        BY <2>3, <3>2 DEF DrainTake
      <4>2. \A e \in Edges(got[d], TenantHistory) : Real(e)
        BY EdgesReal, HistoryType DEF LinesTrue
      <4> QED
        BY <1>0, <1>1, <4>1, <4>2 DEF EdgesTrue
    <3> QED
      BY <3>1, <3>2
  <2>4. CASE CommitDrain(d)
    BY <1>0, <1>1, <2>4 DEF CommitDrain, Drained, EdgesTrue
  <2>5. CASE FailDrain(d) \/ Deadlock(d)
    BY <1>0, <1>1, <2>5 DEF FailDrain, Deadlock, RollbackDrain, Drained, EdgesTrue
  <2>6. CASE Ship(d) \/ FailShip(d)
    BY <1>0, <1>1, <2>6 DEF Ship, FailShip, Drained, EdgesTrue
  <2> QED
    BY <2>1, <2>2, <2>3, <2>4, <2>5, <2>6 DEF DrainStep
<1>5. CASE \E p \in Previewers : PreviewStep(p)
  <2>1. PICK p \in Previewers : PreviewStep(p)
    BY <1>5
  <2>2. CASE PreviewDerive(p)
    <3>1. found' = [found EXCEPT ![p] = Edges(readSet, History)] /\ deps' = deps
      BY <2>2 DEF PreviewDerive
    <3>2. \A e \in Edges(readSet, History) : Real(e)
      BY EdgesReal, HistoryType DEF LinesTrue
    <3> QED
      BY <1>0, <1>1, <3>1, <3>2 DEF EdgesTrue
  <2>3. CASE PreviewClear(p) \/ PreviewFail(p)
    BY <1>0, <1>1, <2>3 DEF PreviewClear, PreviewFail, PreviewEnd, EdgesTrue
  <2> QED
    BY <2>1, <2>2, <2>3 DEF PreviewStep
<1>6. CASE \E cutoff \in Cutoffs : Age(cutoff)
  BY <1>1, <1>6 DEF Age, drains, EdgesTrue
<1> QED
  BY <1>3, <1>4, <1>5, <1>6, NextCases

-----------------------------------------------------------------------------
(* Open derivations stay complete. *)

LEMMA BehindGrows ==
    ASSUME [Next]_vars
    PROVE  behind \subseteq behind'
<1>1. CASE Application \/ Capture \/ (\E cutoff \in Cutoffs : Age(cutoff)) \/ UNCHANGED vars
  BY <1>1 DEF Application, Write, PreCommit, PreCommitUnwritten, Commit, Rollback,
     Capture, Age, vars
<1>2. CASE \E d \in Drainers : DrainStep(d)
  BY <1>2 DEF DrainStep, DrainRead, DrainTake, CommitDrain, FailDrain, Deadlock, RollbackDrain,
              Ship, FailShip
<1>3. CASE \E p \in Previewers : PreviewStep(p)
  BY <1>3 DEF PreviewStep, PreviewDerive, PreviewClear, PreviewFail, PreviewEnd
<1> QED
  BY <1>1, <1>2, <1>3, NextCases

(* A session that has derived keeps what it has, or has just derived.        *)
LEMMA TakenStep ==
    ASSUME ReadSetAssumption, TypeOK, [Next]_vars,
           NEW d \in Drainers \ Forwarders, stage'[d] = "taken"
    PROVE  \/ DrainTake(d)
           \/ stage[d] = "taken" /\ got'[d] = got[d] /\ found'[d] = found[d]
<1>0. /\ stage \in [Drainers -> {"idle", "read", "taken", "ship"}]
      /\ got \in [Drainers -> SUBSET Lines]
      /\ found \in [Drainers \cup Previewers -> SUBSET (Txns \X Txns)]
  BY DEF TypeOK
<1>1. CASE UNCHANGED drains
  BY <1>1 DEF drains
<1>2. CASE Application \/ Capture \/ (\E cutoff \in Cutoffs : Age(cutoff)) \/ UNCHANGED vars
  BY <1>1, <1>2 DEF Application, Write, PreCommit, PreCommitUnwritten, Commit, Rollback,
     Capture, Age, vars
<1>3. CASE \E e \in Drainers : DrainStep(e)
  <2>1. PICK e \in Drainers : DrainStep(e)
    BY <1>3
  <2>2. CASE e # d
    <3>1. stage'[d] = stage[d] /\ got'[d] = got[d] /\ found'[d] = found[d]
      BY <1>0, <2>1, <2>2 DEF DrainStep, DrainRead, DrainTake, CommitDrain, FailDrain,
         Deadlock, RollbackDrain, Ship, FailShip, Drained, Move
    <3> QED
      BY <3>1
  <2>3. CASE e = d
    <3>1. CASE DrainTake(e)
      BY <2>3, <3>1
    <3>2. CASE ~DrainTake(e)
      <4>1. stage'[d] \in {"idle", "read", "ship"}
        BY <1>0, <2>1, <2>3, <3>2 DEF DrainStep, DrainRead, CommitDrain, FailDrain,
           Deadlock, RollbackDrain, Ship, FailShip, Drained, Move
      <4> QED
        BY <4>1
    <3> QED
      BY <3>1, <3>2
  <2> QED
    BY <2>2, <2>3
<1>4. CASE \E p \in Previewers : PreviewStep(p)
  <2>1. PICK p \in Previewers : PreviewStep(p)
    BY <1>4
  <2>2. p # d
    BY DEF ReadSetAssumption
  <2>3. UNCHANGED <<stage, got>>
    BY <2>1 DEF PreviewStep, PreviewDerive, PreviewClear, PreviewFail, PreviewEnd
  <2>4. found'[d] = found[d]
    BY <1>0, <2>1, <2>2 DEF PreviewStep, PreviewDerive, PreviewClear, PreviewFail, PreviewEnd
  <2> QED
    BY <2>3, <2>4
<1> QED
  BY <1>2, <1>3, <1>4, NextCases

LEMMA DerivedStep ==
    ASSUME ReadSetAssumption, TypeOK, [Next]_vars,
           NEW p \in Previewers, preview'[p] = "derived"
    PROVE  \/ PreviewDerive(p)
           \/ preview[p] = "derived" /\ looked'[p] = looked[p] /\ found'[p] = found[p]
<1>0. /\ preview \in [Previewers -> {"idle", "derived"}]
      /\ looked \in [Previewers -> SUBSET Lines]
      /\ found \in [Drainers \cup Previewers -> SUBSET (Txns \X Txns)]
  BY DEF TypeOK
<1>1. CASE UNCHANGED <<previews, found>>
  BY <1>1 DEF previews
<1>2. CASE Application \/ Capture \/ (\E cutoff \in Cutoffs : Age(cutoff)) \/ UNCHANGED vars
  BY <1>1, <1>2 DEF Application, Write, PreCommit, PreCommitUnwritten, Commit, Rollback,
     Capture, Age, vars, drains
<1>3. CASE \E d \in Drainers : DrainStep(d)
  <2>1. PICK d \in Drainers : DrainStep(d)
    BY <1>3
  <2>2. p # d
    BY DEF ReadSetAssumption
  <2>3. UNCHANGED previews
    BY <2>1 DEF DrainStep, DrainRead, DrainTake, CommitDrain, FailDrain, Deadlock,
       RollbackDrain, Ship, FailShip
  <2>4. found'[p] = found[p]
    BY <1>0, <2>1, <2>2 DEF DrainStep, DrainRead, DrainTake, CommitDrain, FailDrain,
       Deadlock, RollbackDrain, Ship, FailShip, Drained
  <2> QED
    BY <2>3, <2>4 DEF previews
<1>4. CASE \E q \in Previewers : PreviewStep(q)
  <2>1. PICK q \in Previewers : PreviewStep(q)
    BY <1>4
  <2>2. CASE q # p
    BY <1>0, <2>1, <2>2 DEF PreviewStep, PreviewDerive, PreviewClear, PreviewFail, PreviewEnd
  <2>3. CASE q = p
    BY <1>0, <2>1, <2>3 DEF PreviewStep, PreviewClear, PreviewFail, PreviewEnd
  <2> QED
    BY <2>2, <2>3
<1> QED
  BY <1>2, <1>3, <1>4, NextCases

LEMMA MatchedStep ==
    ASSUME ReadSetAssumption, TypeOK, CommitsOnce, LinesTrue, Matched, Kept, [Next]_vars
    PROVE  Matched'
<1>1. behind \subseteq behind' /\ deploy' = deploy
  BY BehindGrows DEF Kept
<1>2. ASSUME NEW d \in Drainers \ Forwarders, stage'[d] = "taken",
             NEW l \in got'[d], NEW w \in Seen(l.reader)'
      PROVE  Answered(l.reader, w, found[d])'
  <2>1. CASE DrainTake(d)
    <3>1. /\ got' = got /\ found' = [found EXCEPT ![d] = Edges(got[d], TenantHistory)]
          /\ behind' = behind \cup TooEarly(got[d], TenantHistory)
      BY <2>1 DEF DrainTake
    <3>2. found'[d] = Edges(got[d], TenantHistory)
      BY <3>1 DEF TypeOK
    <3>3. l \in got[d] /\ TrueLine(l)
      BY <3>1 DEF LinesTrue
    <3>4. w \in Seen(l.reader)
      BY <3>3, SeenKept DEF TrueLine
    <3>5. \/ <<l.reader, w>> \in Edges(got[d], TenantHistory)
          \/ <<l.reader, w>> \in TooEarly(got[d], TenantHistory)
          \/ deploy = "trigger" /\ l.reader < w
          \/ TooLong(l.reader)'
      BY <3>3, <3>4, EdgesAnswer, HistoryType, TooLongKept DEF TrueLine
    <3> QED
      BY <1>1, <3>1, <3>2, <3>5 DEF Answered
  <2>2. CASE stage[d] = "taken" /\ got'[d] = got[d] /\ found'[d] = found[d]
    <3>1. l \in got[d] /\ TrueLine(l)
      BY <2>2 DEF LinesTrue
    <3>2. w \in Seen(l.reader)
      BY <3>1, SeenKept DEF TrueLine
    <3>3. Answered(l.reader, w, found[d])
      BY <2>2, <3>1, <3>2 DEF Matched
    <3>4. TooLong(l.reader) => TooLong(l.reader)'
      BY <3>1, TooLongKept DEF TrueLine
    <3> QED
      BY <1>1, <2>2, <3>3, <3>4 DEF Answered
  <2> QED
    BY <1>2, <2>1, <2>2, TakenStep
<1>3. ASSUME NEW p \in Previewers, preview'[p] = "derived",
             NEW l \in looked'[p], NEW w \in Seen(l.reader)'
      PROVE  Answered(l.reader, w, found[p])'
  <2>1. CASE PreviewDerive(p)
    <3>1. /\ looked' = [looked EXCEPT ![p] = readSet]
          /\ found' = [found EXCEPT ![p] = Edges(readSet, History)]
          /\ behind' = behind \cup TooEarly(readSet, History)
      BY <2>1 DEF PreviewDerive
    <3>2. found'[p] = Edges(readSet, History) /\ looked'[p] = readSet
      BY <3>1 DEF TypeOK
    <3>3. l \in readSet /\ TrueLine(l)
      BY <3>2 DEF LinesTrue
    <3>4. w \in Seen(l.reader)
      BY <3>3, SeenKept DEF TrueLine
    <3>5. \/ <<l.reader, w>> \in Edges(readSet, History)
          \/ <<l.reader, w>> \in TooEarly(readSet, History)
          \/ deploy = "trigger" /\ l.reader < w
          \/ TooLong(l.reader)'
      BY <3>3, <3>4, EdgesAnswer, HistoryType, TooLongKept DEF TrueLine
    <3> QED
      BY <1>1, <3>1, <3>2, <3>5 DEF Answered
  <2>2. CASE preview[p] = "derived" /\ looked'[p] = looked[p] /\ found'[p] = found[p]
    <3>1. l \in looked[p] /\ TrueLine(l)
      BY <2>2 DEF LinesTrue
    <3>2. w \in Seen(l.reader)
      BY <3>1, SeenKept DEF TrueLine
    <3>3. Answered(l.reader, w, found[p])
      BY <2>2, <3>1, <3>2 DEF Matched
    <3>4. TooLong(l.reader) => TooLong(l.reader)'
      BY <3>1, TooLongKept DEF TrueLine
    <3> QED
      BY <1>1, <2>2, <3>3, <3>4 DEF Answered
  <2> QED
    BY <1>3, <2>1, <2>2, DerivedStep
<1> QED
  BY <1>2, <1>3 DEF Matched

-----------------------------------------------------------------------------
(* Every read is somewhere. *)

LEMMA AgeType ==
    ASSUME ReadSetAssumption, TypeOK, CommitsOnce
    PROVE  age \in Nat /\ \A t \in Committed : CommittedAt(t) \in Nat
<1>1. age \in Nat
  BY DEF TypeOK, ReadSetAssumption
<1>2. ASSUME NEW t \in Committed
      PROVE  CommittedAt(t) \in Nat
  <2>1. PICK i \in 1..Len(commits) : t = commits[i]
    BY DEF Committed
  <2>2. i \in Nat /\ t \in Nat
    <3>1. t \in Txns
      BY <2>1, Positions
    <3> QED
      BY <3>1 DEF Txns, ReadSetAssumption
  <2> QED
    BY <2>1, <2>2, Positions
<1> QED
  BY <1>1, <1>2

LEMMA LossesKept ==
    ASSUME ReadSetAssumption, TypeOK, [Next]_vars
    PROVE  lost \subseteq lost' /\ age <= age'
<1>0. age \in Nat
  BY DEF TypeOK, ReadSetAssumption
<1>1. CASE Application \/ Capture \/ UNCHANGED vars
  BY <1>0, <1>1 DEF Application, Write, PreCommit, PreCommitUnwritten, Commit, Rollback,
     Capture, vars
<1>2. CASE \E cutoff \in Cutoffs : Age(cutoff)
  <2>1. PICK cutoff \in Cutoffs : Age(cutoff)
    BY <1>2
  <2>2. lost' = lost /\ age' = IF cutoff > age THEN cutoff ELSE age
    BY <2>1 DEF Age
  <2>3. cutoff \in Nat
    BY DEF ReadSetAssumption
  <2> QED
    BY <1>0, <2>2, <2>3
<1>3. CASE \E d \in Drainers : DrainStep(d)
  <2>1. lost \subseteq lost'
    BY <1>3 DEF DrainStep, DrainRead, DrainTake, CommitDrain, FailDrain, Deadlock,
       RollbackDrain, Ship, FailShip
  <2>2. age' = age
    BY <1>3 DEF DrainStep, DrainRead, DrainTake, CommitDrain, FailDrain, Deadlock,
       RollbackDrain, Ship, FailShip
  <2> QED
    BY <1>0, <2>1, <2>2
<1>4. CASE \E p \in Previewers : PreviewStep(p)
  BY <1>0, <1>4 DEF PreviewStep, PreviewDerive, PreviewClear, PreviewFail, PreviewEnd
<1> QED
  BY <1>1, <1>2, <1>3, <1>4, NextCases

LEMMA GoneKept ==
    ASSUME ReadSetAssumption, TypeOK, TypeOK', CommitsOnce, CommitsOnce', Kept, [Next]_vars,
           NEW r, Gone(r)
    PROVE  Gone(r)'
<1>1. CASE r \in Committed /\ CommittedAt(r) < age
  <2>1. r \in Committed' /\ CommittedAt(r)' = CommittedAt(r)
    BY <1>1, PositionsKept
  <2>2. age <= age' /\ age \in Nat /\ CommittedAt(r) \in Nat
    BY <1>1, AgeType, LossesKept
  <2>3. age' \in Nat
    BY DEF TypeOK, ReadSetAssumption
  <2>4. CommittedAt(r)' < age'
    BY <1>1, <2>1, <2>2, <2>3
  <2> QED
    BY <2>1, <2>4 DEF Gone
<1>2. CASE \E cause \in Causes : <<r, cause>> \in lost
  BY <1>2, LossesKept DEF Gone, Causes
<1> QED
  BY <1>1, <1>2 DEF Gone

LEMMA LostIsGone ==
    ASSUME NEW lines, NEW l \in lines, NEW cause \in Causes,
           Lost(lines, cause) \subseteq lost'
    PROVE  Gone(l.reader)'
<1>1. <<l.reader, cause>> \in Lost(lines, cause)
  BY DEF Lost
<1>2. cause \in Causes' /\ <<l.reader, cause>> \in lost'
  BY <1>1 DEF Causes
<1> QED
  BY <1>2 DEF Gone

(* Aging: a reader whose edges and reads it removes counts as gone.          *)
LEMMA AgedIsGone ==
    ASSUME ReadSetAssumption, TypeOK, TypeOK', CommitsOnce, CommitsOnce', Kept,
           NEW cutoff \in Cutoffs, Age(cutoff),
           NEW r \in History, CommittedAt(r) < cutoff
    PROVE  Gone(r)'
<1>1. r \in Committed
  BY HistoryType
<1>2. r \in Committed' /\ CommittedAt(r)' = CommittedAt(r) /\ CommittedAt(r) \in Nat
  BY <1>1, PositionsKept, AgeType
<1>3. age \in Nat /\ cutoff \in Nat
  BY AgeType DEF ReadSetAssumption
<1>4. age' = IF cutoff > age THEN cutoff ELSE age
  BY DEF Age
<1>5. CommittedAt(r)' < age'
  BY <1>2, <1>3, <1>4
<1> QED
  BY <1>2, <1>5 DEF Gone

LEMMA DepsStep ==
    ASSUME ReadSetAssumption, TypeOK, TypeOK', CommitsOnce, CommitsOnce', Kept, [Next]_vars,
           NEW r, NEW w, <<r, w>> \in deps
    PROVE  <<r, w>> \in deps' \/ Gone(r)'
<1>1. CASE Application \/ Capture \/ UNCHANGED vars
  BY <1>1 DEF Application, Write, PreCommit, PreCommitUnwritten, Commit, Rollback,
     Capture, vars
<1>2. CASE \E cutoff \in Cutoffs : Age(cutoff)
  <2>1. PICK cutoff \in Cutoffs : Age(cutoff)
    BY <1>2
  <2>2. CASE r \in History /\ CommittedAt(r) < cutoff
    BY <2>1, <2>2, AgedIsGone
  <2>3. CASE ~(r \in History /\ CommittedAt(r) < cutoff)
    BY <2>1, <2>3 DEF Age
  <2> QED
    BY <2>2, <2>3
<1>3. CASE \E d \in Drainers : DrainStep(d)
  BY <1>3 DEF DrainStep, DrainRead, DrainTake, CommitDrain, FailDrain, Deadlock,
     RollbackDrain, Ship, FailShip
<1>4. CASE \E p \in Previewers : PreviewStep(p)
  BY <1>4 DEF PreviewStep, PreviewDerive, PreviewClear, PreviewFail, PreviewEnd
<1> QED
  BY <1>1, <1>2, <1>3, <1>4, NextCases

(* A line in the file stays there until a session empties it; that session   *)
(* has read it, or it is cut off.                                            *)
LEMMA FileStep ==
    ASSUME TypeOK, [Next]_vars, NEW l \in file
    PROVE  UnderWay(l.reader)' \/ Gone(l.reader)'
<1>1. CASE file \subseteq file'
  BY <1>1 DEF UnderWay
<1>2. CASE Application \/ Capture \/ (\E cutoff \in Cutoffs : Age(cutoff)) \/ UNCHANGED vars
  BY <1>1, <1>2 DEF Application, Write, PreCommit, PreCommitUnwritten, Commit, Rollback,
     Capture, Age, vars
<1>3. CASE \E d \in Drainers : DrainStep(d)
  <2>1. PICK d \in Drainers : DrainStep(d)
    BY <1>3
  <2>2. CASE DrainTake(d)
    <3>1. /\ stage'[d] = "taken" /\ got' = got
          /\ lost' = lost \cup Lost({m \in file : Parsed(m) \notin got[d]}, "late")
      BY <2>2 DEF DrainTake, Move, TypeOK
    <3>2. CASE Parsed(l) \in got[d]
      <4>1. Parsed(l).reader = l.reader
        BY ParsedLine DEF TypeOK
      <4> QED
        BY <3>1, <3>2, <4>1 DEF UnderWay
    <3>3. CASE Parsed(l) \notin got[d]
      <4>1. l \in {m \in file : Parsed(m) \notin got[d]}
        BY <3>3
      <4> QED
        BY <3>1, <4>1, LostIsGone DEF Causes
    <3> QED
      BY <3>2, <3>3
  <2>3. CASE ~DrainTake(d)
    BY <1>1, <2>1, <2>3 DEF DrainStep, DrainRead, CommitDrain, FailDrain, Deadlock,
       RollbackDrain, Ship, FailShip
  <2> QED
    BY <2>2, <2>3
<1>4. CASE \E p \in Previewers : PreviewStep(p)
  BY <1>1, <1>4 DEF PreviewStep, PreviewDerive, PreviewClear, PreviewFail, PreviewEnd
<1> QED
  BY <1>2, <1>3, <1>4, NextCases

(* A line in eter.read_set stays there until it is aged out or a preview     *)
(* clears the table; that preview has derived from it, or it is swept.       *)
LEMMA StoredStep ==
    ASSUME ReadSetAssumption, TypeOK, TypeOK', CommitsOnce, CommitsOnce', LinesTrue,
           Matched, Kept, [Next]_vars, NEW l \in readSet, NEW w \in Seen(l.reader)
    PROVE  Answered(l.reader, w, deps)' \/ UnderWay(l.reader)' \/ Gone(l.reader)'
<1>1. CASE l \in readSet'
  BY <1>1 DEF UnderWay
<1>2. CASE Application \/ Capture \/ UNCHANGED vars
  BY <1>1, <1>2 DEF Application, Write, PreCommit, PreCommitUnwritten, Commit, Rollback,
     Capture, vars
<1>3. CASE \E cutoff \in Cutoffs : Age(cutoff)
  <2>1. PICK cutoff \in Cutoffs : Age(cutoff)
    BY <1>3
  <2>2. CASE l.reader \in History /\ CommittedAt(l.reader) < cutoff
    BY <2>1, <2>2, AgedIsGone
  <2>3. CASE ~(l.reader \in History /\ CommittedAt(l.reader) < cutoff)
    BY <1>1, <2>1, <2>3 DEF Age
  <2> QED
    BY <2>2, <2>3
<1>4. CASE \E d \in Drainers : DrainStep(d)
  BY <1>1, <1>4 DEF DrainStep, DrainRead, DrainTake, CommitDrain, FailDrain, Deadlock,
     RollbackDrain, Ship, FailShip
<1>5. CASE \E p \in Previewers : PreviewStep(p)
  <2>1. PICK p \in Previewers : PreviewStep(p)
    BY <1>5
  <2>2. CASE PreviewClear(p)
    <3>1. /\ preview[p] = "derived" /\ deps' = deps \cup found[p]
          /\ lost' = lost \cup Lost(readSet \ looked[p], "swept")
      BY <2>2 DEF PreviewClear, PreviewEnd
    <3>2. CASE l \in looked[p]
      <4>1. Answered(l.reader, w, found[p])
        BY <3>1, <3>2 DEF Matched
      <4>2. TooLong(l.reader) => TooLong(l.reader)'
        BY TooLongKept DEF LinesTrue, TrueLine
      <4> QED
        BY <3>1, <4>1, <4>2, BehindGrows DEF Answered, Kept
    <3>3. CASE l \notin looked[p]
      BY <3>1, <3>3, LostIsGone DEF Causes
    <3> QED
      BY <3>2, <3>3
  <2>3. CASE ~PreviewClear(p)
    BY <1>1, <2>1, <2>3 DEF PreviewStep, PreviewDerive, PreviewFail
  <2> QED
    BY <2>2, <2>3
<1> QED
  BY <1>2, <1>3, <1>4, <1>5, NextCases

(* A line that a session took is derived from or shipped when the session    *)
(* commits, and lost when it fails.                                          *)
LEMMA TakenLineStep ==
    ASSUME ReadSetAssumption, TypeOK, LinesTrue, Matched, Kept, [Next]_vars,
           NEW d \in Drainers, stage[d] \in {"taken", "ship"},
           NEW l \in got[d], NEW w \in Seen(l.reader)
    PROVE  Answered(l.reader, w, deps)' \/ UnderWay(l.reader)' \/ Gone(l.reader)'
<1>0. /\ stage \in [Drainers -> {"idle", "read", "taken", "ship"}]
      /\ got \in [Drainers -> SUBSET Lines]
  BY DEF TypeOK
<1>1. CASE stage'[d] \in {"taken", "ship"} /\ got'[d] = got[d]
  BY <1>1 DEF UnderWay
<1>2. CASE Application \/ Capture \/ (\E cutoff \in Cutoffs : Age(cutoff)) \/ UNCHANGED vars
  BY <1>1, <1>2 DEF Application, Write, PreCommit, PreCommitUnwritten, Commit, Rollback,
     Capture, Age, vars, drains
<1>3. CASE \E p \in Previewers : PreviewStep(p)
  BY <1>1, <1>3 DEF PreviewStep, PreviewDerive, PreviewClear, PreviewFail, PreviewEnd
<1>4. CASE \E e \in Drainers : DrainStep(e)
  <2>1. PICK e \in Drainers : DrainStep(e)
    BY <1>4
  <2>2. CASE e # d
    <3>1. stage'[d] = stage[d] /\ got'[d] = got[d]
      BY <1>0, <2>1, <2>2 DEF DrainStep, DrainRead, DrainTake, CommitDrain, FailDrain,
         Deadlock, RollbackDrain, Ship, FailShip, Drained, Move
    <3> QED
      BY <1>1, <3>1
  <2>3. CASE DrainRead(d) \/ DrainTake(d)
    BY <2>3 DEF DrainRead, DrainTake
  <2>4. CASE CommitDrain(d)
    <3>1. CASE d \in Forwarders
      <4>1. stage'[d] = "ship" /\ got'[d] = got[d]
        BY <1>0, <2>4, <3>1 DEF CommitDrain, Drained, Move
      <4> QED
        BY <1>1, <4>1
    <3>2. CASE d \notin Forwarders
      <4>1. stage[d] = "taken" /\ deps' = deps \cup found[d]
        BY <2>4 DEF CommitDrain
      <4>2. Answered(l.reader, w, found[d])
        BY <3>2, <4>1 DEF Matched
      <4>3. TooLong(l.reader) => TooLong(l.reader)'
        BY TooLongKept DEF LinesTrue, TrueLine
      <4> QED
        BY <4>1, <4>2, <4>3, BehindGrows DEF Answered, Kept
    <3> QED
      BY <3>1, <3>2
  <2>5. CASE FailDrain(d) \/ Deadlock(d)
    <3>1. Lost(got[d], "rollback") \subseteq lost'
      BY <2>5 DEF FailDrain, Deadlock, RollbackDrain
    <3> QED
      BY <3>1, LostIsGone DEF Causes
  <2>6. CASE Ship(d)
    <3>1. l \in readSet'
      BY <2>6 DEF Ship
    <3> QED
      BY <3>1 DEF UnderWay
  <2>7. CASE FailShip(d)
    <3>1. Lost(got[d], "ship") \subseteq lost'
      BY <2>7 DEF FailShip
    <3> QED
      BY <3>1, LostIsGone DEF Causes
  <2> QED
    BY <2>1, <2>2, <2>3, <2>4, <2>5, <2>6, <2>7 DEF DrainStep
<1> QED
  BY <1>2, <1>3, <1>4, NextCases

LEMMA NothingSeenStep ==
    ASSUME TypeOK, NothingSeen, [Next]_vars
    PROVE  NothingSeen'
<1>0. /\ phase \in [Txns -> {"none", "open", "flushed", "committed", "aborted"}]
      /\ read \in [Txns -> [key : Keys \cup {Table}, upto : Nat]]
  BY DEF TypeOK
<1>1. CASE Application
  BY <1>0, <1>1 DEF Application, Write, PreCommit, PreCommitUnwritten, Commit, Rollback,
     NothingSeen, PastReading
<1>2. CASE UNCHANGED txns
  BY <1>2 DEF txns, NothingSeen, PastReading
<1>3. CASE Capture \/ (\E cutoff \in Cutoffs : Age(cutoff)) \/ UNCHANGED vars
  BY <1>2, <1>3 DEF Capture, Age, vars
<1>4. CASE \E d \in Drainers : DrainStep(d)
  BY <1>2, <1>4 DEF DrainStep, DrainRead, DrainTake, CommitDrain, FailDrain, Deadlock,
     RollbackDrain, Ship, FailShip
<1>5. CASE \E p \in Previewers : PreviewStep(p)
  BY <1>2, <1>5 DEF PreviewStep, PreviewDerive, PreviewClear, PreviewFail, PreviewEnd
<1> QED
  BY <1>1, <1>3, <1>4, <1>5, NextCases

(* A transaction that has newly seen something has written its line, or its  *)
(* line is on record as not written.                                         *)
LEMMA NewReader ==
    ASSUME TypeOK, NothingSeen, [Next]_vars,
           NEW r \in PastReading', r \notin PastReading, NEW w \in Seen(r)'
    PROVE  UnderWay(r)' \/ Gone(r)'
<1>0. phase \in [Txns -> {"none", "open", "flushed", "committed", "aborted"}] /\ r \in Txns
  BY DEF TypeOK, PastReading
<1>1. CASE phase'[r] = phase[r]
  BY <1>0, <1>1 DEF PastReading
<1>2. CASE Application
  <2>1. PICK t \in Txns :
          \/ \E k \in Written : Write(t, k)
          \/ \E k \in Keys \cup {Table} : PreCommit(t, k) \/ PreCommitUnwritten(t, k)
          \/ Commit(t)
          \/ Rollback(t)
    BY <1>2, Zenon DEF Application
  <2>2. CASE \E k \in Written : Write(t, k)
    BY <1>0, <2>2 DEF Write, PastReading
  <2>3. CASE \E k \in Keys \cup {Table} : PreCommit(t, k) \/ PreCommitUnwritten(t, k)
    <3>1. CASE r = t
      <4>1. PICK k \in Keys \cup {Table} : PreCommit(t, k) \/ PreCommitUnwritten(t, k)
        BY <2>3
      <4>2. CASE PreCommit(t, k)
        <5>1. [reader |-> r, key |-> k] \in file'
          BY <3>1, <4>2 DEF PreCommit
        <5> QED
          BY <5>1 DEF UnderWay
      <4>3. CASE PreCommitUnwritten(t, k)
        <5>1. <<r, "unwritten">> \in lost'
          BY <3>1, <4>3 DEF PreCommitUnwritten
        <5> QED
          BY <5>1 DEF Gone, Causes
      <4> QED
        BY <4>1, <4>2, <4>3
    <3>2. CASE r # t
      BY <1>0, <1>1, <2>3, <3>2 DEF PreCommit, PreCommitUnwritten
    <3> QED
      BY <3>1, <3>2
  <2>4. CASE Commit(t)
    <3>1. read' = read /\ read[r].upto = 0
      BY <1>0, <2>4 DEF Commit, NothingSeen
    <3>2. 1..read'[r].upto = {}
      BY <3>1
    <3> QED
      BY <3>2 DEF Seen
  <2>5. CASE Rollback(t)
    BY <1>0, <2>5 DEF Rollback, PastReading
  <2> QED
    BY <2>1, <2>2, <2>3, <2>4, <2>5
<1>3. CASE UNCHANGED txns
  BY <1>1, <1>3 DEF txns
<1>4. CASE Capture \/ (\E cutoff \in Cutoffs : Age(cutoff)) \/ UNCHANGED vars
  BY <1>3, <1>4 DEF Capture, Age, vars
<1>5. CASE \E d \in Drainers : DrainStep(d)
  BY <1>3, <1>5 DEF DrainStep, DrainRead, DrainTake, CommitDrain, FailDrain, Deadlock,
     RollbackDrain, Ship, FailShip
<1>6. CASE \E p \in Previewers : PreviewStep(p)
  BY <1>3, <1>6 DEF PreviewStep, PreviewDerive, PreviewClear, PreviewFail, PreviewEnd
<1> QED
  BY <1>2, <1>4, <1>5, <1>6, NextCases

LEMMA AccountedStep ==
    ASSUME ReadSetAssumption, TypeOK, TypeOK', CommitsOnce, CommitsOnce', NothingSeen,
           LinesTrue, Matched, Accounted, Kept, [Next]_vars
    PROVE  Accounted'
<1> SUFFICES ASSUME NEW r \in PastReading', NEW w \in Seen(r)'
             PROVE  Answered(r, w, deps)' \/ UnderWay(r)' \/ Gone(r)'
  BY DEF Accounted
<1>1. CASE r \notin PastReading
  BY <1>1, NewReader
<1>2. CASE r \in PastReading
  <2>1. w \in Seen(r)
    BY <1>2, SeenKept
  <2>2. CASE Answered(r, w, deps)
    <3>1. CASE <<r, w>> \in deps
      BY <3>1, DepsStep DEF Answered
    <3>2. CASE <<r, w>> \notin deps
      <4>1. TooLong(r) => TooLong(r)'
        BY <1>2, TooLongKept
      <4> QED
        BY <2>2, <3>2, <4>1, BehindGrows DEF Answered, Kept
    <3> QED
      BY <3>1, <3>2
  <2>3. CASE UnderWay(r)
    <3>1. CASE \E l \in file : l.reader = r
      BY <3>1, FileStep
    <3>2. CASE \E l \in readSet : l.reader = r
      BY <2>1, <3>2, StoredStep
    <3>3. CASE \E d \in Drainers : stage[d] \in {"taken", "ship"}
                               /\ \E l \in got[d] : l.reader = r
      BY <2>1, <3>3, TakenLineStep
    <3> QED
      BY <2>3, <3>1, <3>2, <3>3 DEF UnderWay
  <2>4. CASE Gone(r)
    BY <2>4, GoneKept
  <2> QED
    BY <1>2, <2>1, <2>2, <2>3, <2>4 DEF Accounted
<1> QED
  BY <1>1, <1>2

-----------------------------------------------------------------------------
LEMMA InitInvariant ==
    ASSUME ReadSetAssumption, Init
    PROVE  IInv
<1>1. commits = <<>> /\ Len(commits) = 0
  BY DEF Init
<1>2. TypeOK
  BY <1>1 DEF Init, TypeOK, Nothing, ReadSetAssumption
<1>3. CommitsOnce /\ NothingSeen
  BY <1>1 DEF Init, CommitsOnce, NothingSeen, Nothing
<1>4. PastReading = {}
  BY DEF Init, PastReading
<1>5. LinesTrue /\ Accounted
  BY <1>4 DEF Init, LinesTrue, Accounted
<1>6. EdgesTrue /\ Matched
  BY DEF Init, EdgesTrue, Matched
<1> QED
  BY <1>2, <1>3, <1>5, <1>6 DEF IInv

LEMMA StepInvariant ==
    ASSUME ReadSetAssumption, IInv, [Next]_vars
    PROVE  IInv'
<1>1. TypeOK /\ CommitsOnce /\ NothingSeen /\ LinesTrue /\ EdgesTrue /\ Matched /\ Accounted
  BY DEF IInv
<1>2. TypeOK'
  BY <1>1, TypeStep
<1>3. Kept /\ CommitsOnce' /\ NothingSeen'
  BY <1>1, StepKeeps, NothingSeenStep
<1>4. LinesTrue'
  BY <1>1, <1>3, LinesStep
<1>5. EdgesTrue'
  BY <1>1, <1>2, <1>3, EdgesStep
<1>6. Matched'
  BY <1>1, <1>3, MatchedStep
<1>7. Accounted'
  BY <1>1, <1>2, <1>3, AccountedStep
<1> QED
  BY <1>2, <1>3, <1>4, <1>5, <1>6, <1>7 DEF IInv

LEMMA AccountedReports ==
    ASSUME TypeOK, CommitsOnce, Accounted
    PROVE  ReadersReported
<1> SUFFICES ASSUME NEW r \in Committed, NEW w \in Seen(r)
             PROVE  \/ <<r, w>> \in deps \/ OnItsWay(r) \/ LostOrAged(r)
                    \/ <<r, w>> \in behind \/ TooLong(r)
                    \/ deploy = "trigger" /\ r < w
  BY DEF ReadersReported
<1>1. r \in PastReading
  BY Positions DEF Committed
<1>2. Answered(r, w, deps) \/ UnderWay(r) \/ Gone(r)
  BY <1>1 DEF Accounted
<1>3. UnderWay(r) => OnItsWay(r)
  BY DEF UnderWay, OnItsWay
<1>4. Gone(r) => LostOrAged(r)
  BY DEF Gone, LostOrAged
<1> QED
  BY <1>2, <1>3, <1>4 DEF Answered

(* Every variable keeps its type, whatever the application, the sidecar, the *)
(* draining sessions, the previews and age_read_edges do.                    *)
THEOREM TypeCorrect == Spec => []TypeOK
<1>1. Init => IInv
  BY ReadSetAssumption, InitInvariant
<1>2. IInv /\ [Next]_vars => IInv'
  BY ReadSetAssumption, StepInvariant
<1>3. IInv => TypeOK
  BY DEF IInv
<1> QED
  BY <1>1, <1>2, <1>3, PTL DEF Spec

(* An rw edge of eter.dependencies is always of a read that can have         *)
(* happened: derive_dependencies and derive_from_read_set never relate       *)
(* transactions that are rolled back, dated the other way round, or whose    *)
(* rows do not meet.                                                         *)
THEOREM EdgesAlwaysReal == Spec => []EdgesAreReal
<1>1. Init => IInv
  BY ReadSetAssumption, InitInvariant
<1>2. IInv /\ [Next]_vars => IInv'
  BY ReadSetAssumption, StepInvariant
<1>3. IInv => EdgesAreReal
  BY DEF IInv, EdgesTrue, Real, EdgesAreReal
<1> QED
  BY <1>1, <1>2, <1>3, PTL DEF Spec

(* A read is an edge once its line is off its way, or fell to one of the     *)
(* losses that ReadersReported names: of the steps modelled, from the        *)
(* backend's pre-commit hook over drain_ssi_wal, refresh_dependencies,       *)
(* forwardOnce and derive_from_read_set to age_read_edges, no other loses    *)
(* one.                                                                      *)
THEOREM ReadersAlwaysReported == Spec => []ReadersReported
<1>1. Init => IInv
  BY ReadSetAssumption, InitInvariant
<1>2. IInv /\ [Next]_vars => IInv'
  BY ReadSetAssumption, StepInvariant
<1>3. IInv => ReadersReported
  BY AccountedReports DEF IInv
<1> QED
  BY <1>1, <1>2, <1>3, PTL DEF Spec
=============================================================================
