------------------------------ MODULE CaptureProofs ------------------------------
(***************************************************************************)
(* Proofs about Capture, for any tables, processes and bounds.             *)
(***************************************************************************)
EXTENDS Capture, Integers, SequenceTheorems, TLAPS

-----------------------------------------------------------------------------
(* Type correctness. *)

(* What writeCommit inserts for the batch of a process. *)
NewRows(p) ==
    [n \in 1..Len(batch[p]) |->
        [lsn |-> at[p], idx |-> batch[p][n], isUndo |-> at[p] \in marked]]

LEMMA NewRowsType ==
    ASSUME TypeOK, NEW p \in Procs
    PROVE  /\ NewRows(p) \in Seq(HistoryRows)
           /\ Len(batch[p]) \in Nat
           /\ Len(NewRows(p)) = Len(batch[p])
           /\ \A n \in 1..Len(batch[p]) :
                NewRows(p)[n].lsn = at[p] /\ NewRows(p)[n].idx = batch[p][n]
<1>1. batch[p] \in Seq(Nat) /\ at[p] \in Nat
  BY DEF TypeOK, Positions
<1>2. Len(batch[p]) \in Nat /\ \A n \in 1..Len(batch[p]) : batch[p][n] \in Nat
  BY <1>1
<1>3. ASSUME NEW n \in 1..Len(batch[p])
      PROVE  /\ NewRows(p)[n] \in HistoryRows
             /\ NewRows(p)[n].lsn = at[p]
             /\ NewRows(p)[n].idx = batch[p][n]
  <2> DEFINE b == at[p] \in marked
  <2>1. b \in BOOLEAN
    OBVIOUS
  <2>2. NewRows(p)[n] = [lsn |-> at[p], idx |-> batch[p][n], isUndo |-> b]
    BY Zenon DEF NewRows
  <2> HIDE DEF b
  <2> QED
    BY <1>1, <1>2, <2>1, <2>2 DEF HistoryRows
<1>4. NewRows(p) = [n \in 1..Len(batch[p]) |-> NewRows(p)[n]]
  BY Zenon DEF NewRows
<1>5. NewRows(p) \in [1..Len(batch[p]) -> HistoryRows]
  BY <1>3, <1>4
<1> QED
  BY <1>2, <1>3, <1>5

(* The store's transaction keeps the types of the store. *)
LEMMA StoreType ==
    ASSUME TypeOK, NEW p \in Procs, StoreCommit(p), UNCHANGED wal
    PROVE  /\ marked' \subseteq Nat
           /\ cursor' \in Positions'
           /\ hist' \in Seq(HistoryRows)
           /\ dropped' \subseteq Nat \X Nat
<1>1. at[p] \in Positions /\ cursor \in Positions /\ Len(wal) \in Nat /\ hist \in Seq(HistoryRows)
  BY DEF TypeOK
<1>2. CASE at[p] <= cursor
  BY <1>2 DEF StoreCommit, store, TypeOK, Positions
<1>3. CASE ~(at[p] <= cursor)
  <2>1. hist' = hist \o NewRows(p) /\ cursor' = at[p] /\ UNCHANGED marked
        /\ dropped' = dropped \cup {<<at[p], j>> : j \in unknown[p]}
    BY <1>3, Zenon DEF StoreCommit, NewRows
  <2>2. hist' \in Seq(HistoryRows)
    BY <1>1, <2>1, NewRowsType
  <2>3. dropped' \subseteq Nat \X Nat
    BY <1>1, <2>1 DEF TypeOK, Positions
  <2> QED
    BY <1>1, <2>1, <2>2, <2>3 DEF TypeOK, Positions
<1> QED
  BY <1>2, <1>3

LEMMA DisconnectedType ==
    ASSUME TypeOK, NEW p \in Procs, Disconnected(p), UNCHANGED wal
    PROVE  /\ link' \in [Procs -> {"none", "live", "dead"}]
           /\ pos' \in [Procs -> Positions']
           /\ at' \in [Procs -> Positions']
           /\ txn' \in [Procs -> BOOLEAN]
           /\ next' \in [Procs -> Nat \ {0}]
           /\ batch' \in [Procs -> Seq(Nat)]
           /\ unknown' \in [Procs -> SUBSET Nat]
<1>1. <<>> \in Seq(Nat)
  OBVIOUS
<1> QED
  BY <1>1 DEF TypeOK, Disconnected, Positions

LEMMA CommitType ==
    ASSUME TypeOK, NEW n \in 0..MaxChanges, NEW c \in [1..n -> published], NEW u \in BOOLEAN,
           Commit(c, u), CaptureAssumption
    PROVE  TypeOK'
<1>1. c \in Seq(Tables) /\ wal \in Seq(Commits)
  <2>1. n \in Nat /\ c \in [1..n -> Tables]
    BY DEF TypeOK, CaptureAssumption
  <2> QED
    BY <2>1 DEF TypeOK
<1>2. [changes |-> c, undo |-> u] \in Commits
  BY <1>1 DEF Commits
<1>3. wal' \in Seq(Commits) /\ Len(wal') = Len(wal) + 1 /\ Len(wal) \in Nat
  BY <1>1, <1>2 DEF Commit
<1>4. \A i \in Positions : i \in Positions'
  BY <1>3 DEF Positions
<1>5. marked' \subseteq Nat
  <2>1. marked' = marked \cup {Len(wal) + 1} \/ marked' = marked
    BY Zenon DEF Commit
  <2>2. marked \subseteq Nat
    BY DEF TypeOK
  <2>3. Len(wal) + 1 \in Nat
    BY <1>3
  <2> QED
    BY <2>1, <2>2, <2>3
<1> QED
  BY <1>3, <1>4, <1>5 DEF Commit, TypeOK, stream, tables

LEMMA TenantType ==
    ASSUME TypeOK, CaptureAssumption, Tenant
    PROVE  TypeOK'
<1>1. ASSUME NEW i \in 1..MaxCommits, MarkUndo(i)
      PROVE  TypeOK'
  BY <1>1, CaptureAssumption DEF TypeOK, MarkUndo, Positions, tenant, stream, tables
<1>2. ASSUME NEW t \in Tables, Track(t) \/ Untrack(t)
      PROVE  TypeOK'
  <2>1. changes' \in Seq(Tables)
    <3>1. changes \in Seq(Tables)
      BY DEF TypeOK
    <3>2. changes' = Append(changes, t)
      BY <1>2 DEF Track, Untrack
    <3> QED
      BY <3>1, <3>2
  <2>2. tracked' \subseteq Tables /\ published' \subseteq Tables
    BY <1>2 DEF TypeOK, Track, Untrack
  <2>3. UNCHANGED <<wal, confirmed, store, up, stream, tables, faults>>
    BY <1>2 DEF Track, Untrack
  <2> QED
    BY <2>1, <2>2, <2>3 DEF TypeOK, Positions, store, stream, tables
<1> QED
  BY <1>1, <1>2, CommitType DEF Tenant

(* A refresh takes a state of its type to one. *)
LEMMA RefreshStates ==
    ASSUME NEW s \in Refreshes, NEW X \in SUBSET Tables
    PROVE  /\ s.want \subseteq Tables /\ s.have \subseteq Tables
           /\ Idle \in Refreshes
           /\ [Idle EXCEPT !.step = "members", !.want = X] \in Refreshes
           /\ [Idle EXCEPT !.step = "install", !.want = X] \in Refreshes
           /\ [s EXCEPT !.step = "alter", !.have = X] \in Refreshes
           /\ [s EXCEPT !.have = X] \in Refreshes
BY DEF Refreshes, Idle

LEMMA RefreshType ==
    ASSUME TypeOK, NEW p \in Procs, NEW r \in Refreshers, Refresh(p, r)
    PROVE  /\ published' \subseteq Tables
           /\ catalog' \in [Procs -> SUBSET Tables]
           /\ refresh' \in [Procs -> [Refreshers -> Refreshes]]
<1> DEFINE s == refresh[p][r]
<1>1. /\ refresh \in [Procs -> [Refreshers -> Refreshes]] /\ s \in Refreshes
      /\ tracked \in SUBSET Tables /\ published \in SUBSET Tables
      /\ catalog \in [Procs -> SUBSET Tables]
  BY DEF TypeOK
<1>2. s.want \subseteq Tables /\ s.have \subseteq Tables /\ Idle \in Refreshes
  BY <1>1, RefreshStates
<1>3. ASSUME NEW state \in Refreshes, To(p, r, state)
      PROVE  refresh' \in [Procs -> [Refreshers -> Refreshes]]
  <2> HIDE DEF s
  <2> QED
    BY <1>1, <1>3 DEF To
<1>4. CASE RefreshStart(p, r)
  BY <1>1, <1>3, <1>4, RefreshStates DEF RefreshStart, tenant
<1>5. CASE RefreshMembers(p, r)
  BY <1>1, <1>3, <1>5, RefreshStates DEF RefreshMembers, tenant
<1>6. CASE AddMember(p, r)
  <2>1. PICK t \in s.want \ s.have :
          /\ published' = published \cup {t}
          /\ To(p, r, IF t \in published THEN Idle
                      ELSE [s EXCEPT !.have = s.have \cup {t}])
    BY <1>6 DEF AddMember
  <2>2. published' \subseteq Tables /\ s.have \cup {t} \in SUBSET Tables
    BY <1>1, <1>2, <2>1
  <2>3. [s EXCEPT !.have = s.have \cup {t}] \in Refreshes
    BY <1>1, <2>2, RefreshStates
  <2> QED
    BY <1>1, <1>2, <1>3, <1>6, <2>1, <2>2, <2>3 DEF AddMember
<1>7. CASE DropMember(p, r)
  <2>1. PICK t \in s.have \ s.want :
          /\ published' = published \ {t}
          /\ To(p, r, IF t \notin published THEN Idle
                      ELSE [s EXCEPT !.have = s.have \ {t}])
    BY <1>7 DEF DropMember
  <2>2. published' \subseteq Tables /\ s.have \ {t} \in SUBSET Tables
    BY <1>1, <1>2, <2>1
  <2>3. [s EXCEPT !.have = s.have \ {t}] \in Refreshes
    BY <1>1, <2>2, RefreshStates
  <2> QED
    BY <1>1, <1>2, <1>3, <1>7, <2>1, <2>2, <2>3 DEF DropMember
<1>8. CASE RefreshLoad(p, r)
  BY <1>1, <1>3, <1>8, RefreshStates DEF RefreshLoad, tenant
<1>9. CASE RefreshInstall(p, r)
  BY <1>1, <1>2, <1>3, <1>9 DEF RefreshInstall, tenant
<1> QED
  BY <1>4, <1>5, <1>6, <1>7, <1>8, <1>9 DEF Refresh

LEMMA ProcessType ==
    ASSUME TypeOK, NEW p \in Procs, Process(p)
    PROVE  TypeOK'
<1>1. CASE Boot(p)
  BY <1>1 DEF TypeOK, Boot, Positions, store, stream
<1>2. CASE Connect(p)
  BY <1>2 DEF TypeOK, Connect, Positions, tenant, store, tables
<1>3. CASE Disconnect(p)
  <2>1. UNCHANGED wal
    BY <1>3 DEF Disconnect, tenant
  <2> QED
    BY <1>3, <2>1, DisconnectedType DEF TypeOK, Disconnect, Positions, tenant, store, tables
<1>4. CASE Begin(p)
  <2>1. at' \in [Procs -> Positions] /\ txn' \in [Procs -> BOOLEAN]
    BY <1>4 DEF TypeOK, Begin, Positions
  <2>2. UNCHANGED <<tenant, store, up, link, pos, next, batch, unknown, tables, changes, faults>>
    BY <1>4 DEF Begin
  <2> QED
    BY <2>1, <2>2 DEF TypeOK, Positions, tenant, store, tables
<1>5. CASE Receive(p)
  <2>1. next[p] \in Nat /\ batch[p] \in Seq(Nat)
    BY DEF TypeOK
  <2>2. Append(batch[p], next[p]) \in Seq(Nat)
    BY <2>1
  <2>3. batch' \in [Procs -> Seq(Nat)] /\ unknown' \in [Procs -> SUBSET Nat]
    <3>1. CASE wal[at[p]].changes[next[p]] \in catalog[p]
      BY <1>5, <2>1, <2>2, <3>1 DEF TypeOK, Receive
    <3>2. CASE wal[at[p]].changes[next[p]] \notin catalog[p]
      <4>1. unknown' = [unknown EXCEPT ![p] = @ \cup {next[p]}] /\ batch' = batch
        BY <1>5, <3>2 DEF Receive
      <4>2. unknown \in [Procs -> SUBSET Nat] /\ batch \in [Procs -> Seq(Nat)]
        BY DEF TypeOK
      <4> QED
        BY <2>1, <4>1, <4>2
    <3> QED
      BY <3>1, <3>2
  <2>4. next' \in [Procs -> Nat \ {0}]
    BY <1>5 DEF TypeOK, Receive
  <2> QED
    BY <1>5, <2>3, <2>4 DEF TypeOK, Receive, Positions, tenant, store, tables
<1>6. CASE Write(p)
  <2>1. UNCHANGED wal /\ StoreCommit(p) /\ <<>> \in Seq(Nat)
    BY <1>6 DEF Write, tenant
  <2>2. /\ pos' \in [Procs -> Positions]
        /\ txn' \in [Procs -> BOOLEAN]
        /\ next' \in [Procs -> Nat \ {0}]
        /\ batch' \in [Procs -> Seq(Nat)]
        /\ unknown' \in [Procs -> SUBSET Nat]
    BY <1>6, <2>1 DEF TypeOK, Write
  <2> QED
    BY <1>6, <2>1, <2>2, StoreType DEF TypeOK, Write, Positions, tenant, tables
<1>7. CASE Ack(p)
  BY <1>7 DEF TypeOK, Ack, Positions, store, stream, tables
<1>8. ASSUME NEW r \in Refreshers, Refresh(p, r)
      PROVE  TypeOK'
  <2>1. UNCHANGED <<wal, tracked, confirmed, store, up, stream, changes, faults>>
    BY <1>8 DEF Refresh, RefreshStart, RefreshMembers, AddMember, DropMember, RefreshLoad,
                RefreshInstall, tenant
  <2> QED
    BY <1>8, <2>1, RefreshType DEF TypeOK, Positions, store, stream
<1> QED
  BY <1>1, <1>2, <1>3, <1>4, <1>5, <1>6, <1>7, <1>8 DEF Process

LEMMA FaultsType ==
    ASSUME TypeOK, CaptureAssumption, Faults
    PROVE  TypeOK'
<1>0. ASSUME Fault PROVE faults' \in 0..MaxFaults
  BY <1>0, CaptureAssumption DEF Fault, TypeOK
<1>1. CASE TenantRestart
  BY <1>0, <1>1 DEF TypeOK, TenantRestart, Positions, store, tables
<1>2. ASSUME NEW p \in Procs, StoreCommit(p) \/ UNCHANGED store, UNCHANGED wal
      PROVE  /\ marked' \subseteq Nat
             /\ cursor' \in Positions'
             /\ hist' \in Seq(HistoryRows)
             /\ dropped' \subseteq Nat \X Nat
  BY <1>2, StoreType DEF TypeOK, Positions, store
<1>3. ASSUME NEW p \in Procs, WriteError(p)
      PROVE  TypeOK'
  <2>1. UNCHANGED wal
    BY <1>3 DEF WriteError, tenant
  <2> QED
    BY <1>0, <1>2, <1>3, <2>1, DisconnectedType
    DEF TypeOK, WriteError, Positions, tenant, tables
<1>4. ASSUME NEW p \in Procs, Crash(p)
      PROVE  TypeOK'
  <2>1. UNCHANGED wal
    BY <1>4 DEF Crash, tenant
  <2>2. /\ up' \in [Procs -> BOOLEAN]
        /\ catalog' \in [Procs -> SUBSET Tables]
        /\ refresh' \in [Procs -> [Refreshers -> Refreshes]]
    <3>1. Idle \in Refreshes
      BY DEF Idle, Refreshes
    <3> QED
      BY <1>4, <3>1 DEF TypeOK, Crash
  <2> QED
    BY <1>0, <1>2, <1>4, <2>1, <2>2, DisconnectedType DEF TypeOK, Crash, Positions, tenant
<1>5. ASSUME NEW p \in Procs, Break(p)
      PROVE  TypeOK'
  BY <1>0, <1>5 DEF TypeOK, Break, Positions, tenant, store, tables
<1> QED
  BY <1>1, <1>3, <1>4, <1>5 DEF Faults

LEMMA TypeCorrectInit == Init => TypeOK
<1>1. <<>> \in Seq(Commits) /\ <<>> \in Seq(HistoryRows) /\ <<>> \in Seq(Nat)
      /\ <<>> \in Seq(Tables) /\ Len(<<>>) = 0
  OBVIOUS
<1>2. Idle \in Refreshes
  BY DEF Idle, Refreshes
<1> QED
  BY <1>1, <1>2, CaptureAssumption DEF CaptureAssumption, Init, TypeOK, Positions

(* Every variable keeps its type: no position ever runs past the log. *)
THEOREM TypeCorrect == Spec => []TypeOK
<1>1. Init => TypeOK
  BY TypeCorrectInit
<1>2. TypeOK /\ [Next]_vars => TypeOK'
  <2> SUFFICES ASSUME TypeOK, [Next]_vars PROVE TypeOK'
    OBVIOUS
  <2>1. CASE UNCHANGED vars
    BY <2>1 DEF TypeOK, Positions, vars, tenant, store, stream, tables
  <2> QED
    BY <2>1, CaptureAssumption, TenantType, ProcessType, FaultsType DEF Next
<1> QED
  BY <1>1, <1>2, PTL DEF Spec

-----------------------------------------------------------------------------
(* The safety invariant. *)

(* A process holds the changes of one commit up to the next to arrive, each  *)
(* once and in order; and nothing published lies between the cursor and the  *)
(* commit its stream is at.                                                  *)
ProcOK(p) ==
    /\ pos[p] <= cursor
    /\ txn[p] => /\ link[p] # "none"
                 /\ at[p] \in 1..Len(wal)
                 /\ next[p] <= Len(wal[at[p]].changes) + 1
    /\ ~txn[p] => next[p] = 1 /\ batch[p] = <<>> /\ unknown[p] = {}
    /\ \A n \in 1..Len(batch[p]) : batch[p][n] \in 1..next[p] - 1
    /\ \A n \in 1..Len(batch[p]) : \A m \in 1..n - 1 : batch[p][m] < batch[p][n]
    /\ unknown[p] \subseteq 1..next[p] - 1
    /\ \A j \in 1..next[p] - 1 :
         j \in unknown[p] \/ \E n \in 1..Len(batch[p]) : batch[p][n] = j
    /\ link[p] # "none" =>
         \A i \in cursor + 1..at[p] : wal[i].changes = <<>> \/ (txn[p] /\ i = at[p])

Safe ==
    /\ confirmed <= cursor
    /\ ExactlyOnce
    /\ CursorCovers
    /\ \A p \in Procs : ProcOK(p)

SafeInv == TypeOK /\ Safe

(* What the invariant says of the store and of one process. *)
LEMMA StoreFacts ==
    ASSUME SafeInv
    PROVE  TypeOK /\ confirmed <= cursor /\ cursor \in Nat /\ confirmed \in Nat
           /\ wal \in Seq(Commits)
<1>1. TypeOK /\ confirmed <= cursor
  BY DEF SafeInv, Safe
<1>2. wal \in Seq(Commits) /\ cursor \in Positions /\ confirmed \in Positions
  BY <1>1 DEF TypeOK
<1> QED
  BY <1>1, <1>2 DEF Positions

LEMMA ProcFacts ==
    ASSUME SafeInv, NEW p \in Procs
    PROVE  ProcOK(p) /\ at[p] \in Nat /\ next[p] \in Nat \ {0} /\ batch[p] \in Seq(Nat)
           /\ unknown[p] \subseteq Nat
<1>1. TypeOK /\ ProcOK(p)
  BY DEF SafeInv, Safe
<1>2. at \in [Procs -> Positions] /\ next \in [Procs -> Nat \ {0}]
      /\ batch \in [Procs -> Seq(Nat)] /\ unknown \in [Procs -> SUBSET Nat]
      /\ wal \in Seq(Commits)
  BY <1>1 DEF TypeOK
<1>3. at[p] \in 0..Len(wal) /\ next[p] \in Nat \ {0} /\ batch[p] \in Seq(Nat)
      /\ unknown[p] \in SUBSET Nat
  BY <1>2 DEF Positions
<1> QED
  BY <1>1, <1>2, <1>3

LEMMA ConcatElements ==
    ASSUME NEW S, NEW q \in Seq(S), NEW r \in Seq(S)
    PROVE  /\ Len(q) \in Nat /\ Len(q \o r) = Len(q) + Len(r)
           /\ \A n \in 1..Len(q) : (q \o r)[n] = q[n]
           /\ \A n \in 1..Len(r) : (q \o r)[Len(q) + n] = r[n]
OBVIOUS

LEMMA RangeShrinks ==
    ASSUME NEW c \in Nat, NEW d \in Nat, c <= d, NEW a \in Nat, NEW l \in Nat, a <= l,
           NEW i \in d + 1..a
    PROVE  i \in c + 1..a /\ i \in 1..l
OBVIOUS

(* A process that does nothing stays in order while the cursor advances and  *)
(* the log grows.                                                            *)
LEMMA ProcFrame ==
    ASSUME TypeOK, NEW p \in Procs, ProcOK(p),
           pos'[p] = pos[p], txn'[p] = txn[p], link'[p] = link[p], at'[p] = at[p],
           next'[p] = next[p], batch'[p] = batch[p], unknown'[p] = unknown[p],
           cursor' \in Nat, cursor <= cursor',
           Len(wal') \in Nat, Len(wal) <= Len(wal'),
           \A i \in 1..Len(wal) : wal'[i] = wal[i]
    PROVE  ProcOK(p)'
<1>1. at[p] \in 0..Len(wal) /\ cursor \in 0..Len(wal) /\ Len(wal) \in Nat /\ pos[p] \in Nat
  <2>1. Len(wal) \in Nat
    BY DEF TypeOK
  <2> QED
    BY <2>1 DEF TypeOK, Positions
<1>2. at[p] \in 1..Len(wal) => wal'[at[p]] = wal[at[p]]
  OBVIOUS
<1>3. pos'[p] <= cursor'
  BY <1>1 DEF ProcOK
<1>4. txn'[p] => /\ link'[p] # "none"
                 /\ at'[p] \in 1..Len(wal')
                 /\ next'[p] <= Len(wal'[at'[p]].changes) + 1
  BY <1>1, <1>2 DEF ProcOK
<1>5. link'[p] # "none" =>
        \A i \in cursor' + 1..at'[p] : wal'[i].changes = <<>> \/ (txn'[p] /\ i = at'[p])
  <2> SUFFICES ASSUME link'[p] # "none", NEW i \in cursor' + 1..at'[p]
               PROVE  wal'[i].changes = <<>> \/ (txn'[p] /\ i = at'[p])
    OBVIOUS
  <2>1. i \in cursor' + 1..at[p]
    BY Zenon
  <2>2. cursor \in Nat /\ at[p] \in Nat /\ at[p] <= Len(wal) /\ Len(wal) \in Nat
        /\ cursor' \in Nat /\ cursor <= cursor'
    BY <1>1
  <2>3. i \in cursor + 1..at[p] /\ i \in 1..Len(wal)
    <3>1. \A c, d, a, l \in Nat : c <= d /\ a <= l =>
             \A k \in d + 1..a : k \in c + 1..a /\ k \in 1..l
      BY RangeShrinks
    <3> QED
      BY <2>1, <2>2, <3>1, Zenon
  <2>4. wal[i].changes = <<>> \/ (txn[p] /\ i = at[p])
    BY <2>3 DEF ProcOK
  <2> QED
    BY <2>3, <2>4
<1>6. /\ ~txn'[p] => next'[p] = 1 /\ batch'[p] = <<>> /\ unknown'[p] = {}
      /\ \A n \in 1..Len(batch'[p]) : batch'[p][n] \in 1..next'[p] - 1
      /\ \A n \in 1..Len(batch'[p]) : \A m \in 1..n - 1 : batch'[p][m] < batch'[p][n]
      /\ unknown'[p] \subseteq 1..next'[p] - 1
      /\ \A j \in 1..next'[p] - 1 :
           j \in unknown'[p] \/ \E n \in 1..Len(batch'[p]) : batch'[p][n] = j
  BY DEF ProcOK
<1> QED
  BY <1>3, <1>4, <1>5, <1>6 DEF ProcOK

(* A process whose stream ended is in order. *)
LEMMA ProcIdle ==
    ASSUME NEW p \in Procs, Disconnected(p), TypeOK, ProcOK(p),
           cursor' \in Nat, cursor <= cursor'
    PROVE  ProcOK(p)'
<1>1. link'[p] = "none" /\ txn'[p] = FALSE /\ next'[p] = 1 /\ batch'[p] = <<>>
      /\ unknown'[p] = {} /\ pos'[p] = pos[p]
  BY DEF Disconnected, TypeOK
<1>2. pos[p] \in Nat /\ cursor \in Nat /\ pos[p] <= cursor
  BY DEF TypeOK, Positions, ProcOK
<1>3. pos'[p] <= cursor'
  BY <1>1, <1>2
<1> QED
  BY <1>1, <1>3 DEF ProcOK

(* The transaction of writeCommit keeps history in order and complete. *)
LEMMA StoreSafe ==
    ASSUME SafeInv, NEW p \in Procs, CommitReceived(p), StoreCommit(p), UNCHANGED wal
    PROVE  /\ cursor' \in Nat /\ cursor <= cursor' /\ at[p] <= cursor'
           /\ ExactlyOnce' /\ CursorCovers'
<1>1. TypeOK /\ ExactlyOnce /\ CursorCovers /\ ProcOK(p)
  BY DEF SafeInv, Safe
<1>2. at[p] \in Nat /\ cursor \in Nat /\ hist \in Seq(HistoryRows) /\ batch[p] \in Seq(Nat)
      /\ next[p] \in Nat
  BY <1>1 DEF TypeOK, Positions
<1>3. CASE at[p] <= cursor
  <2>1. UNCHANGED <<wal, cursor, hist, dropped>>
    BY <1>3 DEF StoreCommit, store
  <2>2. ExactlyOnce' /\ CursorCovers'
    BY <1>1, <2>1 DEF ExactlyOnce, CursorCovers, Captured
  <2> QED
    BY <1>2, <1>3, <2>1, <2>2
<1>4. CASE at[p] > cursor
  <2> DEFINE i == at[p]
             len == Len(wal[i].changes)
  <2>0. ~(at[p] <= cursor)
    BY <1>2, <1>4
  <2>1. cursor' = i /\ hist' = hist \o NewRows(p)
        /\ dropped' = dropped \cup {<<i, j>> : j \in unknown[p]}
    BY <2>0, Zenon DEF StoreCommit, NewRows
  <2>2. txn[p] /\ link[p] # "none" /\ next[p] = len + 1 /\ len \in Nat
    <3>1. txn[p] /\ link[p] # "none" /\ next[p] > len
      BY DEF CommitReceived
    <3>2. i \in 1..Len(wal) /\ next[p] <= len + 1
      BY <1>1, <3>1 DEF ProcOK
    <3>3. wal[i] \in Commits
      BY <1>1, <3>2 DEF TypeOK
    <3>4. len \in Nat
      BY <3>3 DEF Commits
    <3> QED
      BY <1>2, <3>1, <3>2, <3>4
  <2>3. /\ Len(hist) \in Nat /\ Len(batch[p]) \in Nat
        /\ Len(hist') = Len(hist) + Len(batch[p])
        /\ \A n \in 1..Len(hist) : hist'[n] = hist[n]
        /\ \A n \in 1..Len(batch[p]) : hist'[Len(hist) + n] = NewRows(p)[n]
    <3>1. NewRows(p) \in Seq(HistoryRows) /\ Len(NewRows(p)) = Len(batch[p])
          /\ Len(batch[p]) \in Nat
      BY <1>1, NewRowsType
    <3>2. hist' = hist \o NewRows(p)
      BY <2>1
    <3>3. /\ Len(hist) \in Nat /\ Len(hist \o NewRows(p)) = Len(hist) + Len(NewRows(p))
          /\ \A n \in 1..Len(hist) : (hist \o NewRows(p))[n] = hist[n]
          /\ \A n \in 1..Len(NewRows(p)) :
               (hist \o NewRows(p))[Len(hist) + n] = NewRows(p)[n]
      <4>1. \A q, r \in Seq(HistoryRows) :
              /\ Len(q) \in Nat /\ Len(q \o r) = Len(q) + Len(r)
              /\ \A n \in 1..Len(q) : (q \o r)[n] = q[n]
              /\ \A n \in 1..Len(r) : (q \o r)[Len(q) + n] = r[n]
        BY ConcatElements
      <4> QED
        BY <1>2, <3>1, <4>1, Zenon
    <3> QED
      BY <3>1, <3>2, <3>3, Zenon
  <2>4. \A n \in 1..Len(batch[p]) :
          /\ hist'[Len(hist) + n].lsn = i
          /\ hist'[Len(hist) + n].idx = batch[p][n]
    BY <1>1, <2>3, NewRowsType
  <2>5. \A n \in 1..Len(hist') :
          \/ n \in 1..Len(hist)
          \/ n - Len(hist) \in 1..Len(batch[p])
             /\ hist'[n].lsn = i /\ hist'[n].idx = batch[p][n - Len(hist)]
    <3> TAKE n \in 1..Len(hist')
    <3>1. CASE n > Len(hist)
      <4>1. n - Len(hist) \in 1..Len(batch[p]) /\ Len(hist) + (n - Len(hist)) = n
        BY <2>3, <3>1
      <4> QED
        BY <2>4, <4>1
    <3> QED
      BY <2>3, <3>1
  <2>6. \A n \in 1..Len(hist) : hist[n].lsn \in 1..cursor /\ hist[n].idx \in Nat
    <3> TAKE n \in 1..Len(hist)
    <3>1. <<hist[n].lsn, hist[n].idx>> \in Captured
      BY DEF Captured
    <3>2. <<hist[n].lsn, hist[n].idx>>[1] \in 1..cursor
      BY <1>1, <3>1 DEF CursorCovers
    <3>3. hist[n] \in HistoryRows
      BY <1>2
    <3> QED
      BY <3>2, <3>3 DEF HistoryRows
  <2>7. ExactlyOnce'
    <3> SUFFICES ASSUME NEW m \in 1..Len(hist'), NEW n \in 1..Len(hist'), m < n
                 PROVE  \/ hist'[m].lsn < hist'[n].lsn
                        \/ hist'[m].lsn = hist'[n].lsn /\ hist'[m].idx < hist'[n].idx
      BY DEF ExactlyOnce
    <3>1. CASE n \in 1..Len(hist)
      <4>1. m \in 1..Len(hist)
        BY <2>3, <3>1
      <4> QED
        BY <1>1, <2>3, <3>1, <4>1 DEF ExactlyOnce
    <3>2. CASE n \notin 1..Len(hist) /\ m \in 1..Len(hist)
      <4>1. hist'[m].lsn <= cursor
        BY <2>3, <2>6, <3>2
      <4>2. hist'[n].lsn = i
        BY <2>5, <3>2
      <4>3. hist'[m].lsn \in Nat
        BY <2>3, <2>6, <3>2
      <4> QED
        BY <1>2, <1>4, <4>1, <4>2, <4>3
    <3>3. CASE n \notin 1..Len(hist) /\ m \notin 1..Len(hist)
      <4>1. /\ n - Len(hist) \in 1..Len(batch[p])
            /\ m - Len(hist) \in 1..(n - Len(hist)) - 1
        BY <2>3, <2>5, <3>3
      <4>2. batch[p][m - Len(hist)] < batch[p][n - Len(hist)]
        BY <1>1, <4>1 DEF ProcOK
      <4> QED
        BY <2>5, <3>3, <4>2
    <3> QED
      BY <3>1, <3>2, <3>3
  <2>8. Captured' = Captured \cup {<<i, batch[p][n]>> : n \in 1..Len(batch[p])}
    <3>1. ASSUME NEW n \in 1..Len(hist')
          PROVE  <<hist'[n].lsn, hist'[n].idx>>
                   \in Captured \cup {<<i, batch[p][q]>> : q \in 1..Len(batch[p])}
      BY <2>3, <2>5 DEF Captured
    <3>2. ASSUME NEW n \in 1..Len(hist)
          PROVE  <<hist[n].lsn, hist[n].idx>> \in Captured'
      <4>1. n \in 1..Len(hist') /\ hist'[n] = hist[n]
        BY <2>3
      <4> QED
        BY <4>1 DEF Captured
    <3>3. ASSUME NEW n \in 1..Len(batch[p])
          PROVE  <<i, batch[p][n]>> \in Captured'
      <4>1. Len(hist) + n \in 1..Len(hist')
        BY <2>3
      <4> QED
        BY <2>4, <4>1 DEF Captured
    <3> QED
      BY <3>1, <3>2, <3>3 DEF Captured
  <2>9. CursorCovers'
    <3>1. ASSUME NEW d \in Captured' \cup dropped'
          PROVE  d[1] \in 1..cursor' /\ d[2] \in 1..Len(wal'[d[1]].changes)
      <4>1. CASE d \in Captured \cup dropped
        BY <1>1, <1>2, <1>4, <2>1, <4>1 DEF CursorCovers
      <4>2. CASE \E n \in 1..Len(batch[p]) : d = <<i, batch[p][n]>>
        BY <1>1, <1>2, <1>4, <2>1, <2>2, <4>2 DEF ProcOK
      <4>3. CASE \E j \in unknown[p] : d = <<i, j>>
        BY <1>1, <1>2, <1>4, <2>1, <2>2, <4>3 DEF ProcOK
      <4> QED
        BY <2>1, <2>8, <3>1, <4>1, <4>2, <4>3
    <3>2. ASSUME NEW k \in 1..cursor', NEW j \in 1..Len(wal'[k].changes)
          PROVE  <<k, j>> \in Captured' \cup dropped'
      <4>1. CASE k \in 1..cursor
        BY <1>1, <2>1, <2>8, <4>1 DEF CursorCovers
      <4>2. CASE k = i
        <5>1. j \in unknown[p] \/ \E n \in 1..Len(batch[p]) : batch[p][n] = j
          BY <1>1, <2>2, <4>2 DEF ProcOK
        <5> QED
          BY <2>1, <2>8, <4>2, <5>1
      <4>3. CASE k \in cursor + 1..i - 1
        <5>1. wal[k].changes = <<>>
          BY <1>1, <1>2, <2>2, <4>3 DEF ProcOK
        <5> QED
          BY <5>1
      <4> QED
        BY <1>2, <2>1, <4>1, <4>2, <4>3
    <3> QED
      BY <3>1, <3>2 DEF CursorCovers
  <2> QED
    BY <1>2, <1>4, <2>1, <2>7, <2>9
<1> QED
  BY <1>2, <1>3, <1>4

(* A step that leaves the log and the store alone keeps what they satisfy. *)
LEMMA StoreFrame ==
    ASSUME SafeInv, UNCHANGED <<wal, cursor, hist, dropped>>
    PROVE  ExactlyOnce' /\ CursorCovers'
BY DEF SafeInv, Safe, ExactlyOnce, CursorCovers, Captured

(* A step that touches no process and no cursor keeps every process in order. *)
LEMMA ProcsFrame ==
    ASSUME SafeInv, UNCHANGED stream, cursor' \in Nat, cursor <= cursor',
           Len(wal') \in Nat, Len(wal) <= Len(wal'),
           \A i \in 1..Len(wal) : wal'[i] = wal[i],
           NEW p \in Procs
    PROVE  ProcOK(p)'
<1>1. TypeOK /\ ProcOK(p)
  BY DEF SafeInv, Safe
<1>2. /\ pos'[p] = pos[p] /\ txn'[p] = txn[p] /\ link'[p] = link[p] /\ at'[p] = at[p]
      /\ next'[p] = next[p] /\ batch'[p] = batch[p] /\ unknown'[p] = unknown[p]
  BY DEF stream
<1> QED
  BY <1>1, <1>2, ProcFrame

LEMMA CommitSafe ==
    ASSUME SafeInv, NEW c, NEW u, Commit(c, u)
    PROVE  Safe'
<1>1. wal \in Seq(Commits) /\ wal' = Append(wal, [changes |-> c, undo |-> u])
  BY DEF SafeInv, TypeOK, Commit
<1>2. Len(wal) \in Nat /\ Len(wal') = Len(wal) + 1 /\ \A i \in 1..Len(wal) : wal'[i] = wal[i]
  BY <1>1
<1>3. cursor \in Nat /\ cursor <= Len(wal)
  BY <1>2, StoreFacts DEF TypeOK, Positions
<1>4. UNCHANGED <<stream, cursor, hist, dropped, confirmed>>
  BY DEF Commit
<1>5. \A p \in Procs : ProcOK(p)'
  BY <1>2, <1>3, <1>4, ProcsFrame
<1>6. ExactlyOnce'
  BY <1>4 DEF SafeInv, Safe, ExactlyOnce
<1>7. CursorCovers'
  <2>1. \A i \in 1..cursor : wal'[i] = wal[i]
    BY <1>2, <1>3
  <2> QED
    BY <1>4, <2>1 DEF SafeInv, Safe, CursorCovers, Captured
<1> QED
  BY <1>4, <1>5, <1>6, <1>7 DEF SafeInv, Safe

LEMMA TenantSafe ==
    ASSUME SafeInv, Tenant
    PROVE  Safe'
<1>1. wal \in Seq(Commits) /\ cursor \in Nat
  BY StoreFacts
<1>2. ASSUME UNCHANGED <<wal, confirmed, cursor, hist, dropped, stream>>
      PROVE  Safe'
  <2>1. Len(wal') \in Nat /\ Len(wal) <= Len(wal')
    BY <1>1, <1>2
  <2>2. \A p \in Procs : ProcOK(p)'
    BY <1>1, <1>2, <2>1, ProcsFrame
  <2> QED
    BY <1>2, <2>2, StoreFrame DEF SafeInv, Safe
<1>3. ASSUME NEW i \in 1..MaxCommits, MarkUndo(i)
      PROVE  Safe'
  BY <1>2, <1>3 DEF MarkUndo, tenant
<1>4. ASSUME NEW t \in Tables, Track(t) \/ Untrack(t)
      PROVE  Safe'
  BY <1>2, <1>4 DEF Track, Untrack, store
<1> QED
  BY <1>3, <1>4, CommitSafe DEF Tenant

(* What a process does leaves the others in order. *)
LEMMA OthersFrame ==
    ASSUME SafeInv, NEW p \in Procs, NEW o \in Procs, o # p,
           UNCHANGED wal, cursor' \in Nat, cursor <= cursor',
           /\ pos'[o] = pos[o] /\ txn'[o] = txn[o] /\ link'[o] = link[o] /\ at'[o] = at[o]
           /\ next'[o] = next[o] /\ batch'[o] = batch[o] /\ unknown'[o] = unknown[o]
    PROVE  ProcOK(o)'
<1>1. TypeOK /\ ProcOK(o) /\ wal \in Seq(Commits)
  BY StoreFacts, ProcFacts
<1>2. Len(wal') \in Nat /\ Len(wal) <= Len(wal') /\ \A i \in 1..Len(wal) : wal'[i] = wal[i]
  BY <1>1
<1> QED
  BY <1>1, <1>2, ProcFrame

LEMMA ConnectSafe ==
    ASSUME SafeInv, NEW p \in Procs, Connect(p)
    PROVE  Safe'
<1>1. TypeOK /\ ProcOK(p) /\ confirmed <= cursor /\ cursor \in Nat /\ confirmed \in Nat
  BY StoreFacts, ProcFacts
<1>2. /\ link'[p] = "live" /\ at'[p] = confirmed /\ pos'[p] = 0
      /\ \A o \in Procs \ {p} : link'[o] = link[o] /\ at'[o] = at[o] /\ pos'[o] = pos[o]
      /\ UNCHANGED <<wal, confirmed, cursor, hist, dropped, txn, next, batch, unknown>>
      /\ link[p] = "none"
  BY <1>1 DEF Connect, TypeOK, tenant, store
<1>3. ~txn[p]
  BY <1>1, <1>2 DEF ProcOK
<1>4. ProcOK(p)'
  BY <1>1, <1>2, <1>3 DEF ProcOK
<1>5. \A o \in Procs \ {p} : ProcOK(o)'
  BY <1>1, <1>2, OthersFrame
<1> QED
  BY <1>1, <1>2, <1>4, <1>5, StoreFrame DEF Safe

LEMMA DisconnectSafe ==
    ASSUME SafeInv, NEW p \in Procs, Disconnected(p), UNCHANGED wal,
           confirmed' = confirmed, cursor' \in Nat, cursor <= cursor',
           ExactlyOnce', CursorCovers'
    PROVE  Safe'
<1>1. TypeOK /\ ProcOK(p) /\ confirmed <= cursor /\ cursor \in Nat /\ confirmed \in Nat
  BY StoreFacts, ProcFacts
<1>2. ProcOK(p)'
  BY <1>1, ProcIdle
<1>3. \A o \in Procs \ {p} :
        /\ pos'[o] = pos[o] /\ txn'[o] = txn[o] /\ link'[o] = link[o] /\ at'[o] = at[o]
        /\ next'[o] = next[o] /\ batch'[o] = batch[o] /\ unknown'[o] = unknown[o]
  BY <1>1 DEF Disconnected, TypeOK
<1>4. \A o \in Procs \ {p} : ProcOK(o)'
  BY <1>3, OthersFrame
<1> QED
  BY <1>1, <1>2, <1>4 DEF Safe

LEMMA BeginSafe ==
    ASSUME SafeInv, NEW p \in Procs, Begin(p)
    PROVE  Safe'
<1>1. TypeOK /\ ProcOK(p) /\ cursor \in Nat /\ at[p] \in Nat /\ wal \in Seq(Commits)
  BY StoreFacts, ProcFacts
<1>2. PICK i \in at[p] + 1..Len(wal) :
        /\ \A j \in at[p] + 1..i - 1 : wal[j].changes = <<>>
        /\ at' = [at EXCEPT ![p] = i]
  BY DEF Begin
<1>3. /\ at'[p] = i /\ txn'[p] = TRUE /\ link[p] = "live" /\ ~txn[p]
      /\ \A o \in Procs \ {p} : txn'[o] = txn[o] /\ at'[o] = at[o]
      /\ UNCHANGED <<wal, confirmed, cursor, hist, dropped, link, pos, next, batch, unknown>>
  BY <1>1, <1>2 DEF Begin, TypeOK, tenant, store
<1>4. \A k \in cursor + 1..i : wal[k].changes = <<>> \/ k = i
  <2> TAKE k \in cursor + 1..i
  <2>1. CASE k \in cursor + 1..at[p]
    BY <1>1, <1>3, <2>1 DEF ProcOK
  <2>2. CASE k \in at[p] + 1..i - 1
    BY <1>2, <2>2
  <2> QED
    BY <1>1, <2>1, <2>2
<1>5. i \in 1..Len(wal) /\ wal[i] \in Commits /\ Len(wal[i].changes) \in Nat
  <2>1. i \in 1..Len(wal)
    BY <1>1
  <2>2. wal[i] \in Commits
    BY <1>1, <2>1
  <2> QED
    BY <2>1, <2>2 DEF Commits
<1>6. ProcOK(p)'
  <2>1. next[p] = 1 /\ batch[p] = <<>> /\ unknown[p] = {} /\ pos[p] <= cursor
    BY <1>1, <1>3 DEF ProcOK
  <2> QED
    BY <1>3, <1>4, <1>5, <2>1 DEF ProcOK
<1>7. \A o \in Procs \ {p} : ProcOK(o)'
  BY <1>1, <1>3, OthersFrame
<1> QED
  BY <1>3, <1>6, <1>7, StoreFrame DEF SafeInv, Safe

LEMMA ReceiveSafe ==
    ASSUME SafeInv, NEW p \in Procs, Receive(p)
    PROVE  Safe'
<1>1. TypeOK /\ ProcOK(p) /\ cursor \in Nat /\ batch[p] \in Seq(Nat) /\ next[p] \in Nat \ {0}
      /\ unknown[p] \subseteq Nat
  BY StoreFacts, ProcFacts
<1> DEFINE n == next[p]
<1>2. /\ next'[p] = n + 1 /\ txn[p] /\ n <= Len(wal[at[p]].changes)
      /\ \/ batch'[p] = Append(batch[p], n) /\ unknown'[p] = unknown[p]
         \/ batch'[p] = batch[p] /\ unknown'[p] = unknown[p] \cup {n}
      /\ \A o \in Procs \ {p} :
           next'[o] = next[o] /\ batch'[o] = batch[o] /\ unknown'[o] = unknown[o]
      /\ UNCHANGED <<wal, confirmed, cursor, hist, dropped, link, pos, at, txn>>
  <2>1. /\ next' = [next EXCEPT ![p] = @ + 1] /\ txn[p] /\ n <= Len(wal[at[p]].changes)
        /\ UNCHANGED <<wal, confirmed, cursor, hist, dropped, link, pos, at, txn>>
    BY DEF Receive, tenant, store
  <2>2. \/ batch' = [batch EXCEPT ![p] = Append(@, n)] /\ unknown' = unknown
        \/ unknown' = [unknown EXCEPT ![p] = @ \cup {n}] /\ batch' = batch
    BY DEF Receive
  <2> QED
    BY <1>1, <2>1, <2>2 DEF TypeOK
<1> HIDE DEF n
<1>3. n \in Nat \ {0} /\ n = next[p]
  BY <1>1 DEF n
<1>4. Len(batch[p]) \in Nat
  BY <1>1
<1>5. /\ \A k \in 1..Len(batch'[p]) : batch'[p][k] \in 1..n
      /\ \A k \in 1..Len(batch'[p]) : \A m \in 1..k - 1 : batch'[p][m] < batch'[p][k]
      /\ unknown'[p] \subseteq 1..n
      /\ \A j \in 1..n : j \in unknown'[p] \/ \E k \in 1..Len(batch'[p]) : batch'[p][k] = j
  <2>0. /\ \A k \in 1..Len(batch[p]) : batch[p][k] \in 1..n - 1
        /\ \A k \in 1..Len(batch[p]) : \A m \in 1..k - 1 : batch[p][m] < batch[p][k]
        /\ unknown[p] \subseteq 1..n - 1
        /\ \A j \in 1..n - 1 : j \in unknown[p] \/ \E k \in 1..Len(batch[p]) : batch[p][k] = j
    BY <1>1, <1>3 DEF ProcOK
  <2>1. CASE batch'[p] = Append(batch[p], n) /\ unknown'[p] = unknown[p]
    <3> DEFINE b == batch'[p]
    <3>1. /\ Len(b) = Len(batch[p]) + 1
          /\ b[Len(batch[p]) + 1] = n
          /\ \A k \in 1..Len(batch[p]) : b[k] = batch[p][k]
      BY <1>1, <1>3, <2>1
    <3> HIDE DEF b
    <3>2. \A k \in 1..Len(b) : k \in 1..Len(batch[p]) \/ (k = Len(batch[p]) + 1 /\ b[k] = n)
      BY <1>4, <3>1
    <3>3. ASSUME NEW k \in 1..Len(b)
          PROVE  b[k] \in 1..n
      <4>1. CASE k \in 1..Len(batch[p])
        <5>1. b[k] = batch[p][k] /\ batch[p][k] \in 1..n - 1
          BY <2>0, <3>1, <4>1
        <5> QED
          BY <1>3, <5>1
      <4>2. CASE b[k] = n
        BY <1>3, <4>2
      <4> QED
        BY <3>2, <4>1, <4>2
    <3>4. ASSUME NEW k \in 1..Len(b), NEW m \in 1..k - 1
          PROVE  b[m] < b[k]
      <4>1. m \in Nat /\ k \in Nat /\ 1 <= m /\ m < k /\ k <= Len(batch[p]) + 1
        BY <1>4, <3>1
      <4>2. m \in 1..Len(batch[p])
        BY <1>4, <4>1
      <4>3. b[m] = batch[p][m] /\ batch[p][m] \in 1..n - 1
        BY <2>0, <3>1, <4>2
      <4>4. CASE k \in 1..Len(batch[p])
        BY <2>0, <3>1, <4>3, <4>4
      <4>5. CASE k = Len(batch[p]) + 1 /\ b[k] = n
        BY <1>3, <4>3, <4>5
      <4> QED
        BY <3>2, <4>4, <4>5
    <3>5. ASSUME NEW j \in 1..n
          PROVE  j \in unknown'[p] \/ \E k \in 1..Len(b) : b[k] = j
      <4>1. CASE j = n
        BY <1>4, <3>1, <4>1
      <4>2. CASE j \in 1..n - 1
        BY <1>4, <2>0, <2>1, <3>1, <4>2
      <4> QED
        BY <1>3, <4>1, <4>2
    <3> QED
      BY <1>3, <2>0, <2>1, <3>3, <3>4, <3>5 DEF b
  <2>2. CASE batch'[p] = batch[p] /\ unknown'[p] = unknown[p] \cup {n}
    BY <1>3, <2>0, <2>2
  <2> QED
    BY <1>2, <2>1, <2>2
<1>6. ProcOK(p)'
  <2>1. /\ pos'[p] <= cursor' /\ txn'[p] /\ link'[p] # "none" /\ at'[p] \in 1..Len(wal')
        /\ next'[p] - 1 = n /\ next'[p] <= Len(wal'[at'[p]].changes) + 1
        /\ \A i \in cursor' + 1..at'[p] : wal'[i].changes = <<>> \/ (txn'[p] /\ i = at'[p])
    <3>1. at[p] \in 1..Len(wal) /\ link[p] # "none" /\ pos[p] <= cursor
          /\ \A i \in cursor + 1..at[p] : wal[i].changes = <<>> \/ (txn[p] /\ i = at[p])
      BY <1>1, <1>2 DEF ProcOK
    <3>2. wal[at[p]] \in Commits
      BY <1>1, <3>1 DEF TypeOK
    <3>3. Len(wal[at[p]].changes) \in Nat
      BY <3>2 DEF Commits
    <3> QED
      BY <1>2, <1>3, <3>1, <3>3
  <2> QED
    BY <1>5, <2>1 DEF ProcOK
<1>7. \A o \in Procs \ {p} : ProcOK(o)'
  BY <1>1, <1>2, OthersFrame
<1> QED
  BY <1>2, <1>6, <1>7, StoreFrame DEF SafeInv, Safe

LEMMA WriteSafe ==
    ASSUME SafeInv, NEW p \in Procs, Write(p)
    PROVE  Safe'
<1>1. TypeOK /\ ProcOK(p) /\ at[p] \in Nat /\ cursor \in Nat /\ confirmed \in Nat
      /\ confirmed <= cursor
  BY StoreFacts, ProcFacts
<1>2. CommitReceived(p) /\ StoreCommit(p) /\ UNCHANGED <<wal, confirmed, link, at>>
  BY DEF Write, tenant
<1>3. cursor' \in Nat /\ cursor <= cursor' /\ at[p] <= cursor' /\ ExactlyOnce' /\ CursorCovers'
  BY <1>2, StoreSafe
<1>4. /\ pos'[p] = at[p] /\ txn'[p] = FALSE /\ next'[p] = 1 /\ batch'[p] = <<>>
      /\ unknown'[p] = {}
      /\ \A o \in Procs \ {p} :
           /\ pos'[o] = pos[o] /\ txn'[o] = txn[o] /\ next'[o] = next[o]
           /\ batch'[o] = batch[o] /\ unknown'[o] = unknown[o]
  BY <1>1 DEF Write, TypeOK
<1>5. ProcOK(p)'
  <2>1. at'[p] \in Nat /\ at'[p] <= cursor'
    BY <1>1, <1>2, <1>3
  <2>2. \A i \in cursor' + 1..at'[p] : FALSE
    <3>1. \A c, a \in Nat : a <= c => \A i \in c + 1..a : FALSE
      OBVIOUS
    <3> QED
      BY <1>3, <2>1, <3>1, Zenon
  <2>3. pos'[p] <= cursor'
    BY <1>3, <1>4
  <2> QED
    BY <1>4, <2>2, <2>3 DEF ProcOK
<1>6. \A o \in Procs \ {p} : ProcOK(o)'
  BY <1>1, <1>2, <1>3, <1>4, OthersFrame
<1> QED
  BY <1>1, <1>2, <1>3, <1>5, <1>6 DEF Safe

(* A step that changes no process, log or store, and moves the confirmed     *)
(* position no further than the cursor.                                      *)
LEMMA QuietSafe ==
    ASSUME SafeInv, UNCHANGED <<wal, cursor, hist, dropped, stream>>, confirmed' <= cursor
    PROVE  Safe'
<1>1. wal \in Seq(Commits) /\ cursor \in Nat
  BY StoreFacts
<1>2. Len(wal') \in Nat /\ Len(wal) <= Len(wal') /\ cursor <= cursor'
  BY <1>1
<1>3. \A p \in Procs : ProcOK(p)'
  BY <1>1, <1>2, ProcsFrame
<1> QED
  BY <1>3, StoreFrame DEF Safe

LEMMA ProcessSafe ==
    ASSUME SafeInv, NEW p \in Procs, Process(p)
    PROVE  Safe'
<1>1. confirmed <= cursor /\ pos[p] <= cursor /\ cursor \in Nat
  BY StoreFacts, ProcFacts DEF ProcOK
<1>2. CASE Boot(p)
  BY <1>1, <1>2, QuietSafe DEF Boot, store
<1>3. CASE Disconnect(p)
  <2>1. Disconnected(p) /\ UNCHANGED <<wal, confirmed, cursor, hist, dropped>>
    BY <1>3 DEF Disconnect, tenant, store
  <2> QED
    BY <1>1, <2>1, StoreFrame, DisconnectSafe
<1>4. CASE Ack(p)
  BY <1>1, <1>4, QuietSafe DEF Ack, store
<1>5. ASSUME NEW r \in Refreshers, Refresh(p, r)
      PROVE  Safe'
  <2>1. UNCHANGED <<wal, confirmed, store, stream>>
    BY <1>5 DEF Refresh, RefreshStart, RefreshMembers, AddMember, DropMember, RefreshLoad,
                RefreshInstall, tenant
  <2> QED
    BY <1>1, <2>1, QuietSafe DEF store
<1> QED
  BY <1>2, <1>3, <1>4, <1>5, ConnectSafe, BeginSafe, ReceiveSafe, WriteSafe DEF Process

(* The connection of some processes dies under them. *)
LEMMA DeadLinkSafe ==
    ASSUME SafeInv, UNCHANGED <<wal, cursor, hist, dropped, pos, at, txn, next, batch, unknown>>,
           confirmed' <= cursor,
           \A p \in Procs : link'[p] = link[p] \/ (link[p] = "live" /\ link'[p] = "dead")
    PROVE  Safe'
<1>1. ASSUME NEW p \in Procs PROVE ProcOK(p)'
  <2>1. ProcOK(p)
    BY DEF SafeInv, Safe
  <2>2. link'[p] = "none" <=> link[p] = "none"
    OBVIOUS
  <2> QED
    BY <2>1, <2>2 DEF ProcOK
<1> QED
  BY <1>1, StoreFrame DEF Safe

LEMMA FaultsSafe ==
    ASSUME SafeInv, Faults
    PROVE  Safe'
<1>1. confirmed <= cursor /\ cursor \in Nat /\ confirmed \in Nat
  BY StoreFacts, ProcFacts
<1>2. CASE TenantRestart
  <2>1. confirmed' <= cursor
    BY <1>1, <1>2 DEF TenantRestart
  <2>2. \A p \in Procs : link'[p] = link[p] \/ (link[p] = "live" /\ link'[p] = "dead")
    BY <1>2 DEF TenantRestart
  <2> QED
    BY <1>2, <2>1, <2>2, DeadLinkSafe DEF TenantRestart, store
<1>3. ASSUME NEW p \in Procs, Break(p)
      PROVE  Safe'
  <2>1. \A o \in Procs : link'[o] = link[o] \/ (link[o] = "live" /\ link'[o] = "dead")
    BY <1>3 DEF Break, SafeInv, TypeOK
  <2> QED
    BY <1>1, <1>3, <2>1, DeadLinkSafe DEF Break, tenant, store
<1>4. ASSUME NEW p \in Procs, Disconnected(p), UNCHANGED <<wal, confirmed>>,
             (CommitReceived(p) /\ StoreCommit(p)) \/ UNCHANGED store
      PROVE  Safe'
  <2>1. CASE CommitReceived(p) /\ StoreCommit(p)
    BY <1>4, <2>1, StoreSafe, DisconnectSafe
  <2>2. CASE UNCHANGED store
    BY <1>1, <1>4, <2>2, StoreFrame, DisconnectSafe DEF store
  <2> QED
    BY <1>4, <2>1, <2>2
<1>5. ASSUME NEW p \in Procs, WriteError(p)
      PROVE  Safe'
  BY <1>4, <1>5 DEF WriteError, tenant
<1>6. ASSUME NEW p \in Procs, Crash(p)
      PROVE  Safe'
  BY <1>4, <1>6 DEF Crash, tenant
<1> QED
  BY <1>2, <1>3, <1>5, <1>6 DEF Faults

LEMMA InitSafe == Init => Safe
<1> SUFFICES ASSUME Init PROVE Safe
  OBVIOUS
<1>1. ExactlyOnce /\ CursorCovers
  BY DEF Init, ExactlyOnce, CursorCovers, Captured
<1>2. \A p \in Procs : ProcOK(p)
  BY DEF Init, ProcOK
<1> QED
  BY <1>1, <1>2 DEF Init, Safe

LEMMA Invariance == Spec => []Safe
<1>1. TypeOK /\ Safe /\ [Next]_vars => Safe'
  <2> SUFFICES ASSUME SafeInv, [Next]_vars PROVE Safe'
    BY DEF SafeInv
  <2>1. CASE UNCHANGED vars
    <3>1. confirmed <= cursor
      BY DEF SafeInv, Safe
    <3> QED
      BY <2>1, <3>1, QuietSafe DEF vars, tenant, store
  <2> QED
    BY <2>1, TenantSafe, ProcessSafe, FaultsSafe DEF Next
<1> QED
  BY <1>1, InitSafe, TypeCorrect, PTL DEF Spec

-----------------------------------------------------------------------------
(* Theorems *)

(* Whatever is delivered again, by whichever process, history holds every    *)
(* change once, in commit order.                                             *)
THEOREM HistoryIsExactlyOnce == Spec => []ExactlyOnce
<1>1. Safe => ExactlyOnce
  BY DEF Safe
<1> QED
  BY <1>1, Invariance, PTL

(* The cursor never claims a change that history lacks, nor lacks one that   *)
(* history holds.                                                            *)
THEOREM CursorIsTruthful == Spec => []CursorCovers
<1>1. Safe => CursorCovers
  BY DEF Safe
<1> QED
  BY <1>1, Invariance, PTL

(* What the slot lets go of is in history. *)
THEOREM NothingAckedEarly == Spec => []AckedIsDurable
<1>1. TypeOK /\ Safe => AckedIsDurable
  <2> SUFFICES ASSUME TypeOK, Safe, NEW i \in cursor + 1..Len(wal)
               PROVE  ~(i <= confirmed)
    BY DEF AckedIsDurable
  <2>1. confirmed \in Nat /\ cursor \in Nat /\ confirmed <= cursor
    BY DEF TypeOK, Safe, Positions
  <2> QED
    BY <2>1
<1> QED
  BY <1>1, Invariance, TypeCorrect, PTL

-----------------------------------------------------------------------------
(* Marked rows. *)

(* In a single database a compensating commit carries its undo_txn row.      *)
Markers ==
    ~TwoDb => /\ marked \subseteq 1..Len(wal)
              /\ \A i \in 1..Len(wal) : i \in marked <=> wal[i].undo

(* The rows of history are of commits that are in the log. *)
LEMMA RowsInLog ==
    ASSUME SafeInv
    PROVE  /\ \A n \in 1..Len(hist) : hist[n].lsn \in 1..Len(wal)
           /\ \A d \in dropped : d[1] \in 1..Len(wal) /\ d[2] \in 1..Len(wal[d[1]].changes)
           /\ Len(wal) \in Nat
<1>1. cursor \in 0..Len(wal) /\ Len(wal) \in Nat /\ CursorCovers
  BY DEF SafeInv, Safe, TypeOK, Positions
<1>2. \A d \in Captured \cup dropped : d[1] \in 1..Len(wal) /\ d[2] \in 1..Len(wal[d[1]].changes)
  BY <1>1 DEF CursorCovers
<1>3. \A n \in 1..Len(hist) : <<hist[n].lsn, hist[n].idx>> \in Captured
  BY DEF Captured
<1>4. ASSUME NEW n \in 1..Len(hist)
      PROVE  hist[n].lsn \in 1..Len(wal)
  <2>1. <<hist[n].lsn, hist[n].idx>>[1] \in 1..Len(wal)
    BY <1>2, <1>3
  <2> QED
    BY <2>1
<1> QED
  BY <1>1, <1>2, <1>4

(* What the transaction of writeCommit does, when it is not skipped. *)
LEMMA StoreWrites ==
    ASSUME SafeInv, NEW p \in Procs, CommitReceived(p), StoreCommit(p)
    PROVE  \/ UNCHANGED store
           \/ /\ at[p] \in 1..Len(wal) /\ cursor < at[p] /\ cursor' = at[p] /\ UNCHANGED marked
              /\ dropped' = dropped \cup {<<at[p], j>> : j \in unknown[p]}
              /\ Len(hist) \in Nat /\ Len(batch[p]) \in Nat
              /\ hist' \in Seq(HistoryRows) /\ Len(hist') = Len(hist) + Len(batch[p])
              /\ \A n \in 1..Len(hist) : hist'[n] = hist[n]
              /\ \A n \in 1..Len(batch[p]) :
                   /\ hist'[Len(hist) + n].lsn = at[p] /\ hist'[Len(hist) + n].idx = batch[p][n]
                   /\ hist'[Len(hist) + n].isUndo <=> at[p] \in marked
<1>1. TypeOK /\ at[p] \in Nat /\ cursor \in Nat /\ hist \in Seq(HistoryRows)
      /\ at[p] \in 1..Len(wal)
  BY StoreFacts, ProcFacts DEF TypeOK, CommitReceived, ProcOK
<1>2. CASE at[p] <= cursor
  BY <1>2 DEF StoreCommit
<1>3. CASE ~(at[p] <= cursor)
  <2>1. hist' = hist \o NewRows(p) /\ cursor' = at[p] /\ UNCHANGED marked
        /\ dropped' = dropped \cup {<<at[p], j>> : j \in unknown[p]}
    BY <1>3, Zenon DEF StoreCommit, NewRows
  <2>2. /\ NewRows(p) \in Seq(HistoryRows) /\ Len(batch[p]) \in Nat
        /\ Len(NewRows(p)) = Len(batch[p])
        /\ \A n \in 1..Len(batch[p]) :
             NewRows(p)[n].lsn = at[p] /\ NewRows(p)[n].idx = batch[p][n]
    BY <1>1, NewRowsType
  <2>3. \A n \in 1..Len(batch[p]) : NewRows(p)[n].isUndo <=> at[p] \in marked
    <3> SUFFICES ASSUME NEW n \in 1..Len(batch[p])
                 PROVE  NewRows(p)[n].isUndo <=> at[p] \in marked
      OBVIOUS
    <3> DEFINE b == at[p] \in marked
    <3>1. NewRows(p)[n] = [lsn |-> at[p], idx |-> batch[p][n], isUndo |-> b]
      BY Zenon DEF NewRows
    <3> HIDE DEF b
    <3>2. NewRows(p)[n].isUndo = b
      BY <3>1
    <3> QED
      BY <3>2 DEF b
  <2>4. /\ Len(hist) \in Nat /\ Len(hist') = Len(hist) + Len(batch[p])
        /\ \A n \in 1..Len(hist) : hist'[n] = hist[n]
        /\ \A n \in 1..Len(batch[p]) : hist'[Len(hist) + n] = NewRows(p)[n]
    BY <1>1, <2>1, <2>2, ConcatElements
  <2>5. hist' \in Seq(HistoryRows)
    BY <1>1, <2>1, <2>2
  <2> QED
    BY <1>1, <1>3, <2>1, <2>2, <2>3, <2>4, <2>5
<1> QED
  BY <1>2, <1>3

(* Every step but a commit leaves the log alone, and every step but a write  *)
(* of a received commit the store's history.                                 *)
LEMMA WhoWrites ==
    ASSUME [Next]_vars
    PROVE  /\ \/ UNCHANGED wal
              \/ \E n \in 0..MaxChanges : \E c \in [1..n -> published], u \in BOOLEAN : Commit(c, u)
           /\ \/ UNCHANGED <<cursor, hist, dropped>>
              \/ \E p \in Procs : CommitReceived(p) /\ StoreCommit(p) /\ UNCHANGED wal
<1>1. CASE UNCHANGED vars
  BY <1>1 DEF vars, tenant, store
<1>2. CASE \E n \in 0..MaxChanges : \E c \in [1..n -> published], u \in BOOLEAN : Commit(c, u)
  BY <1>2 DEF Commit
<1>3. CASE (\E i \in 1..MaxCommits : MarkUndo(i)) \/ \E t \in Tables : Track(t) \/ Untrack(t)
  BY <1>3 DEF MarkUndo, Track, Untrack, tenant, store
<1>4. ASSUME NEW p \in Procs, Boot(p) \/ Connect(p) \/ Disconnect(p) \/ Begin(p) \/ Receive(p) \/ Ack(p)
      PROVE  UNCHANGED <<wal, cursor, hist, dropped>>
  BY <1>4 DEF Boot, Connect, Disconnect, Begin, Receive, Ack, tenant, store
<1>5. ASSUME NEW p \in Procs, Write(p)
      PROVE  CommitReceived(p) /\ StoreCommit(p) /\ UNCHANGED wal
  BY <1>5 DEF Write, tenant
<1>6. ASSUME NEW p \in Procs, NEW r \in Refreshers, Refresh(p, r)
      PROVE  UNCHANGED <<wal, cursor, hist, dropped>>
  BY <1>6 DEF Refresh, RefreshStart, RefreshMembers, AddMember, DropMember, RefreshLoad,
              RefreshInstall, tenant, store
<1>7. CASE Faults
  <2>1. ASSUME NEW p \in Procs, WriteError(p) \/ Crash(p)
        PROVE  /\ UNCHANGED wal
               /\ (CommitReceived(p) /\ StoreCommit(p)) \/ UNCHANGED <<cursor, hist, dropped>>
    BY <2>1 DEF WriteError, Crash, tenant, store
  <2>2. CASE TenantRestart \/ \E p \in Procs : Break(p)
    BY <2>2 DEF TenantRestart, Break, tenant, store
  <2> QED
    BY <1>7, <2>1, <2>2 DEF Faults
<1> QED
  BY <1>1, <1>2, <1>3, <1>4, <1>5, <1>6, <1>7 DEF Next, Tenant, Process

LEMMA LogStep ==
    ASSUME SafeInv, [Next]_vars
    PROVE  /\ Len(wal) \in Nat /\ Len(wal') \in Nat /\ Len(wal) <= Len(wal')
           /\ \A i \in 1..Len(wal) : wal'[i] = wal[i]
<1>1. wal \in Seq(Commits)
  BY StoreFacts
<1>2. CASE UNCHANGED wal
  BY <1>1, <1>2
<1>3. ASSUME NEW c, NEW u, Commit(c, u)
      PROVE  /\ Len(wal') = Len(wal) + 1
             /\ \A i \in 1..Len(wal) : wal'[i] = wal[i]
  BY <1>1, <1>3 DEF Commit
<1> QED
  BY <1>1, <1>2, <1>3, WhoWrites

LEMMA MarkersStep ==
    ASSUME SafeInv, Markers, [Next]_vars
    PROVE  Markers'
<1> SUFFICES ASSUME ~TwoDb
             PROVE  /\ marked' \subseteq 1..Len(wal')
                    /\ \A i \in 1..Len(wal') : i \in marked' <=> wal'[i].undo
  BY DEF Markers
<1>0. /\ marked \subseteq 1..Len(wal) /\ \A i \in 1..Len(wal) : i \in marked <=> wal[i].undo
  BY DEF Markers
<1>1. ASSUME NEW c, NEW u \in BOOLEAN, Commit(c, u)
      PROVE  /\ marked' \subseteq 1..Len(wal')
             /\ \A i \in 1..Len(wal') : i \in marked' <=> wal'[i].undo
  <2>1. wal \in Seq(Commits) /\ wal' = Append(wal, [changes |-> c, undo |-> u])
    BY <1>1, StoreFacts DEF Commit
  <2>2. /\ Len(wal) \in Nat /\ Len(wal') = Len(wal) + 1
        /\ \A i \in 1..Len(wal) : wal'[i] = wal[i]
        /\ wal'[Len(wal) + 1] = [changes |-> c, undo |-> u]
    BY <2>1
  <2>3. wal'[Len(wal) + 1].undo <=> u
    BY <2>2
  <2>4. marked' = IF u THEN marked \cup {Len(wal) + 1} ELSE marked
    BY <1>1 DEF Commit
  <2>5. Len(wal) + 1 \notin marked
    <3>1. Len(wal) + 1 \notin 1..Len(wal)
      BY <2>2
    <3> QED
      BY <1>0, <3>1
  <2>6. \A i \in 1..Len(wal') : i \in 1..Len(wal) \/ i = Len(wal) + 1
    BY <2>2
  <2>7. \A i \in 1..Len(wal) : i \in 1..Len(wal') /\ i # Len(wal) + 1
    BY <2>2
  <2>8. Len(wal) + 1 \in 1..Len(wal')
    BY <2>2
  <2>9. marked' \subseteq 1..Len(wal')
    BY <1>0, <2>4, <2>7, <2>8
  <2>10. ASSUME NEW i \in 1..Len(wal')
         PROVE  i \in marked' <=> wal'[i].undo
    <3>1. CASE i \in 1..Len(wal)
      <4>1. i \in marked' <=> i \in marked
        BY <2>4, <2>7, <3>1
      <4>2. wal'[i] = wal[i] /\ (i \in marked <=> wal[i].undo)
        BY <1>0, <2>2, <3>1
      <4> QED
        BY <4>1, <4>2
    <3>2. CASE i = Len(wal) + 1
      <4>1. i \in marked' <=> u
        BY <2>4, <2>5, <3>2
      <4> QED
        BY <2>3, <3>2, <4>1
    <3> QED
      BY <2>6, <3>1, <3>2
  <2> QED
    BY <2>9, <2>10
<1>2. CASE UNCHANGED <<wal, marked>>
  BY <1>0, <1>2
<1>3. CASE ~\E n \in 0..MaxChanges : \E c \in [1..n -> published], u \in BOOLEAN : Commit(c, u)
  <2>1. UNCHANGED wal
    BY <1>3, WhoWrites
  <2>2. marked' = marked
    <3>1. CASE UNCHANGED vars
      BY <3>1 DEF vars, store
    <3>2. CASE Tenant
      BY <1>3, <3>2 DEF Tenant, MarkUndo, Track, Untrack, store
    <3>3. ASSUME NEW p \in Procs, Process(p)
          PROVE  marked' = marked
      BY <3>3 DEF Process, Boot, Connect, Disconnect, Begin, Receive, Write, Ack, Refresh, StoreCommit, store
    <3>4. CASE Faults
      <4>1. ASSUME NEW p \in Procs, StoreCommit(p) \/ UNCHANGED store
            PROVE  marked' = marked
        BY <4>1 DEF StoreCommit, store
      <4>2. CASE TenantRestart \/ \E p \in Procs : Break(p)
        BY <4>2 DEF TenantRestart, Break, store
      <4>3. CASE \E p \in Procs : WriteError(p) \/ Crash(p)
        BY <4>1, <4>3 DEF WriteError, Crash
      <4> QED
        BY <3>4, <4>2, <4>3 DEF Faults
    <3> QED
      BY <3>1, <3>2, <3>3, <3>4 DEF Next
  <2> QED
    BY <1>2, <2>1, <2>2
<1> QED
  BY <1>1, <1>3

LEMMA RowsMarkedStep ==
    ASSUME SafeInv, Markers, UndoRowsMarked, ~TwoDb, [Next]_vars
    PROVE  UndoRowsMarked'
<1>0. /\ Len(wal) \in Nat /\ \A i \in 1..Len(wal) : wal'[i] = wal[i]
      /\ \A n \in 1..Len(hist) : hist[n].lsn \in 1..Len(wal)
  BY LogStep, RowsInLog
<1>1. CASE UNCHANGED hist
  BY <1>0, <1>1 DEF UndoRowsMarked
<1>2. ASSUME NEW p \in Procs, CommitReceived(p), StoreCommit(p), ~UNCHANGED hist
      PROVE  UndoRowsMarked'
  <2>1. /\ at[p] \in 1..Len(wal)
        /\ Len(hist) \in Nat /\ Len(batch[p]) \in Nat
        /\ Len(hist') = Len(hist) + Len(batch[p])
        /\ \A n \in 1..Len(hist) : hist'[n] = hist[n]
        /\ \A n \in 1..Len(batch[p]) :
             /\ hist'[Len(hist) + n].lsn = at[p]
             /\ hist'[Len(hist) + n].isUndo <=> at[p] \in marked
    BY <1>2, StoreWrites DEF store
  <2>2. ASSUME NEW n \in 1..Len(hist')
        PROVE  hist'[n].isUndo <=> wal'[hist'[n].lsn].undo
    <3>1. CASE n \in 1..Len(hist)
      BY <1>0, <2>1, <3>1 DEF UndoRowsMarked
    <3>2. CASE n \notin 1..Len(hist)
      <4>0. n - Len(hist) \in 1..Len(batch[p]) /\ n = Len(hist) + (n - Len(hist))
        BY <2>1, <3>2
      <4>1. PICK k \in 1..Len(batch[p]) : n = Len(hist) + k
        BY <4>0
      <4>2. hist'[n].lsn = at[p] /\ (hist'[n].isUndo <=> at[p] \in marked)
        BY <2>1, <4>1
      <4>3. wal'[at[p]] = wal[at[p]] /\ (at[p] \in marked <=> wal[at[p]].undo)
        BY <1>0, <2>1 DEF Markers
      <4> QED
        BY <4>2, <4>3
    <3> QED
      BY <3>1, <3>2
  <2> QED
    BY <2>2 DEF UndoRowsMarked
<1> QED
  BY <1>1, <1>2, WhoWrites

(* In a single database the marker is written in the transaction of the      *)
(* undo, so the rows of compensating transactions, and no others, are marked *)
(* in history, whatever fails and however many processes write.              *)
THEOREM UndoRowsAreMarked == ASSUME ~TwoDb PROVE Spec => []UndoRowsMarked
<1>1. Init => Markers /\ UndoRowsMarked
  BY DEF Init, Markers, UndoRowsMarked
<1>2. TypeOK /\ Safe /\ Markers /\ UndoRowsMarked /\ [Next]_vars => (Markers /\ UndoRowsMarked)'
  BY MarkersStep, RowsMarkedStep DEF SafeInv
<1> QED
  BY <1>1, <1>2, Invariance, TypeCorrect, PTL DEF Spec

-----------------------------------------------------------------------------
(* Tables whose tracking nobody changes. *)

Stable == Tracked0 \ Touched
Known == Tracked0 \cup Touched

(* Nothing but the known tables is ever published, logged or wanted, and no  *)
(* reading that a process still acts on lacks a stable table.                *)
Membership ==
    /\ Stable \subseteq tracked /\ tracked \subseteq Known
    /\ Stable \subseteq published /\ published \subseteq Known
    /\ \A i \in 1..Len(wal) : \A j \in 1..Len(wal[i].changes) : wal[i].changes[j] \in Known

ReadingOK(p, r) ==
    /\ refresh[p][r].want \subseteq Known
    /\ refresh[p][r].step # "idle" => Stable \subseteq refresh[p][r].want

Readings ==
    \A p \in Procs : /\ up[p] => Stable \subseteq catalog[p]
                     /\ \A r \in Refreshers : ReadingOK(p, r)

LeftOut ==
    /\ \A p \in Procs : \A j \in unknown[p] : wal[at[p]].changes[j] \in Touched
    /\ \A d \in dropped : wal[d[1]].changes[d[2]] \in Touched

StableInv == Membership /\ Readings /\ LeftOut

LEMMA WhoTouches ==
    ASSUME [Next]_vars
    PROVE  UNCHANGED changes \/ \E t \in Tables : Track(t) \/ Untrack(t)
<1>1. CASE Tenant
  BY <1>1 DEF Tenant, Commit, MarkUndo
<1>2. ASSUME NEW p \in Procs, Process(p)
      PROVE  UNCHANGED changes
  BY <1>2 DEF Process, Boot, Connect, Disconnect, Begin, Receive, Write, Ack, Refresh
<1>3. CASE Faults
  BY <1>3 DEF Faults, TenantRestart, WriteError, Crash, Break
<1>4. CASE UNCHANGED vars
  BY <1>4 DEF vars
<1> QED
  BY <1>1, <1>2, <1>3, <1>4 DEF Next

LEMMA TouchedGrows ==
    ASSUME TypeOK, [Next]_vars
    PROVE  Touched \subseteq Touched'
<1>1. CASE UNCHANGED changes
  BY <1>1 DEF Touched
<1>2. ASSUME NEW t \in Tables, Track(t) \/ Untrack(t)
      PROVE  Touched \subseteq Touched'
  <2>1. changes \in Seq(Tables) /\ changes' = Append(changes, t)
    BY <1>2 DEF TypeOK, Track, Untrack
  <2>2. /\ Len(changes) \in Nat /\ Len(changes') = Len(changes) + 1
        /\ \A n \in 1..Len(changes) : changes'[n] = changes[n]
    BY <2>1
  <2>3. \A n \in 1..Len(changes) : n \in 1..Len(changes')
    BY <2>2
  <2> QED
    BY <2>2, <2>3 DEF Touched
<1> QED
  BY <1>1, <1>2, WhoTouches

(* A call of track or untrack touches its table. *)
LEMMA CallTouches ==
    ASSUME TypeOK, NEW t \in Tables, Track(t) \/ Untrack(t)
    PROVE  t \in Touched'
<1>1. changes \in Seq(Tables) /\ changes' = Append(changes, t)
  BY DEF TypeOK, Track, Untrack
<1>2. Len(changes') \in 1..Len(changes') /\ changes'[Len(changes')] = t
  BY <1>1
<1> QED
  BY <1>2 DEF Touched

LEMMA MembershipStep ==
    ASSUME SafeInv, StableInv, [Next]_vars
    PROVE  Membership'
<1>0. /\ TypeOK /\ Membership /\ Touched \subseteq Touched'
      /\ Stable' \subseteq Stable /\ Known \subseteq Known'
  BY StoreFacts, TouchedGrows DEF StableInv, Stable, Known
<1>1. \A i \in 1..Len(wal') : \A j \in 1..Len(wal'[i].changes) : wal'[i].changes[j] \in Known'
  <2>1. CASE UNCHANGED wal
    BY <1>0, <2>1 DEF Membership
  <2>2. ASSUME NEW n \in 0..MaxChanges, NEW c \in [1..n -> published], NEW u \in BOOLEAN, Commit(c, u)
        PROVE  \A i \in 1..Len(wal') : \A j \in 1..Len(wal'[i].changes) :
                 wal'[i].changes[j] \in Known'
    <3>1. wal \in Seq(Commits) /\ wal' = Append(wal, [changes |-> c, undo |-> u])
      BY <2>2, StoreFacts DEF Commit
    <3>2. /\ Len(wal) \in Nat /\ Len(wal') = Len(wal) + 1
          /\ \A i \in 1..Len(wal) : wal'[i] = wal[i]
          /\ wal'[Len(wal) + 1].changes = c
      BY <3>1
    <3>3. n \in Nat /\ Len(c) = n
      <4>1. n \in Nat
        BY CaptureAssumption DEF CaptureAssumption
      <4> QED
        BY <4>1
    <3>4. \A j \in 1..Len(c) : c[j] \in Known'
      BY <1>0, <3>3 DEF Membership
    <3>5. \A i \in 1..Len(wal') : i \in 1..Len(wal) \/ i = Len(wal) + 1
      BY <3>2
    <3>6. ASSUME NEW i \in 1..Len(wal'), NEW j \in 1..Len(wal'[i].changes)
          PROVE  wal'[i].changes[j] \in Known'
      <4>1. CASE i \in 1..Len(wal)
        BY <1>0, <3>2, <4>1 DEF Membership
      <4>2. CASE i = Len(wal) + 1
        BY <3>2, <3>4, <4>2
      <4> QED
        BY <3>5, <4>1, <4>2
    <3> QED
      BY <3>6
  <2> QED
    BY <2>1, <2>2, WhoWrites
<1>2. /\ Stable' \subseteq tracked' /\ tracked' \subseteq Known'
      /\ Stable' \subseteq published' /\ published' \subseteq Known'
  <2>1. CASE UNCHANGED <<tracked, published>>
    BY <1>0, <2>1 DEF Membership
  <2>2. ASSUME NEW t \in Tables, Track(t) \/ Untrack(t)
        PROVE  /\ Stable' \subseteq tracked' /\ tracked' \subseteq Known'
               /\ Stable' \subseteq published' /\ published' \subseteq Known'
    <3>1. t \in Known' /\ t \notin Stable'
      BY <1>0, <2>2, CallTouches DEF Known, Stable
    <3> QED
      BY <1>0, <2>2, <3>1 DEF Membership, Track, Untrack
  <2>3. ASSUME NEW p \in Procs, Boot(p)
        PROVE  /\ Stable' \subseteq tracked' /\ tracked' \subseteq Known'
               /\ Stable' \subseteq published' /\ published' \subseteq Known'
    BY <1>0, <2>3 DEF Membership, Boot
  <2>4. ASSUME NEW p \in Procs, NEW r \in Refreshers, AddMember(p, r) \/ DropMember(p, r)
        PROVE  /\ Stable' \subseteq tracked' /\ tracked' \subseteq Known'
               /\ Stable' \subseteq published' /\ published' \subseteq Known'
    <3>1. refresh[p][r].want \subseteq Known /\ Stable \subseteq refresh[p][r].want
      BY <2>4 DEF StableInv, Readings, ReadingOK, AddMember, DropMember, Refreshing
    <3>2. UNCHANGED tracked
      BY <2>4 DEF AddMember, DropMember
    <3>3. CASE AddMember(p, r)
      <4>1. PICK t \in refresh[p][r].want \ refresh[p][r].have : published' = published \cup {t}
        BY <3>3 DEF AddMember
      <4> QED
        BY <1>0, <3>1, <3>2, <4>1 DEF Membership
    <3>4. CASE DropMember(p, r)
      <4>1. PICK t \in refresh[p][r].have \ refresh[p][r].want : published' = published \ {t}
        BY <3>4 DEF DropMember
      <4> QED
        BY <1>0, <3>1, <3>2, <4>1 DEF Membership
    <3> QED
      BY <2>4, <3>3, <3>4
  <2>5. \/ UNCHANGED <<tracked, published>>
        \/ \E t \in Tables : Track(t) \/ Untrack(t)
        \/ \E p \in Procs : Boot(p)
        \/ \E p \in Procs, r \in Refreshers : AddMember(p, r) \/ DropMember(p, r)
    <3>1. CASE Tenant
      BY <3>1 DEF Tenant, Commit, MarkUndo, tenant
    <3>2. ASSUME NEW p \in Procs, Process(p), ~Boot(p), ~\E r \in Refreshers : Refresh(p, r)
          PROVE  UNCHANGED <<tracked, published>>
      BY <3>2 DEF Process, Connect, Disconnect, Begin, Receive, Write, Ack, tenant
    <3>3. ASSUME NEW p \in Procs, NEW r \in Refreshers, Refresh(p, r)
          PROVE  AddMember(p, r) \/ DropMember(p, r) \/ UNCHANGED <<tracked, published>>
      BY <3>3 DEF Refresh, RefreshStart, RefreshMembers, RefreshLoad, RefreshInstall, tenant
    <3>4. CASE Faults
      BY <3>4 DEF Faults, TenantRestart, WriteError, Crash, Break, tenant
    <3>5. CASE UNCHANGED vars
      BY <3>5 DEF vars, tenant
    <3> QED
      BY <3>1, <3>2, <3>3, <3>4, <3>5 DEF Next
  <2> QED
    BY <2>1, <2>2, <2>3, <2>4, <2>5
<1> QED
  BY <1>1, <1>2 DEF Membership

LEMMA RefreshFields ==
    ASSUME NEW s \in Refreshes, NEW X \in SUBSET Tables
    PROVE  /\ Idle.want = {} /\ Idle.step = "idle"
           /\ [Idle EXCEPT !.step = "members", !.want = X].want = X
           /\ [Idle EXCEPT !.step = "install", !.want = X].want = X
           /\ [s EXCEPT !.step = "alter", !.have = X].want = s.want
           /\ [s EXCEPT !.have = X].want = s.want
BY DEF Refreshes, Idle

LEMMA ReadingsStep ==
    ASSUME SafeInv, StableInv, [Next]_vars
    PROVE  Readings'
<1>0. /\ TypeOK /\ Membership /\ Readings
      /\ Stable' \subseteq Stable /\ Known \subseteq Known'
      /\ catalog \in [Procs -> SUBSET Tables] /\ up \in [Procs -> BOOLEAN]
      /\ refresh \in [Procs -> [Refreshers -> Refreshes]]
  BY StoreFacts, TouchedGrows DEF StableInv, Stable, Known, TypeOK
<1>1. ASSUME UNCHANGED <<up, tables>>
      PROVE  Readings'
  BY <1>0, <1>1 DEF Readings, ReadingOK, tables
<1>2. ASSUME NEW p \in Procs, Boot(p)
      PROVE  Readings'
  <2>1. Stable' \subseteq tracked
    BY <1>0 DEF Membership
  <2>2. /\ catalog' = [catalog EXCEPT ![p] = tracked] /\ UNCHANGED refresh
        /\ up' = [up EXCEPT ![p] = TRUE]
    BY <1>2 DEF Boot
  <2>3. ASSUME NEW o \in Procs, up'[o]
        PROVE  Stable' \subseteq catalog'[o]
    <3>1. CASE o = p
      BY <1>0, <2>1, <2>2, <3>1
    <3>2. CASE o # p
      <4>1. catalog'[o] = catalog[o] /\ up[o]
        BY <1>0, <2>2, <2>3, <3>2
      <4> QED
        BY <1>0, <4>1 DEF Readings
    <3> QED
      BY <3>1, <3>2
  <2> QED
    BY <1>0, <2>2, <2>3 DEF Readings, ReadingOK
<1>3. ASSUME NEW p \in Procs, NEW q \in Refreshers, NEW s \in Refreshes, To(p, q, s), UNCHANGED up,
             s.want \subseteq Known', s.step # "idle" => Stable' \subseteq s.want,
             \A o \in Procs : catalog'[o] = catalog[o] \/ Stable' \subseteq catalog'[o]
      PROVE  Readings'
  <2>1. \A o \in Procs, r \in Refreshers :
          refresh'[o][r] = IF o = p /\ r = q THEN s ELSE refresh[o][r]
    BY <1>0, <1>3 DEF To
  <2>2. ASSUME NEW o \in Procs, NEW r \in Refreshers
        PROVE  ReadingOK(o, r)'
    <3>1. CASE o = p /\ r = q
      BY <1>3, <2>1, <3>1 DEF ReadingOK
    <3>2. CASE ~(o = p /\ r = q)
      <4>1. refresh'[o][r] = refresh[o][r] /\ ReadingOK(o, r)
        BY <1>0, <2>1, <3>2 DEF Readings
      <4> QED
        BY <1>0, <4>1 DEF ReadingOK
    <3> QED
      BY <3>1, <3>2
  <2>3. \A o \in Procs : up'[o] => Stable' \subseteq catalog'[o]
    BY <1>0, <1>3 DEF Readings
  <2> QED
    BY <2>2, <2>3 DEF Readings
<1>4. ASSUME NEW p \in Procs, NEW r \in Refreshers, Refresh(p, r)
      PROVE  Readings'
  <2> DEFINE s == refresh[p][r]
  <2>1. /\ s \in Refreshes /\ s.want \subseteq Tables /\ s.have \subseteq Tables /\ Idle \in Refreshes
        /\ s.want \subseteq Known /\ (s.step # "idle" => Stable \subseteq s.want)
        /\ tracked \in SUBSET Tables /\ published \in SUBSET Tables
        /\ Idle.want = {} /\ Idle.step = "idle"
    <3>1. tracked \in SUBSET Tables /\ published \in SUBSET Tables /\ ReadingOK(p, r)
      BY <1>0 DEF Readings, TypeOK
    <3>2. s \in Refreshes
      BY <1>0
    <3> HIDE DEF s
    <3>3. /\ s.want \subseteq Tables /\ s.have \subseteq Tables /\ Idle \in Refreshes
          /\ Idle.want = {} /\ Idle.step = "idle"
      BY <3>1, <3>2, RefreshStates, RefreshFields
    <3> QED
      BY <3>1, <3>2, <3>3 DEF ReadingOK, s
  <2>2. UNCHANGED up
    BY <1>4 DEF Refresh
  <2> HIDE DEF s
  <2>3. CASE RefreshStart(p, r)
    <3> DEFINE z == [Idle EXCEPT !.step = "members", !.want = tracked]
    <3>1. z \in Refreshes /\ z.want = tracked
      BY <2>1, RefreshStates, RefreshFields, Zenon
    <3>2. To(p, r, z) /\ UNCHANGED catalog
      BY <2>3 DEF RefreshStart
    <3> HIDE DEF z
    <3> QED
      BY <1>0, <1>3, <2>2, <3>1, <3>2 DEF Membership
  <2>4. CASE RefreshMembers(p, r)
    <3> DEFINE z == [s EXCEPT !.step = "alter", !.have = published]
    <3>1. z \in Refreshes /\ z.want = s.want
      BY <2>1, RefreshStates, RefreshFields, Zenon
    <3>2. To(p, r, z) /\ UNCHANGED catalog /\ s.step = "members"
      BY <2>4 DEF RefreshMembers, Refreshing, s
    <3> HIDE DEF z
    <3> QED
      BY <1>0, <1>3, <2>1, <2>2, <3>1, <3>2
  <2>5. ASSUME NEW X \in SUBSET Tables, s.step = "alter", UNCHANGED catalog,
               To(p, r, Idle) \/ To(p, r, [s EXCEPT !.have = X])
        PROVE  Readings'
    <3> DEFINE z == [s EXCEPT !.have = X]
    <3>1. z \in Refreshes /\ z.want = s.want
      BY <2>1, RefreshStates, RefreshFields, Zenon
    <3>2. To(p, r, Idle) \/ To(p, r, z)
      BY <2>5
    <3> HIDE DEF z
    <3>3. s.want \subseteq Known' /\ Stable' \subseteq s.want
      BY <1>0, <2>1, <2>5
    <3> QED
      BY <1>3, <2>1, <2>2, <2>5, <3>1, <3>2, <3>3
  <2>6. CASE AddMember(p, r)
    <3>1. PICK t \in s.want \ s.have :
            To(p, r, IF t \in published THEN Idle ELSE [s EXCEPT !.have = s.have \cup {t}])
      BY <2>6 DEF AddMember, s
    <3>2. s.have \cup {t} \in SUBSET Tables /\ s.step = "alter" /\ UNCHANGED catalog
      BY <2>1, <2>6, <3>1 DEF AddMember, Refreshing, s
    <3> QED
      BY <2>5, <3>1, <3>2
  <2>7. CASE DropMember(p, r)
    <3>1. PICK t \in s.have \ s.want :
            To(p, r, IF t \notin published THEN Idle ELSE [s EXCEPT !.have = s.have \ {t}])
      BY <2>7 DEF DropMember, s
    <3>2. s.have \ {t} \in SUBSET Tables /\ s.step = "alter" /\ UNCHANGED catalog
      BY <2>1, <2>7, <3>1 DEF DropMember, Refreshing, s
    <3> QED
      BY <2>5, <3>1, <3>2
  <2>8. CASE RefreshLoad(p, r)
    <3> DEFINE z == [Idle EXCEPT !.step = "install", !.want = tracked]
    <3>1. z \in Refreshes /\ z.want = tracked
      BY <2>1, RefreshStates, RefreshFields, Zenon
    <3>2. To(p, r, z) /\ UNCHANGED catalog
      BY <2>8 DEF RefreshLoad
    <3> HIDE DEF z
    <3> QED
      BY <1>0, <1>3, <2>2, <3>1, <3>2 DEF Membership
  <2>9. CASE RefreshInstall(p, r)
    <3>1. To(p, r, Idle) /\ catalog' = [catalog EXCEPT ![p] = s.want] /\ s.step = "install"
      BY <2>9 DEF RefreshInstall, Refreshing, s
    <3>2. \A o \in Procs : catalog'[o] = catalog[o] \/ Stable' \subseteq catalog'[o]
      <4>1. Stable' \subseteq s.want
        BY <1>0, <2>1, <3>1
      <4> QED
        BY <1>0, <3>1, <4>1
    <3> QED
      BY <1>3, <2>1, <2>2, <3>1, <3>2
  <2> QED
    BY <1>4, <2>3, <2>4, <2>6, <2>7, <2>8, <2>9 DEF Refresh
<1>5. ASSUME NEW p \in Procs, Crash(p)
      PROVE  Readings'
  <2>1. /\ up' = [up EXCEPT ![p] = FALSE]
        /\ catalog' = [catalog EXCEPT ![p] = {}]
        /\ refresh' = [refresh EXCEPT ![p] = [r \in Refreshers |-> Idle]]
    BY <1>5 DEF Crash
  <2>2. Idle.want = {} /\ Idle.step = "idle"
    BY DEF Idle
  <2>3. ASSUME NEW o \in Procs
        PROVE  (up'[o] => Stable' \subseteq catalog'[o]) /\ \A r \in Refreshers : ReadingOK(o, r)'
    <3>1. CASE o = p
      BY <1>0, <2>1, <2>2, <3>1 DEF ReadingOK
    <3>2. CASE o # p
      <4>1. up'[o] = up[o] /\ catalog'[o] = catalog[o] /\ refresh'[o] = refresh[o]
        BY <1>0, <2>1, <3>2
      <4> QED
        BY <1>0, <4>1 DEF Readings, ReadingOK
    <3> QED
      BY <3>1, <3>2
  <2> QED
    BY <2>3 DEF Readings
<1>6. \/ UNCHANGED <<up, tables>>
      \/ \E p \in Procs : Boot(p) \/ Crash(p) \/ \E r \in Refreshers : Refresh(p, r)
  <2>1. CASE Tenant
    BY <2>1 DEF Tenant, Commit, MarkUndo, Track, Untrack
  <2>2. ASSUME NEW p \in Procs, Process(p), ~Boot(p), ~\E r \in Refreshers : Refresh(p, r)
        PROVE  UNCHANGED <<up, tables>>
    BY <2>2 DEF Process, Connect, Disconnect, Begin, Receive, Write, Ack
  <2>3. CASE TenantRestart \/ \E p \in Procs : WriteError(p) \/ Break(p)
    BY <2>3 DEF TenantRestart, WriteError, Break
  <2>4. CASE UNCHANGED vars
    BY <2>4 DEF vars
  <2> QED
    BY <2>1, <2>2, <2>3, <2>4 DEF Next, Faults
<1> QED
  BY <1>1, <1>2, <1>4, <1>5, <1>6

(* What a process leaves out, it leaves out on receiving it. *)
LEMMA WhoLeavesOut ==
    ASSUME TypeOK, [Next]_vars, NEW o \in Procs
    PROVE  \/ unknown'[o] = unknown[o] /\ at'[o] = at[o]
           \/ unknown'[o] = {}
           \/ unknown'[o] = unknown[o] /\ ~txn[o]
           \/ unknown'[o] = unknown[o] /\ link[o] = "none"
           \/ Receive(o)
<1>0. /\ at \in [Procs -> Positions] /\ unknown \in [Procs -> SUBSET Nat]
      /\ txn \in [Procs -> BOOLEAN]
  BY DEF TypeOK
<1>1. CASE UNCHANGED <<at, unknown>>
  BY <1>1
<1>2. ASSUME NEW p \in Procs, Disconnected(p)
      PROVE  (unknown'[o] = unknown[o] /\ at'[o] = at[o]) \/ unknown'[o] = {}
  BY <1>0, <1>2 DEF Disconnected
<1>3. ASSUME NEW p \in Procs, Connect(p)
      PROVE  unknown'[o] = unknown[o] /\ (at'[o] = at[o] \/ link[o] = "none")
  BY <1>0, <1>3 DEF Connect
<1>4. ASSUME NEW p \in Procs, Begin(p)
      PROVE  unknown'[o] = unknown[o] /\ (at'[o] = at[o] \/ ~txn[o])
  BY <1>0, <1>4 DEF Begin
<1>5. ASSUME NEW p \in Procs, Receive(p), p # o
      PROVE  unknown'[o] = unknown[o] /\ at'[o] = at[o]
  <2>1. CASE wal[at[p]].changes[next[p]] \in catalog[p]
    BY <1>5, <2>1 DEF Receive
  <2>2. CASE wal[at[p]].changes[next[p]] \notin catalog[p]
    BY <1>0, <1>5, <2>2 DEF Receive
  <2> QED
    BY <2>1, <2>2
<1>6. ASSUME NEW p \in Procs, Write(p)
      PROVE  (unknown'[o] = unknown[o] /\ at'[o] = at[o]) \/ unknown'[o] = {}
  BY <1>0, <1>6 DEF Write
<1>7. CASE Tenant
  BY <1>7 DEF Tenant, Commit, MarkUndo, Track, Untrack, stream
<1>8. ASSUME NEW p \in Procs, Boot(p) \/ Ack(p) \/ (\E r \in Refreshers : Refresh(p, r)) \/ Break(p)
      PROVE  UNCHANGED <<at, unknown>>
  BY <1>8 DEF Boot, Ack, Refresh, Break, stream
<1>9. ASSUME NEW p \in Procs, Process(p)
      PROVE  \/ UNCHANGED <<at, unknown>>
             \/ Disconnected(p) \/ Connect(p) \/ Begin(p) \/ Receive(p) \/ Write(p)
  BY <1>8, <1>9 DEF Process, Disconnect
<1>10. CASE Faults
  <2>1. CASE TenantRestart
    BY <2>1 DEF TenantRestart
  <2>2. ASSUME NEW p \in Procs, WriteError(p) \/ Crash(p)
        PROVE  Disconnected(p)
    BY <2>2 DEF WriteError, Crash
  <2> QED
    BY <1>1, <1>2, <1>8, <1>10, <2>1, <2>2 DEF Faults
<1>11. CASE UNCHANGED vars
  BY <1>11 DEF vars, stream
<1> QED
  BY <1>1, <1>2, <1>3, <1>4, <1>5, <1>6, <1>7, <1>9, <1>10, <1>11 DEF Next

LEMMA LeftOutStep ==
    ASSUME SafeInv, StableInv, [Next]_vars
    PROVE  LeftOut'
<1>0. /\ TypeOK /\ Membership /\ Readings /\ LeftOut /\ Touched \subseteq Touched'
      /\ Len(wal) \in Nat /\ \A i \in 1..Len(wal) : wal'[i] = wal[i]
  BY StoreFacts, TouchedGrows, LogStep DEF StableInv
<1>1. ASSUME NEW o \in Procs, NEW j \in unknown'[o]
      PROVE  wal'[at'[o]].changes[j] \in Touched'
  <2>1. ProcOK(o) /\ at[o] \in Nat /\ unknown[o] \subseteq Nat /\ next[o] \in Nat \ {0}
    BY ProcFacts
  <2>2. txn[o] => link[o] # "none" /\ at[o] \in 1..Len(wal)
    BY <2>1 DEF ProcOK
  <2>3. ~txn[o] => unknown[o] = {}
    BY <2>1 DEF ProcOK
  <2>4. CASE unknown'[o] = unknown[o] /\ at'[o] = at[o]
    <3>1. txn[o] /\ at[o] \in 1..Len(wal)
      BY <2>2, <2>3, <2>4
    <3> QED
      BY <1>0, <2>4, <3>1 DEF LeftOut
  <2>5. CASE Receive(o)
    <3>1. /\ up[o] /\ txn[o] /\ next[o] <= Len(wal[at[o]].changes) /\ UNCHANGED <<wal, at>>
          /\ up \in [Procs -> BOOLEAN] /\ unknown \in [Procs -> SUBSET Nat]
      BY <1>0, <2>5 DEF Receive, tenant, TypeOK
    <3>2. at[o] \in 1..Len(wal)
      BY <2>2, <3>1
    <3>3. CASE j \in unknown[o]
      BY <1>0, <3>1, <3>3 DEF LeftOut
    <3>4. CASE j \notin unknown[o]
      <4>1. j = next[o] /\ wal[at[o]].changes[j] \notin catalog[o]
        <5>1. CASE wal[at[o]].changes[next[o]] \in catalog[o]
          BY <2>5, <3>4, <5>1 DEF Receive
        <5>2. CASE wal[at[o]].changes[next[o]] \notin catalog[o]
          BY <2>5, <3>1, <3>4, <5>2 DEF Receive
        <5> QED
          BY <5>1, <5>2
      <4>2. wal[at[o]].changes[j] \in Known
        <5>1. wal \in Seq(Commits)
          BY StoreFacts
        <5>2. wal[at[o]] \in Commits
          BY <3>2, <5>1
        <5>3. Len(wal[at[o]].changes) \in Nat
          BY <5>2 DEF Commits
        <5>4. j \in 1..Len(wal[at[o]].changes)
          BY <2>1, <3>1, <4>1, <5>3
        <5> QED
          BY <1>0, <3>2, <5>4 DEF Membership
      <4>3. Stable \subseteq catalog[o]
        BY <1>0, <3>1 DEF Readings
      <4> QED
        BY <1>0, <3>1, <4>1, <4>2, <4>3 DEF Known, Stable
    <3> QED
      BY <3>3, <3>4
  <2> QED
    BY <2>2, <2>3, <2>4, <2>5, <1>0, <1>1, WhoLeavesOut
<1>2. ASSUME NEW d \in dropped'
      PROVE  wal'[d[1]].changes[d[2]] \in Touched'
  <2>1. \A e \in dropped : wal'[e[1]].changes[e[2]] \in Touched'
    BY <1>0, RowsInLog DEF LeftOut
  <2>2. CASE UNCHANGED dropped
    BY <2>1, <2>2
  <2>3. ASSUME NEW p \in Procs, CommitReceived(p), StoreCommit(p), ~UNCHANGED store
        PROVE  wal'[d[1]].changes[d[2]] \in Touched'
    <3>1. at[p] \in 1..Len(wal) /\ dropped' = dropped \cup {<<at[p], j>> : j \in unknown[p]}
      BY <2>3, StoreWrites
    <3>2. CASE d \in dropped
      BY <2>1, <3>2
    <3>3. CASE d \notin dropped
      <4>1. PICK j \in unknown[p] : d = <<at[p], j>>
        BY <3>1, <3>3
      <4>2. d[1] = at[p] /\ d[2] = j
        BY <4>1
      <4>3. wal[at[p]].changes[j] \in Touched
        BY <1>0 DEF LeftOut
      <4> QED
        BY <1>0, <3>1, <4>2, <4>3
    <3> QED
      BY <3>2, <3>3
  <2> QED
    BY <2>2, <2>3, WhoWrites DEF store
<1> QED
  BY <1>1, <1>2 DEF LeftOut

LEMMA StableInvariance == Spec => []StableInv
<1>1. Init => StableInv
  <2> SUFFICES ASSUME Init PROVE StableInv
    OBVIOUS
  <2>1. Touched = {}
    BY DEF Init, Touched
  <2>2. Readings
    BY DEF Init, Readings, ReadingOK, Idle
  <2>3. Membership
    BY <2>1 DEF Init, Membership, Stable, Known
  <2>4. LeftOut
    BY DEF Init, LeftOut
  <2> QED
    BY <2>2, <2>3, <2>4 DEF StableInv
<1>2. TypeOK /\ Safe /\ StableInv /\ [Next]_vars => StableInv'
  BY MembershipStep, ReadingsStep, LeftOutStep DEF SafeInv, StableInv
<1> QED
  BY <1>1, <1>2, Invariance, TypeCorrect, PTL DEF Spec

(* While tables come and go and refreshes race, a table nobody tracks or     *)
(* untracks stays published, and history lacks none of its changes.          *)
THEOREM StableTablesAreKept == Spec => []StableTablesKept
<1>1. StableInv => StableTablesKept
  BY DEF StableInv, Membership, LeftOut, StableTablesKept, Stable
<1> QED
  BY <1>1, StableInvariance, PTL

-----------------------------------------------------------------------------
(* Capture implements HistoryLog. *)

(* A process receives only commits that have changes, and as long as it left *)
(* none out, its batch is the changes that arrived.                          *)
WholeOK(p) ==
    /\ txn[p] => Len(wal[at[p]].changes) # 0
    /\ unknown[p] = {} => /\ Len(batch[p]) = next[p] - 1
                          /\ \A n \in 1..Len(batch[p]) : batch[p][n] = n

Whole == \A p \in Procs : WholeOK(p)

LEMMA WholeFrame ==
    ASSUME SafeInv, [Next]_vars, NEW o \in Procs, WholeOK(o),
           txn'[o] = txn[o], at'[o] = at[o], next'[o] = next[o],
           batch'[o] = batch[o], unknown'[o] = unknown[o]
    PROVE  WholeOK(o)'
<1>1. txn[o] => at[o] \in 1..Len(wal)
  BY ProcFacts DEF ProcOK
<1>2. \A i \in 1..Len(wal) : wal'[i] = wal[i]
  BY LogStep
<1> QED
  BY <1>1, <1>2 DEF WholeOK

LEMMA WholeBegin ==
    ASSUME SafeInv, NEW p \in Procs, Begin(p), WholeOK(p)
    PROVE  WholeOK(p)'
<1>1. PICK i \in at[p] + 1..Len(wal) : wal[i].changes # <<>> /\ at' = [at EXCEPT ![p] = i]
  BY DEF Begin
<1>2. /\ at \in [Procs -> Positions] /\ txn \in [Procs -> BOOLEAN] /\ wal \in Seq(Commits)
      /\ at[p] \in Nat /\ Len(wal) \in Nat
  BY StoreFacts, ProcFacts DEF TypeOK
<1>3. wal[i] \in Commits
  <2>1. i \in 1..Len(wal)
    BY <1>2
  <2> QED
    BY <1>2, <2>1
<1>4. Len(wal[i].changes) # 0
  <2>1. wal[i].changes \in Seq(Tables)
    BY <1>3 DEF Commits
  <2> QED
    BY <1>1, <2>1, EmptySeq
<1>5. at'[p] = i /\ UNCHANGED <<wal, next, batch, unknown>>
  BY <1>1, <1>2 DEF Begin, tenant
<1> QED
  BY <1>4, <1>5 DEF WholeOK

LEMMA WholeReceive ==
    ASSUME SafeInv, NEW p \in Procs, Receive(p), WholeOK(p)
    PROVE  WholeOK(p)'
<1>1. /\ batch \in [Procs -> Seq(Nat)] /\ next \in [Procs -> Nat \ {0}]
      /\ unknown \in [Procs -> SUBSET Nat] /\ batch[p] \in Seq(Nat) /\ next[p] \in Nat \ {0}
  BY StoreFacts DEF TypeOK
<1>2. txn[p] /\ UNCHANGED <<wal, at, txn>> /\ next' = [next EXCEPT ![p] = @ + 1]
  BY DEF Receive, tenant
<1>3. CASE wal[at[p]].changes[next[p]] \in catalog[p]
  <2>1. batch' = [batch EXCEPT ![p] = Append(@, next[p])] /\ UNCHANGED unknown
    BY <1>3 DEF Receive
  <2>2. batch'[p] = Append(batch[p], next[p]) /\ next'[p] = next[p] + 1
    BY <1>1, <1>2, <2>1
  <2>3. /\ Len(batch[p]) \in Nat /\ Len(batch'[p]) = Len(batch[p]) + 1
        /\ \A n \in 1..Len(batch[p]) : batch'[p][n] = batch[p][n]
        /\ batch'[p][Len(batch[p]) + 1] = next[p]
    BY <1>1, <2>2
  <2>4. \A n \in 1..Len(batch'[p]) : n \in 1..Len(batch[p]) \/ n = Len(batch[p]) + 1
    BY <2>3
  <2> QED
    BY <1>1, <1>2, <2>1, <2>2, <2>3, <2>4 DEF WholeOK
<1>4. CASE wal[at[p]].changes[next[p]] \notin catalog[p]
  <2>1. unknown'[p] = unknown[p] \cup {next[p]}
    BY <1>1, <1>4 DEF Receive
  <2> QED
    BY <1>2, <2>1 DEF WholeOK
<1> QED
  BY <1>3, <1>4

LEMMA WholeStep ==
    ASSUME SafeInv, Whole, [Next]_vars
    PROVE  Whole'
<1> SUFFICES ASSUME NEW o \in Procs PROVE WholeOK(o)'
  BY DEF Whole
<1>0. /\ WholeOK(o)
      /\ at \in [Procs -> Positions] /\ txn \in [Procs -> BOOLEAN]
      /\ next \in [Procs -> Nat \ {0}] /\ batch \in [Procs -> Seq(Nat)]
      /\ unknown \in [Procs -> SUBSET Nat]
  BY StoreFacts DEF Whole, TypeOK
<1> DEFINE Same == /\ txn'[o] = txn[o] /\ at'[o] = at[o] /\ next'[o] = next[o]
                   /\ batch'[o] = batch[o] /\ unknown'[o] = unknown[o]
<1>1. CASE Same
  BY <1>0, <1>1, WholeFrame
<1>2. CASE UNCHANGED <<at, txn, next, batch, unknown>>
  BY <1>1, <1>2
<1>3. ASSUME NEW p \in Procs, \/ Disconnected(p)
                             \/ Write(p)
      PROVE  WholeOK(o)'
  <2>1. CASE o = p
    <3>1. ~txn'[o] /\ next'[o] = 1 /\ batch'[o] = <<>> /\ Len(<<>>) = 0
      BY <1>0, <1>3, <2>1 DEF Disconnected, Write
    <3> QED
      BY <3>1 DEF WholeOK
  <2>2. CASE o # p
    <3>1. Same
      BY <1>0, <1>3, <2>2 DEF Disconnected, Write
    <3> QED
      BY <1>1, <3>1
  <2> QED
    BY <2>1, <2>2
<1>4. ASSUME NEW p \in Procs, Connect(p)
      PROVE  WholeOK(o)'
  <2>1. CASE o = p
    <3>1. ~txn[o]
      BY <1>4, <2>1, ProcFacts DEF ProcOK, Connect
    <3>2. UNCHANGED <<txn, next, batch, unknown>>
      BY <1>4 DEF Connect
    <3> QED
      BY <1>0, <3>1, <3>2 DEF WholeOK
  <2>2. CASE o # p
    BY <1>0, <1>1, <1>4, <2>2 DEF Connect
  <2> QED
    BY <2>1, <2>2
<1>5. ASSUME NEW p \in Procs, Begin(p) \/ Receive(p)
      PROVE  WholeOK(o)'
  <2>1. CASE o = p
    BY <1>0, <1>5, <2>1, WholeBegin, WholeReceive
  <2>2. CASE o # p
    <3>1. CASE Begin(p)
      <4>1. Same
        BY <1>0, <2>2, <3>1 DEF Begin
      <4> QED
        BY <1>1, <4>1
    <3>2. CASE Receive(p)
      <4>1. batch'[o] = batch[o] /\ unknown'[o] = unknown[o]
        <5>1. CASE wal[at[p]].changes[next[p]] \in catalog[p]
          BY <1>0, <2>2, <3>2, <5>1 DEF Receive
        <5>2. CASE wal[at[p]].changes[next[p]] \notin catalog[p]
          BY <1>0, <2>2, <3>2, <5>2 DEF Receive
        <5> QED
          BY <5>1, <5>2
      <4>2. Same
        BY <1>0, <2>2, <3>2, <4>1 DEF Receive
      <4> QED
        BY <1>1, <4>2
    <3> QED
      BY <1>5, <3>1, <3>2
  <2> QED
    BY <2>1, <2>2
<1>6. CASE Tenant
  BY <1>2, <1>6 DEF Tenant, Commit, MarkUndo, Track, Untrack, stream
<1>7. ASSUME NEW p \in Procs, Boot(p) \/ Ack(p) \/ (\E r \in Refreshers : Refresh(p, r)) \/ Break(p)
      PROVE  UNCHANGED <<at, txn, next, batch, unknown>>
  BY <1>7 DEF Boot, Ack, Refresh, Break, stream
<1>8. ASSUME NEW p \in Procs, Process(p)
      PROVE  WholeOK(o)'
  BY <1>2, <1>3, <1>4, <1>5, <1>7, <1>8 DEF Process, Disconnect
<1>9. CASE Faults
  <2>1. CASE TenantRestart
    BY <1>2, <2>1 DEF TenantRestart
  <2>2. ASSUME NEW p \in Procs, WriteError(p) \/ Crash(p)
        PROVE  Disconnected(p)
    BY <2>2 DEF WriteError, Crash
  <2> QED
    BY <1>2, <1>3, <1>7, <1>9, <2>1, <2>2 DEF Faults
<1>10. CASE UNCHANGED vars
  BY <1>2, <1>10 DEF vars, stream
<1> QED
  BY <1>6, <1>8, <1>9, <1>10 DEF Next

(* The refinement mapping. *)
CountsOf(w) == [i \in 1..Len(w) |-> Len(w[i].changes)]
CopiedOf(h) == [n \in 1..Len(h) |-> <<h[n].lsn, h[n].idx>>]
Counts == CountsOf(wal)
Copied == CopiedOf(hist)

LEMMA CountsType ==
    ASSUME NEW w \in Seq(Commits)
    PROVE  CountsOf(w) \in Seq(Nat) /\ Len(CountsOf(w)) = Len(w) /\ Len(w) \in Nat
<1>1. Len(w) \in Nat /\ \A i \in 1..Len(w) : w[i] \in Commits
  OBVIOUS
<1>2. \A i \in 1..Len(w) : Len(w[i].changes) \in Nat
  BY <1>1 DEF Commits
<1> QED
  BY <1>1, <1>2 DEF CountsOf

LEMMA CopiedType ==
    ASSUME NEW h \in Seq(HistoryRows)
    PROVE  CopiedOf(h) \in Seq(Nat \X Nat) /\ Len(CopiedOf(h)) = Len(h) /\ Len(h) \in Nat
<1>1. Len(h) \in Nat /\ \A n \in 1..Len(h) : h[n] \in HistoryRows
  OBVIOUS
<1>2. \A n \in 1..Len(h) : <<h[n].lsn, h[n].idx>> \in Nat \X Nat
  BY <1>1 DEF HistoryRows
<1> QED
  BY <1>1, <1>2 DEF CopiedOf

LEMMA MappedTypes ==
    ASSUME TypeOK, TypeOK'
    PROVE  /\ Counts \in Seq(Nat) /\ Len(Counts) = Len(wal) /\ Len(wal) \in Nat
           /\ Counts' \in Seq(Nat) /\ Len(Counts') = Len(wal') /\ Len(wal') \in Nat
           /\ Copied \in Seq(Nat \X Nat) /\ Len(Copied) = Len(hist) /\ Len(hist) \in Nat
           /\ Copied' \in Seq(Nat \X Nat) /\ Len(Copied') = Len(hist') /\ Len(hist') \in Nat
<1>1. wal \in Seq(Commits) /\ wal' \in Seq(Commits)
      /\ hist \in Seq(HistoryRows) /\ hist' \in Seq(HistoryRows)
  BY DEF TypeOK
<1> QED
  BY <1>1, CountsType, CopiedType DEF Counts, Copied

LEMMA CommitMaps ==
    ASSUME SafeInv, TypeOK', NEW c, NEW u, Commit(c, u)
    PROVE  Log!Commit
<1>1. wal \in Seq(Commits) /\ wal' = Append(wal, [changes |-> c, undo |-> u])
      /\ UNCHANGED <<cursor, hist>>
  BY StoreFacts DEF Commit
<1>2. /\ Len(wal) \in Nat /\ Len(wal') = Len(wal) + 1
      /\ \A i \in 1..Len(wal) : wal'[i] = wal[i]
  BY <1>1
<1>3. /\ Counts \in Seq(Nat) /\ Len(Counts) = Len(wal)
      /\ Counts' \in Seq(Nat) /\ Len(Counts') = Len(wal')
  BY MappedTypes, StoreFacts
<1>4. \A i \in 1..Len(Counts) : Counts'[i] = Counts[i]
  <2>1. \A i \in 1..Len(wal) : i \in 1..Len(wal')
    BY <1>2
  <2> QED
    BY <1>2, <1>3, <2>1 DEF Counts, CountsOf
<1>5. SubSeq(Counts', 1, Len(Counts)) = Counts
  <2> DEFINE old == Counts
             new == Counts'
  <2>1. old \in Seq(Nat) /\ new \in Seq(Nat) /\ Len(old) \in Nat /\ Len(new) = Len(old) + 1
        /\ \A i \in 1..Len(old) : new[i] = old[i]
    BY <1>2, <1>3, <1>4
  <2> HIDE DEF old, new
  <2>2. \A i \in 1..Len(old) : new[i] \in Nat
    BY <2>1
  <2>3. /\ SubSeq(new, 1, Len(old)) \in Seq(Nat)
        /\ Len(SubSeq(new, 1, Len(old))) = Len(old)
        /\ \A i \in 1..Len(old) : SubSeq(new, 1, Len(old))[i] = new[i]
    BY <2>1, <2>2
  <2>4. SubSeq(new, 1, Len(old)) = old
    BY <2>1, <2>3, SeqEqual
  <2> QED
    BY <2>4 DEF old, new
<1>6. UNCHANGED Copied
  BY <1>1 DEF Copied, CopiedOf
<1> QED
  BY <1>1, <1>2, <1>3, <1>5, <1>6 DEF Log!Commit, Counts, CountsOf, Copied, CopiedOf

LEMMA WriteMaps ==
    ASSUME SafeInv, Whole, TypeOK', NEW p \in Procs, CommitReceived(p), StoreCommit(p),
           UNCHANGED wal, NothingDropped', ~UNCHANGED store
    PROVE  Log!Copy
<1>1. /\ at[p] \in 1..Len(wal) /\ cursor < at[p] /\ cursor' = at[p]
      /\ dropped' = dropped \cup {<<at[p], j>> : j \in unknown[p]}
      /\ Len(hist) \in Nat /\ Len(batch[p]) \in Nat
      /\ Len(hist') = Len(hist) + Len(batch[p])
      /\ \A n \in 1..Len(hist) : hist'[n] = hist[n]
      /\ \A n \in 1..Len(batch[p]) :
           hist'[Len(hist) + n].lsn = at[p] /\ hist'[Len(hist) + n].idx = batch[p][n]
  BY StoreWrites
<1>2. unknown[p] = {}
  BY <1>1 DEF NothingDropped
<1> DEFINE c == at[p]
           size == Len(wal[c].changes)
<1>3. /\ txn[p] /\ next[p] > size /\ next[p] \in Nat \ {0} /\ next[p] <= size + 1
      /\ link[p] # "none"
      /\ \A i \in cursor + 1..c : wal[i].changes = <<>> \/ i = c
  <2>1. ProcOK(p) /\ next[p] \in Nat \ {0} /\ txn[p] /\ link[p] # "none" /\ next[p] > size
    BY ProcFacts DEF CommitReceived
  <2> QED
    BY <2>1 DEF ProcOK
<1>4. size \in Nat
  <2>1. wal[c] \in Commits
    BY <1>1, StoreFacts
  <2> QED
    BY <2>1 DEF Commits
<1>5. /\ size # 0 /\ Len(batch[p]) = size
      /\ \A n \in 1..size : batch[p][n] = n
  <2>1. WholeOK(p)
    BY DEF Whole
  <2>2. size # 0 /\ Len(batch[p]) = next[p] - 1 /\ \A n \in 1..Len(batch[p]) : batch[p][n] = n
    BY <1>2, <1>3, <2>1 DEF WholeOK
  <2>3. Len(batch[p]) = size
    BY <1>3, <1>4, <2>2
  <2> QED
    BY <2>2, <2>3
<1>6. /\ Counts \in Seq(Nat) /\ Len(Counts) = Len(wal) /\ Len(wal) \in Nat
      /\ Copied \in Seq(Nat \X Nat) /\ Len(Copied) = Len(hist)
      /\ Copied' \in Seq(Nat \X Nat) /\ Len(Copied') = Len(hist')
  BY MappedTypes, StoreFacts
<1>7. Counts[c] = size /\ UNCHANGED Counts
  BY <1>1 DEF Counts, CountsOf
<1>8. c \in cursor + 1..Len(Counts) /\ c \in Nat /\ cursor \in Nat
  BY <1>1, <1>6, StoreFacts, ProcFacts
<1>9. \A b \in cursor + 1..c - 1 : Counts[b] = 0
  <2>1. ASSUME NEW b \in cursor + 1..c - 1
        PROVE  Counts[b] = 0
    <3>1. b \in cursor + 1..c /\ b # c /\ b \in 1..Len(wal)
      BY <1>6, <1>8
    <3>2. Counts[b] = Len(<<>>)
      BY <1>3, <3>1 DEF Counts, CountsOf
    <3> QED
      BY <3>2
  <2> QED
    BY <2>1
<1> DEFINE new == [n \in 1..size |-> <<c, n>>]
<1>10. Copied' = Copied \o new
  <2>1. \A n \in 1..Len(hist) : Copied'[n] = Copied[n]
    <3>1. \A n \in 1..Len(hist) : n \in 1..Len(hist')
      BY <1>1
    <3> QED
      BY <1>1, <3>1 DEF Copied, CopiedOf
  <2>2. \A n \in 1..size : Copied'[Len(hist) + n] = <<c, n>>
    <3>1. \A n \in 1..size : Len(hist) + n \in 1..Len(hist')
      BY <1>1, <1>4, <1>5
    <3> QED
      BY <1>1, <1>5, <3>1 DEF Copied, CopiedOf
  <2>3. new \in Seq(Nat \X Nat) /\ Len(new) = size /\ \A n \in 1..size : new[n] = <<c, n>>
    <3>1. \A n \in 1..size : <<c, n>> \in Nat \X Nat
      BY <1>8
    <3> HIDE DEF c, size
    <3> QED
      BY <1>4, <3>1
  <2> DEFINE a == Copied
             z == Copied'
  <2>4. /\ a \in Seq(Nat \X Nat) /\ z \in Seq(Nat \X Nat) /\ Len(a) \in Nat
        /\ Len(z) = Len(a) + size
        /\ \A n \in 1..Len(a) : z[n] = a[n]
        /\ \A n \in 1..size : z[Len(a) + n] = <<c, n>>
    BY <1>1, <1>5, <1>6, <2>1, <2>2
  <2> HIDE DEF a, z, new, c, size
  <2>5. /\ a \o new \in Seq(Nat \X Nat) /\ Len(a \o new) = Len(a) + size
        /\ \A n \in 1..Len(a) : (a \o new)[n] = a[n]
        /\ \A n \in 1..size : (a \o new)[Len(a) + n] = <<c, n>>
    <3>1. a \o new \in Seq(Nat \X Nat)
      BY <2>3, <2>4, ConcatProperties
    <3>2. /\ Len(a \o new) = Len(a) + Len(new)
          /\ \A n \in 1..Len(a) : (a \o new)[n] = a[n]
          /\ \A n \in 1..Len(new) : (a \o new)[Len(a) + n] = new[n]
      BY <2>3, <2>4, ConcatElements
    <3> QED
      BY <2>3, <3>1, <3>2
  <2>6. ASSUME NEW n \in 1..Len(z)
        PROVE  z[n] = (a \o new)[n]
    <3>1. CASE n \in 1..Len(a)
      BY <2>4, <2>5, <3>1
    <3>2. CASE n \notin 1..Len(a)
      <4>1. n - Len(a) \in 1..size /\ n = Len(a) + (n - Len(a))
        BY <1>4, <2>4, <3>2
      <4>2. PICK k \in 1..size : n = Len(a) + k
        BY <4>1
      <4> QED
        BY <2>4, <2>5, <4>2
    <3> QED
      BY <3>1, <3>2
  <2>7. z = a \o new
    BY <2>4, <2>5, <2>6, SeqEqual
  <2> QED
    BY <2>7 DEF a, z
<1>11. /\ Counts[c] # 0 /\ cursor' = c
       /\ Copied' = Copied \o [n \in 1..Counts[c] |-> <<c, n>>]
  BY <1>1, <1>5, <1>7, <1>10
<1> HIDE DEF size, new
<1> QED
  BY <1>7, <1>8, <1>9, <1>11, Zenon DEF Log!Copy, Counts, CountsOf, Copied, CopiedOf

LEMMA StepMaps ==
    ASSUME SafeInv, Whole, TypeOK', [Next]_vars, NothingDropped'
    PROVE  [Log!Next]_Log!vars
<1>1. CASE UNCHANGED <<wal, cursor, hist>>
  BY <1>1 DEF Log!vars
<1>2. ASSUME NEW n \in 0..MaxChanges, NEW c \in [1..n -> published], NEW u \in BOOLEAN, Commit(c, u)
      PROVE  Log!Next
  BY <1>2, CommitMaps DEF Log!Next
<1>3. ASSUME NEW p \in Procs, CommitReceived(p), StoreCommit(p), UNCHANGED wal
      PROVE  Log!Next \/ UNCHANGED store
  BY <1>3, WriteMaps DEF Log!Next
<1>4. (\E n \in 0..MaxChanges : \E c \in [1..n -> published], u \in BOOLEAN : Commit(c, u))
      => UNCHANGED <<cursor, hist>>
  BY DEF Commit
<1> QED
  BY <1>1, <1>2, <1>3, <1>4, WhoWrites DEF store

(* As long as no write leaves out a change, history is the copy of the       *)
(* tenant's commits that the undo engine counts on: every step of tenant,    *)
(* processes and faults is a commit, the copy of one whole commit, or no     *)
(* change to either.                                                         *)
THEOREM CaptureImplementsHistoryLog == Spec /\ []NothingDropped => ImplementsHistoryLog
<1>1. Init => Log!Init
  <2> SUFFICES ASSUME Init PROVE Log!Init
    OBVIOUS
  <2>1. TypeOK
    BY TypeCorrectInit
  <2>2. Counts = <<>> /\ Copied = <<>>
    <3>1. Len(wal) = 0 /\ Len(hist) = 0
      BY DEF Init
    <3> QED
      BY <2>1, <3>1, CountsType, CopiedType, EmptySeq DEF TypeOK, Counts, Copied
  <2> QED
    BY <2>2 DEF Init, Log!Init, Counts, CountsOf, Copied, CopiedOf
<1>2. Init => Whole
  <2>1. Len(<<>>) = 0
    OBVIOUS
  <2> QED
    BY <2>1 DEF Init, Whole, WholeOK
<1>3. TypeOK /\ Safe /\ Whole /\ [Next]_vars => Whole'
  BY WholeStep DEF SafeInv
<1>4. TypeOK /\ Safe /\ Whole /\ TypeOK' /\ [Next]_vars /\ NothingDropped' => [Log!Next]_Log!vars
  BY StepMaps DEF SafeInv
<1> QED
  BY <1>1, <1>2, <1>3, <1>4, Invariance, TypeCorrect, PTL DEF Spec, ImplementsHistoryLog, Log!Spec

(* Where no call of track or untrack is made, nothing is ever left out. *)
THEOREM SteadyCaptureImplementsHistoryLog ==
    ASSUME MaxTrack = 0
    PROVE  Spec => ImplementsHistoryLog
<1> DEFINE NoCalls == changes = <<>>
<1>1. Init => NoCalls
  BY DEF Init
<1>2. NoCalls /\ [Next]_vars => NoCalls'
  <2>1. ASSUME changes = <<>>, NEW t \in Tables, Track(t) \/ Untrack(t)
        PROVE  FALSE
    BY <2>1 DEF Track, Untrack
  <2> QED
    BY <2>1, WhoTouches
<1>3. NoCalls /\ StableInv => NothingDropped
  <2> SUFFICES ASSUME changes = <<>>, StableInv, NEW d \in dropped PROVE FALSE
    BY DEF NothingDropped
  <2>1. wal[d[1]].changes[d[2]] \in Touched
    BY DEF StableInv, LeftOut
  <2> QED
    BY <2>1 DEF Touched
<1> HIDE DEF NoCalls
<1> QED
  BY <1>1, <1>2, <1>3, StableInvariance, CaptureImplementsHistoryLog, PTL DEF Spec

=============================================================================
