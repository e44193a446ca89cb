---------------------------- MODULE UndoEngineProofs ----------------------------
(***************************************************************************)
(* Proofs about UndoEngine, for every set of keys and of sessions and every *)
(* bound: type correctness, that the committed changes of every key form   *)
(* one chain from the initial row to the row in the table, and what an     *)
(* undo call leaves when it commits.                                       *)
(*                                                                         *)
(* The chain is an invariant because of what open writers hold: each one's *)
(* uncommitted changes chain from the committed table to its own view of   *)
(* it, and no two writers hold the same key, so a commit moves the table   *)
(* under no other writer's feet.                                           *)
(*                                                                         *)
(* A transaction's changes stand together in the log and are captured      *)
(* together (Blocks), so what a call plans for is all there is (Calls).    *)
(* Two transactions that were both clean when a call looked at them share  *)
(* no key (Disjoint): the last row of one would be a conflict of the       *)
(* other.  So each key goes back to the image before the first change of   *)
(* the one transaction that wrote it, and that image is what the changes   *)
(* not undone had made of the row, because every transaction found the row *)
(* that way (AsIfNeverRun): the row of the table alone would not do, the   *)
(* before-images have to be as if nothing undone had run, too.             *)
(***************************************************************************)
EXTENDS UndoEngine, OrderLemmas

-----------------------------------------------------------------------------
(* Changes q lead from the rows in first to the rows in last. *)
Linked(q, first, last) ==
    /\ \A j \in 1..Len(q) : (\A i \in 1..j - 1 : q[i].key # q[j].key)
           => q[j].before = first[q[j].key]
    /\ \A j \in 1..Len(q) : \A i \in 1..j - 1 :
           /\ q[i].key = q[j].key
           /\ \A m \in i + 1..j - 1 : q[m].key # q[i].key
           => q[j].before = q[i].after
    /\ \A j \in 1..Len(q) : (\A i \in j + 1..Len(q) : q[i].key # q[j].key)
           => last[q[j].key] = q[j].after
    /\ \A k \in Keys : (\A j \in 1..Len(q) : q[j].key # k) => last[k] = first[k]

(* No changes lead from rows to themselves. *)
LEMMA LinkedEmpty ==
    ASSUME NEW first, NEW last, \A k \in Keys : last[k] = first[k]
    PROVE  Linked(<<>>, first, last)
BY DEF Linked

(* A change whose before-image is the row it replaces extends a chain. *)
LEMMA LinkedAppend ==
    ASSUME NEW q \in Seq(Entries), NEW first, NEW last, NEW next, NEW e \in Entries,
           Linked(q, first, last),
           e.before = last[e.key],
           next[e.key] = e.after,
           \A k \in Keys \ {e.key} : next[k] = last[k]
    PROVE  Linked(Append(q, e), first, next)
<1> DEFINE r == Append(q, e)
<1>1. /\ Len(q) \in Nat
      /\ Len(r) = Len(q) + 1
      /\ r[Len(q) + 1] = e
      /\ \A i \in 1..Len(q) : r[i] = q[i] /\ q[i] \in Entries
  OBVIOUS
<1> HIDE DEF r
<1>2. ASSUME NEW j \in 1..Len(r), \A i \in 1..j - 1 : r[i].key # r[j].key
      PROVE  r[j].before = first[r[j].key]
  <2>1. CASE j = Len(q) + 1
    <3>1. \A i \in 1..Len(q) : q[i].key # e.key
      BY <1>1, <1>2, <2>1
    <3>2. e.key \in Keys
      BY DEF Entries
    <3>3. last[e.key] = first[e.key]
      BY <3>1, <3>2 DEF Linked
    <3> QED
      BY <1>1, <2>1, <3>3
  <2>2. CASE j \in 1..Len(q)
    BY <1>1, <1>2, <2>2 DEF Linked
  <2> QED
    BY <1>1, <2>1, <2>2
<1>3. ASSUME NEW j \in 1..Len(r), NEW i \in 1..j - 1, r[i].key = r[j].key,
             \A m \in i + 1..j - 1 : r[m].key # r[i].key
      PROVE  r[j].before = r[i].after
  <2>1. CASE j = Len(q) + 1
    <3>1. i \in 1..Len(q) /\ q[i].key = e.key
      BY <1>1, <1>3, <2>1
    <3>2. \A m \in i + 1..Len(q) : q[m].key # q[i].key
      BY <1>1, <1>3, <2>1
    <3>3. last[q[i].key] = q[i].after
      BY <3>1, <3>2 DEF Linked
    <3> QED
      BY <1>1, <2>1, <3>1, <3>3
  <2>2. CASE j \in 1..Len(q)
    <3>1. i \in 1..Len(q) /\ r[i] = q[i] /\ r[j] = q[j] /\ q[i].key = q[j].key
      BY <1>1, <1>3, <2>2
    <3>2. \A m \in i + 1..j - 1 : q[m].key # q[i].key
      BY <1>1, <1>3, <2>2, <3>1
    <3> QED
      BY <2>2, <3>1, <3>2 DEF Linked
  <2> QED
    BY <1>1, <2>1, <2>2
<1>4. ASSUME NEW j \in 1..Len(r), \A i \in j + 1..Len(r) : r[i].key # r[j].key
      PROVE  next[r[j].key] = r[j].after
  <2>1. CASE j = Len(q) + 1
    BY <1>1, <2>1
  <2>2. CASE j \in 1..Len(q)
    <3>1. q[j].key # e.key /\ q[j].key \in Keys
      BY <1>1, <1>4, <2>2 DEF Entries
    <3>2. \A i \in j + 1..Len(q) : q[i].key # q[j].key
      BY <1>1, <1>4, <2>2
    <3>3. last[q[j].key] = q[j].after
      BY <2>2, <3>2 DEF Linked
    <3> QED
      BY <1>1, <2>2, <3>1, <3>3
  <2> QED
    BY <1>1, <2>1, <2>2
<1>5. ASSUME NEW k \in Keys, \A j \in 1..Len(r) : r[j].key # k
      PROVE  next[k] = first[k]
  <2>1. k # e.key /\ \A j \in 1..Len(q) : q[j].key # k
    BY <1>1, <1>5
  <2>2. last[k] = first[k]
    BY <2>1 DEF Linked
  <2> QED
    BY <2>1, <2>2
<1> QED
  BY <1>2, <1>3, <1>4, <1>5 DEF Linked, r

(* Chains compose. *)
LEMMA LinkedConcat ==
    ASSUME NEW p \in Seq(Entries), NEW q \in Seq(Entries),
           NEW first, NEW middle, NEW last,
           Linked(p, first, middle), Linked(q, middle, last)
    PROVE  Linked(p \o q, first, last)
<1> DEFINE r == p \o q
           n == Len(p)
<1>1. /\ n \in Nat /\ Len(q) \in Nat
      /\ Len(r) = n + Len(q)
      /\ \A i \in 1..n : r[i] = p[i] /\ p[i] \in Entries
      /\ \A i \in 1..Len(q) : r[n + i] = q[i] /\ q[i] \in Entries
  OBVIOUS
<1>2. \A j \in 1..Len(r) : j \in 1..n \/ (j - n \in 1..Len(q) /\ r[j] = q[j - n])
  <2> TAKE j \in 1..Len(r)
  <2>1. CASE j <= n
    BY <1>1, <2>1
  <2>2. CASE j > n
    <3>1. j - n \in 1..Len(q) /\ n + (j - n) = j
      BY <1>1, <2>2
    <3>2. r[n + (j - n)] = q[j - n]
      BY <1>1, <3>1
    <3> QED
      BY <3>1, <3>2
  <2> QED
    BY <1>1, <2>1, <2>2
<1>3. \A j \in 1..Len(r) : r[j].key \in Keys
  BY <1>1, <1>2 DEF Entries
<1> HIDE DEF r, n
<1>4. ASSUME NEW j \in 1..Len(r), \A i \in 1..j - 1 : r[i].key # r[j].key
      PROVE  r[j].before = first[r[j].key]
  <2>1. CASE j \in 1..n
    <3>1. r[j] = p[j] /\ \A i \in 1..j - 1 : i \in 1..n /\ r[i] = p[i]
      BY <1>1, <2>1
    <3>2. \A i \in 1..j - 1 : p[i].key # p[j].key
      BY <1>4, <3>1
    <3>3. p[j].before = first[p[j].key]
      BY <2>1, <3>2 DEF Linked, n
    <3> QED
      BY <3>1, <3>3
  <2>2. CASE j - n \in 1..Len(q) /\ r[j] = q[j - n]
    <3>1. \A i \in 1..(j - n) - 1 : q[i].key # q[j - n].key
      <4> TAKE i \in 1..(j - n) - 1
      <4>1. n + i \in 1..j - 1 /\ i \in 1..Len(q)
        BY <1>1, <2>2
      <4> QED
        BY <1>1, <1>4, <2>2, <4>1
    <3>2. \A i \in 1..n : p[i].key # q[j - n].key
      BY <1>1, <1>4, <2>2
    <3>3. q[j - n].before = middle[q[j - n].key]
      BY <2>2, <3>1 DEF Linked
    <3>4. middle[r[j].key] = first[r[j].key]
      BY <1>3, <2>2, <3>2 DEF Linked, n
    <3> QED
      BY <2>2, <3>3, <3>4
  <2> QED
    BY <1>2, <2>1, <2>2
<1>5. ASSUME NEW j \in 1..Len(r), NEW i \in 1..j - 1, r[i].key = r[j].key,
             \A m \in i + 1..j - 1 : r[m].key # r[i].key
      PROVE  r[j].before = r[i].after
  <2>1. CASE j \in 1..n
    <3>1. i \in 1..n /\ r[i] = p[i] /\ r[j] = p[j]
      BY <1>1, <2>1
    <3>2. \A m \in i + 1..j - 1 : p[m].key # p[i].key
      BY <1>1, <1>5, <2>1, <3>1
    <3> QED
      BY <1>5, <2>1, <3>1, <3>2 DEF Linked, n
  <2>2. CASE j - n \in 1..Len(q) /\ r[j] = q[j - n] /\ i \in 1..n
    <3>1. \A m \in i + 1..n : p[m].key # p[i].key
      BY <1>1, <1>5, <2>2
    <3>2. middle[p[i].key] = p[i].after
      BY <2>2, <3>1 DEF Linked, n
    <3>3. \A m \in 1..(j - n) - 1 : q[m].key # q[j - n].key
      <4> TAKE m \in 1..(j - n) - 1
      <4>1. n + m \in i + 1..j - 1 /\ m \in 1..Len(q)
        BY <1>1, <2>2
      <4> QED
        BY <1>1, <1>5, <2>2, <4>1
    <3>4. q[j - n].before = middle[q[j - n].key]
      BY <2>2, <3>3 DEF Linked
    <3> QED
      BY <1>1, <1>5, <2>2, <3>2, <3>4
  <2>3. CASE j - n \in 1..Len(q) /\ r[j] = q[j - n] /\ i - n \in 1..Len(q) /\ r[i] = q[i - n]
    <3>1. i - n \in 1..(j - n) - 1
      BY <1>1, <2>3
    <3>2. \A m \in (i - n) + 1..(j - n) - 1 : q[m].key # q[i - n].key
      <4> TAKE m \in (i - n) + 1..(j - n) - 1
      <4>1. n + m \in i + 1..j - 1 /\ m \in 1..Len(q)
        BY <1>1, <2>3
      <4> QED
        BY <1>1, <1>5, <2>3, <4>1
    <3>3. q[i - n].key = q[j - n].key
      BY <1>5, <2>3
    <3>4. q[j - n].before = q[i - n].after
      BY <2>3, <3>1, <3>2, <3>3 DEF Linked
    <3> QED
      BY <2>3, <3>4
  <2>4. i \in 1..Len(r)
    BY <1>1
  <2> QED
    BY <1>2, <2>1, <2>2, <2>3, <2>4
<1>6. ASSUME NEW j \in 1..Len(r), \A i \in j + 1..Len(r) : r[i].key # r[j].key
      PROVE  last[r[j].key] = r[j].after
  <2>1. CASE j \in 1..n
    <3>1. \A i \in 1..Len(q) : q[i].key # p[j].key
      <4> TAKE i \in 1..Len(q)
      <4>1. n + i \in j + 1..Len(r)
        BY <1>1, <2>1
      <4> QED
        BY <1>1, <1>6, <2>1, <4>1
    <3>2. last[r[j].key] = middle[r[j].key]
      <4>1. \A i \in 1..Len(q) : q[i].key # r[j].key
        BY <1>1, <2>1, <3>1
      <4>2. r[j].key \in Keys
        BY <1>3
      <4> QED
        BY <4>1, <4>2 DEF Linked
    <3>3. \A i \in j + 1..n : p[i].key # p[j].key
      BY <1>1, <1>6, <2>1
    <3>4. middle[p[j].key] = p[j].after
      BY <2>1, <3>3 DEF Linked, n
    <3> QED
      BY <1>1, <2>1, <3>2, <3>4
  <2>2. CASE j - n \in 1..Len(q) /\ r[j] = q[j - n]
    <3>1. \A i \in (j - n) + 1..Len(q) : q[i].key # q[j - n].key
      <4> TAKE i \in (j - n) + 1..Len(q)
      <4>1. n + i \in j + 1..Len(r) /\ i \in 1..Len(q)
        BY <1>1, <2>2
      <4> QED
        BY <1>1, <1>6, <2>2, <4>1
    <3> QED
      BY <2>2, <3>1 DEF Linked
  <2> QED
    BY <1>2, <2>1, <2>2
<1>7. ASSUME NEW k \in Keys, \A j \in 1..Len(r) : r[j].key # k
      PROVE  last[k] = first[k]
  <2>1. \A j \in 1..n : p[j].key # k
    BY <1>1, <1>7
  <2>2. \A j \in 1..Len(q) : q[j].key # k
    <3> TAKE j \in 1..Len(q)
    <3>1. n + j \in 1..Len(r)
      BY <1>1
    <3> QED
      BY <1>1, <1>7, <3>1
  <2> QED
    BY <2>1, <2>2 DEF Linked, n
<1> QED
  BY <1>4, <1>5, <1>6, <1>7 DEF Linked, r

-----------------------------------------------------------------------------
(* The inductive invariant. *)

(* What a session has left to compensate is in the log. *)
LeftInLog == \A s \in Sessions : undo[s].left \subseteq 1..Len(log)

Chains ==
    /\ Linked(log, Initial, rows)
    /\ \A w \in Writers : Linked(pend[w], rows, [k \in Keys |-> View(w, k)])
    /\ \A w \in Writers : \A j \in 1..Len(pend[w]) : work[w][pend[w][j].key] # Free
    /\ \A w, o \in Writers : w # o =>
         \A k \in Keys : work[w][k] = Free \/ work[o][k] = Free

IInv == TypeOK /\ LeftInLog /\ Chains

(* A view of the table holds row images. *)
LEMMA ViewType ==
    ASSUME TypeOK, NEW w \in Writers, NEW k \in Keys
    PROVE  View(w, k) \in Images
BY DEF TypeOK, View

(* Changing a row under its lock keeps the types ... *)
LEMMA ChangeType ==
    ASSUME TypeOK, NEW w \in Writers, NEW k \in Keys, NEW image \in Images,
           Change(w, k, image)
    PROVE  /\ work' \in [Writers -> [Keys -> Images \cup {Free}]]
           /\ pend' \in [Writers -> Seq(Entries)]
<1> DEFINE e == [by |-> w, key |-> k, before |-> View(w, k), after |-> image]
<1>1. e \in Entries
  BY ViewType DEF Entries
<1>2. work' \in [Writers -> [Keys -> Images \cup {Free}]]
  BY DEF TypeOK, Change
<1>3. pend' = [pend EXCEPT ![w] = Append(pend[w], e)]
  BY DEF Change
<1> HIDE DEF e
<1>4. pend' \in [Writers -> Seq(Entries)]
  BY <1>1, <1>3 DEF TypeOK
<1> QED
  BY <1>2, <1>4

(* ... and the chains. *)
LEMMA ChangeChains ==
    ASSUME TypeOK, Chains, UndoAssumption,
           NEW w \in Writers, NEW k \in Keys, NEW image \in Images,
           ~Locked(w, k), Change(w, k, image), UNCHANGED <<rows, log>>
    PROVE  Chains'
<1> DEFINE e == [by |-> w, key |-> k, before |-> View(w, k), after |-> image]
<1>1. e \in Entries /\ e.key = k /\ e.before = View(w, k) /\ e.after = image
  BY ViewType DEF Entries
<1>2. work' = [work EXCEPT ![w][k] = image] /\ pend' = [pend EXCEPT ![w] = Append(pend[w], e)]
  BY DEF Change
<1>3. image # Free
  BY DEF UndoAssumption
<1>4. /\ \A o \in Writers \ {w} : work'[o] = work[o] /\ pend'[o] = pend[o]
      /\ \A j \in Keys \ {k} : work'[w][j] = work[w][j]
      /\ work'[w][k] = image
      /\ pend'[w] = Append(pend[w], e)
      /\ pend[w] \in Seq(Entries)
  BY <1>2 DEF TypeOK
<1> HIDE DEF e
<1>5. \A o \in Writers : Linked(pend'[o], rows', [j \in Keys |-> View(o, j)'])
  <2> TAKE o \in Writers
  <2>1. CASE o = w
    <3> DEFINE last == [j \in Keys |-> View(w, j)]
               next == [j \in Keys |-> View(w, j)']
    <3>1. next[e.key] = e.after /\ e.before = last[e.key]
      BY <1>1, <1>3, <1>4 DEF View
    <3>2. \A j \in Keys \ {e.key} : next[j] = last[j]
      BY <1>1, <1>4 DEF View
    <3>3. Linked(pend[w], rows, last)
      BY DEF Chains
    <3> HIDE DEF last, next
    <3>4. Linked(Append(pend[w], e), rows, next)
      BY <1>1, <1>4, <3>1, <3>2, <3>3, LinkedAppend
    <3> QED
      BY <1>4, <2>1, <3>4 DEF next
  <2>2. CASE o # w
    <3>1. \A j \in Keys : View(o, j)' = View(o, j)
      BY <1>4, <2>2 DEF View
    <3>2. [j \in Keys |-> View(o, j)'] = [j \in Keys |-> View(o, j)]
      BY <3>1
    <3>3. pend'[o] = pend[o] /\ rows' = rows
      BY <1>4, <2>2
    <3>4. Linked(pend[o], rows, [j \in Keys |-> View(o, j)])
      BY DEF Chains
    <3> QED
      BY <3>2, <3>3, <3>4
  <2> QED
    BY <2>1, <2>2
<1>6. \A o \in Writers : \A j \in 1..Len(pend'[o]) : work'[o][pend'[o][j].key] # Free
  <2> TAKE o \in Writers
  <2>1. CASE o # w
    BY <1>4, <2>1 DEF Chains
  <2>2. CASE o = w
    <3> TAKE j \in 1..Len(pend'[o])
    <3>1. CASE j = Len(pend[w]) + 1
      BY <1>1, <1>3, <1>4, <2>2, <3>1
    <3>2. CASE j \in 1..Len(pend[w])
      <4>1. pend'[o][j] = pend[w][j] /\ pend[w][j] \in Entries
        BY <1>4, <2>2, <3>2
      <4>2. work[w][pend[w][j].key] # Free /\ pend[w][j].key \in Keys
        BY <3>2, <4>1 DEF Chains, Entries
      <4> QED
        BY <1>3, <1>4, <2>2, <4>1, <4>2
    <3> QED
      BY <1>4, <2>2, <3>1, <3>2
  <2> QED
    BY <2>1, <2>2
<1>7. \A o, u \in Writers : o # u => \A j \in Keys : work'[o][j] = Free \/ work'[u][j] = Free
  BY <1>4 DEF Chains, Locked
<1>8. Linked(log', Initial, rows')
  BY DEF Chains
<1> QED
  BY <1>5, <1>6, <1>7, <1>8 DEF Chains

(* Dropping a writer's changes keeps the types and the chains. *)
LEMMA ReleaseKeeps ==
    ASSUME TypeOK, NEW w \in Writers, Release(w)
    PROVE  /\ work' \in [Writers -> [Keys -> Images \cup {Free}]]
           /\ pend' \in [Writers -> Seq(Entries)]
           /\ \A o \in Writers \ {w} : work'[o] = work[o] /\ pend'[o] = pend[o]
           /\ pend'[w] = <<>>
           /\ \A k \in Keys : work'[w][k] = Free
<1>1. <<>> \in Seq(Entries)
  OBVIOUS
<1> QED
  BY <1>1 DEF TypeOK, Release

LEMMA ReleaseChains ==
    ASSUME TypeOK, Chains, NEW w \in Writers, Release(w), UNCHANGED <<rows, log>>
    PROVE  Chains'
<1>1. /\ \A o \in Writers \ {w} : work'[o] = work[o] /\ pend'[o] = pend[o]
      /\ pend'[w] = <<>>
      /\ \A k \in Keys : work'[w][k] = Free
  BY ReleaseKeeps
<1>2. \A o \in Writers : Linked(pend'[o], rows', [j \in Keys |-> View(o, j)'])
  <2> TAKE o \in Writers
  <2>1. CASE o = w
    <3>1. \A k \in Keys : [j \in Keys |-> View(w, j)'][k] = rows'[k]
      BY <1>1 DEF View
    <3> QED
      BY <1>1, <2>1, <3>1, LinkedEmpty
  <2>2. CASE o # w
    <3>1. [j \in Keys |-> View(o, j)'] = [j \in Keys |-> View(o, j)]
      BY <1>1, <2>2 DEF View
    <3>2. pend'[o] = pend[o] /\ rows' = rows
      BY <1>1, <2>2
    <3>3. Linked(pend[o], rows, [j \in Keys |-> View(o, j)])
      BY DEF Chains
    <3> QED
      BY <3>1, <3>2, <3>3
  <2> QED
    BY <2>1, <2>2
<1>3. \A o \in Writers : \A j \in 1..Len(pend'[o]) : work'[o][pend'[o][j].key] # Free
  BY <1>1 DEF Chains
<1>4. \A o, u \in Writers : o # u => \A j \in Keys : work'[o][j] = Free \/ work'[u][j] = Free
  BY <1>1 DEF Chains
<1>5. Linked(log', Initial, rows')
  BY DEF Chains
<1> QED
  BY <1>2, <1>3, <1>4, <1>5 DEF Chains

(* Committing a writer's changes keeps the types ... *)
LEMMA PublishType ==
    ASSUME TypeOK, NEW w \in Writers, Publish(w)
    PROVE  /\ rows' \in [Keys -> Images]
           /\ log' \in Seq(Entries)
           /\ Len(log') = Len(log) + Len(pend[w])
           /\ Len(log) \in Nat /\ Len(pend[w]) \in Nat
           /\ work' \in [Writers -> [Keys -> Images \cup {Free}]]
           /\ pend' \in [Writers -> Seq(Entries)]
<1>1. pend[w] \in Seq(Entries) /\ log \in Seq(Entries) /\ log' = log \o pend[w]
  BY DEF TypeOK, Publish
<1>2. log' \in Seq(Entries) /\ Len(log') = Len(log) + Len(pend[w])
      /\ Len(log) \in Nat /\ Len(pend[w]) \in Nat
  BY <1>1
<1>3. rows' \in [Keys -> Images]
  BY ViewType DEF Publish
<1> QED
  BY <1>2, <1>3, ReleaseKeeps DEF Publish

(* ... and the chains: nobody else holds a key the writer changed. *)
LEMMA PublishChains ==
    ASSUME TypeOK, Chains, NEW w \in Writers, Publish(w)
    PROVE  Chains'
<1>1. /\ \A o \in Writers \ {w} : work'[o] = work[o] /\ pend'[o] = pend[o]
      /\ pend'[w] = <<>>
      /\ \A k \in Keys : work'[w][k] = Free
  BY ReleaseKeeps DEF Publish
<1>2. rows' = [k \in Keys |-> View(w, k)] /\ log' = log \o pend[w]
  BY DEF Publish
<1>3. Linked(log', Initial, rows')
  <2>1. log \in Seq(Entries) /\ pend[w] \in Seq(Entries)
    BY DEF TypeOK
  <2>2. Linked(log, Initial, rows) /\ Linked(pend[w], rows, [k \in Keys |-> View(w, k)])
    BY DEF Chains
  <2> QED
    BY <1>2, <2>1, <2>2, LinkedConcat
<1>4. \A o \in Writers : Linked(pend'[o], rows', [j \in Keys |-> View(o, j)'])
  <2> TAKE o \in Writers
  <2>1. CASE o = w
    <3>1. \A k \in Keys : [j \in Keys |-> View(w, j)'][k] = rows'[k]
      BY <1>1 DEF View
    <3> QED
      BY <1>1, <2>1, <3>1, LinkedEmpty
  <2>2. CASE o # w
    <3> DEFINE old == [j \in Keys |-> View(o, j)]
               new == [j \in Keys |-> View(o, j)']
    <3>1. \A k \in Keys : work[o][k] # Free =>
             rows'[k] = rows[k] /\ new[k] = old[k]
      BY <1>1, <1>2, <2>2 DEF View, Chains
    <3>2. \A k \in Keys : work[o][k] = Free => new[k] = rows'[k] /\ old[k] = rows[k]
      BY <1>1, <2>2 DEF View
    <3>3. pend'[o] = pend[o] /\ pend[o] \in Seq(Entries) /\ Linked(pend[o], rows, old)
      BY <1>1, <2>2 DEF Chains, TypeOK
    <3>4. \A j \in 1..Len(pend[o]) : pend[o][j].key \in Keys /\ work[o][pend[o][j].key] # Free
      <4> TAKE j \in 1..Len(pend[o])
      <4>1. pend[o][j] \in Entries
        BY <3>3
      <4>2. work[o][pend[o][j].key] # Free
        BY DEF Chains
      <4> QED
        BY <4>1, <4>2 DEF Entries
    <3> HIDE DEF old, new
    <3>5. Linked(pend[o], rows', new)
      BY <3>1, <3>2, <3>3, <3>4 DEF Linked
    <3> QED
      BY <3>3, <3>5 DEF new
  <2> QED
    BY <2>1, <2>2
<1>5. \A o \in Writers : \A j \in 1..Len(pend'[o]) : work'[o][pend'[o][j].key] # Free
  BY <1>1 DEF Chains
<1>6. \A o, u \in Writers : o # u => \A j \in Keys : work'[o][j] = Free \/ work'[u][j] = Free
  BY <1>1 DEF Chains
<1> QED
  BY <1>3, <1>4, <1>5, <1>6 DEF Chains

-----------------------------------------------------------------------------
(* Every step keeps the invariant. *)

LEMMA InitInv == UndoAssumption /\ Init => IInv
<1> SUFFICES ASSUME UndoAssumption, Init PROVE IInv
  OBVIOUS
<1>1. <<>> \in Seq(Entries) /\ Len(<<>>) = 0
  OBVIOUS
<1>2. TypeOK
  BY <1>1 DEF UndoAssumption, Init, NoCall, TypeOK, UndoCalls, Images
<1>3. LeftInLog
  BY DEF Init, NoCall, LeftInLog
<1>4. Linked(log, Initial, rows)
  BY LinkedEmpty DEF Init
<1>5. \A w \in Writers : Linked(pend[w], rows, [k \in Keys |-> View(w, k)])
  <2> TAKE w \in Writers
  <2>1. \A k \in Keys : [j \in Keys |-> View(w, j)][k] = rows[k]
    BY DEF Init, View
  <2> QED
    BY <2>1, LinkedEmpty DEF Init
<1> QED
  BY <1>1, <1>2, <1>3, <1>4, <1>5 DEF Init, IInv, Chains

LEMMA WriteInv ==
    ASSUME IInv, UndoAssumption, NEW t \in Txns, NEW k \in Keys,
           NEW image \in {t, NoRow}, Write(t, k, image)
    PROVE  IInv'
<1>1. t \in Writers /\ image \in Images
  BY DEF Writers, Images
<1>2. TypeOK'
  BY <1>1, ChangeType DEF IInv, TypeOK, Write
<1>3. Chains'
  BY <1>1, ChangeChains DEF IInv, Write
<1> QED
  BY <1>2, <1>3 DEF IInv, LeftInLog, Write

LEMMA CommitInv ==
    ASSUME IInv, NEW t \in Txns, Commit(t)
    PROVE  IInv'
<1>1. t \in Writers
  BY DEF Writers
<1>2. TypeOK'
  BY <1>1, PublishType DEF IInv, TypeOK, Commit
<1>3. LeftInLog'
  BY <1>1, PublishType DEF IInv, LeftInLog, Commit
<1>4. Chains'
  BY <1>1, PublishChains DEF IInv, Commit
<1> QED
  BY <1>2, <1>3, <1>4 DEF IInv

LEMMA RollbackInv ==
    ASSUME IInv, NEW t \in Txns, Rollback(t)
    PROVE  IInv'
<1>1. t \in Writers
  BY DEF Writers
<1>2. TypeOK'
  BY <1>1, ReleaseKeeps DEF IInv, TypeOK, Rollback
<1>3. Chains'
  BY <1>1, ReleaseChains DEF IInv, Rollback
<1> QED
  BY <1>2, <1>3 DEF IInv, LeftInLog, Rollback

LEMMA CaptureInv ==
    ASSUME IInv, Capture
    PROVE  IInv'
<1>1. TypeOK'
  BY DEF IInv, TypeOK, Capture
<1>2. Chains'
  BY DEF IInv, Chains, View, Capture
<1> QED
  BY <1>1, <1>2 DEF IInv, LeftInLog, Capture

LEMMA RecordReadInv ==
    ASSUME IInv, NEW r \in Txns, NEW w \in Txns, RecordRead(r, w)
    PROVE  IInv'
<1>1. TypeOK'
  BY DEF IInv, TypeOK, RecordRead
<1>2. Chains'
  BY DEF IInv, Chains, View, RecordRead
<1> QED
  BY <1>1, <1>2 DEF IInv, LeftInLog, RecordRead

LEMMA BeginUndoInv ==
    ASSUME IInv, UndoAssumption, NEW s \in Sessions, NEW mode \in Modes,
           NEW members \in SUBSET Recorded, NEW cohort \in BOOLEAN,
           BeginUndo(s, members, mode, cohort)
    PROVE  IInv'
<1>1. members \subseteq Txns /\ mode \in {"clean_only", "cascade", "targeted"}
  BY DEF Recorded, UndoAssumption
<1> DEFINE r == [undo[s] EXCEPT !.state = "active", !.members = members,
                               !.mode = mode, !.cohort = cohort]
<1>a. undo[s] \in UndoCalls /\ undo' = [undo EXCEPT ![s] = r]
  BY DEF IInv, TypeOK, BeginUndo
<1>b. r \in UndoCalls /\ r.left = undo[s].left
  BY <1>1, <1>a DEF UndoCalls
<1> HIDE DEF r
<1>2. undo' \in [Sessions -> UndoCalls] /\ undo'[s].left = undo[s].left
      /\ \A o \in Sessions \ {s} : undo'[o] = undo[o]
  BY <1>a, <1>b DEF IInv, TypeOK
<1>3. TypeOK'
  BY <1>2 DEF IInv, TypeOK, BeginUndo
<1>4. Chains'
  BY DEF IInv, Chains, View, BeginUndo
<1> QED
  BY <1>2, <1>3, <1>4 DEF IInv, LeftInLog, BeginUndo


(* The history rows of a transaction are in the log, its conflicts are       *)
(* application transactions.                                                 *)
LEMMA HistoryType ==
    ASSUME TypeOK
    PROVE  /\ \A t \in Txns : RowsOf(t) \subseteq 1..Len(log)
           /\ \A t \in Txns : AllConflicts(t) \subseteq Txns
<1>1. captured \in Nat /\ Len(log) \in Nat /\ captured <= Len(log)
  BY DEF TypeOK
<1>2. \A j \in 1..captured : log[j] \in Entries
  BY <1>1 DEF TypeOK
<1>3. \A j \in 1..captured : ~IsUndo(j) => log[j].by \in Txns
  BY <1>2 DEF Entries, Writers, IsUndo
<1>4. \A t \in Txns : WwConflicts(t) \subseteq Txns
  BY <1>3 DEF WwConflicts
<1> QED
  BY <1>1, <1>4 DEF RowsOf, AllConflicts

LEMMA PreviewInv ==
    ASSUME IInv, NEW s \in Sessions, Preview(s)
    PROVE  IInv'
<1>1. undo[s] \in UndoCalls /\ captured \in Nat
  BY DEF IInv, TypeOK
<1>2. PICK m \in undo[s].members :
        LET conflicts == AllConflicts(m)
            reversing == {m} \cup (IF undo[s].mode = "cascade" THEN conflicts ELSE {})
        IN  IF undo[s].mode = "clean_only" /\ conflicts # {}
            THEN undo' = [undo EXCEPT ![s].members = @ \ {m},
                                      ![s].skipped = @ \cup {m}]
            ELSE undo' = [undo EXCEPT
                     ![s].members = @ \ {m},
                     ![s].target = m,
                     ![s].seen = captured,
                     ![s].left = UNION {RowsOf(t) : t \in reversing},
                     ![s].reversed = @ \cup [txid: reversing, seen: {captured}]]
  BY DEF Preview
<1>3. m \in Txns
  BY <1>1, <1>2 DEF UndoCalls
<1> DEFINE conflicts == AllConflicts(m)
           reversing == {m} \cup (IF undo[s].mode = "cascade" THEN conflicts ELSE {})
           planned == UNION {RowsOf(t) : t \in reversing}
           new == [txid: reversing, seen: {captured}]
           skip == [undo[s] EXCEPT !.members = @ \ {m}, !.skipped = @ \cup {m}]
           plan == [undo[s] EXCEPT !.members = @ \ {m}, !.target = m, !.seen = captured,
                                   !.left = planned, !.reversed = @ \cup new]
<1>4. undo' = [undo EXCEPT ![s] = skip] \/ undo' = [undo EXCEPT ![s] = plan]
  BY <1>2 DEF IInv, TypeOK
<1>5. reversing \subseteq Txns
  BY <1>3, HistoryType DEF IInv
<1>6. planned \subseteq 1..Len(log) /\ planned \subseteq Nat
  <2> HIDE DEF reversing
  <2>1. \A t \in reversing : RowsOf(t) \subseteq 1..Len(log)
    BY <1>5, HistoryType DEF IInv
  <2> QED
    BY <2>1
<1>7. new \subseteq [txid: Txns, seen: Nat]
  BY <1>1, <1>5
<1> HIDE DEF planned, new
<1>8. skip \in UndoCalls /\ skip.left = undo[s].left
  BY <1>1, <1>3 DEF UndoCalls
<1>9. plan \in UndoCalls /\ plan.left = planned
  BY <1>1, <1>3, <1>6, <1>7 DEF UndoCalls
<1> HIDE DEF skip, plan
<1>10. undo' \in [Sessions -> UndoCalls]
       /\ undo'[s].left \subseteq 1..Len(log)
       /\ \A o \in Sessions \ {s} : undo'[o] = undo[o]
  BY <1>4, <1>6, <1>8, <1>9 DEF IInv, TypeOK, LeftInLog
<1>11. TypeOK'
  BY <1>10 DEF IInv, TypeOK, Preview
<1>12. LeftInLog'
  BY <1>10 DEF IInv, LeftInLog, Preview
<1>13. Chains'
  BY DEF IInv, Chains, View, Preview
<1> QED
  BY <1>11, <1>12, <1>13 DEF IInv

LEMMA CompensateInv ==
    ASSUME IInv, UndoAssumption, NEW s \in Sessions, Compensate(s)
    PROVE  IInv'
<1>1. PICK i \in undo[s].left :
        /\ ~Locked(s, log[i].key)
        /\ Change(s, log[i].key, log[i].before)
        /\ undo' = [undo EXCEPT ![s].left = @ \ {i}]
  BY DEF Compensate
<1>2. s \in Writers /\ log[i] \in Entries
  BY <1>1 DEF IInv, TypeOK, LeftInLog, Writers
<1>3. log[i].key \in Keys /\ log[i].before \in Images
  BY <1>2 DEF Entries
<1>4. undo' \in [Sessions -> UndoCalls]
  <2>1. undo[s] \in UndoCalls
    BY DEF IInv, TypeOK
  <2>2. [undo[s] EXCEPT !.left = @ \ {i}] \in UndoCalls
    BY <2>1 DEF UndoCalls
  <2> QED
    BY <1>1, <2>2 DEF IInv, TypeOK
<1>5. undo'[s].left \subseteq undo[s].left /\ \A o \in Sessions \ {s} : undo'[o] = undo[o]
  BY <1>1 DEF IInv, TypeOK, UndoCalls
<1>6. TypeOK'
  BY <1>1, <1>2, <1>3, <1>4, ChangeType DEF IInv, TypeOK, Compensate
<1>7. LeftInLog'
  BY <1>5 DEF IInv, LeftInLog, Compensate
<1>8. Chains'
  BY <1>1, <1>2, <1>3, ChangeChains DEF IInv, Compensate
<1> QED
  BY <1>6, <1>7, <1>8 DEF IInv

LEMMA AbortUndoInv ==
    ASSUME IInv, NEW s \in Sessions, AbortUndo(s)
    PROVE  IInv'
<1>1. s \in Writers
  BY DEF Writers
<1>2. undo' \in [Sessions -> UndoCalls]
      /\ \A o \in Sessions : undo'[o].left = undo[o].left \/ undo'[o].left = {}
  <2> DEFINE aborted == [NoCall EXCEPT !.state = "aborted"]
  <2>1. aborted \in UndoCalls /\ aborted.left = {}
    BY DEF NoCall, UndoCalls
  <2>2. undo \in [Sessions -> UndoCalls] /\ undo' = [undo EXCEPT ![s] = aborted]
    BY DEF IInv, TypeOK, AbortUndo
  <2> HIDE DEF aborted
  <2> QED
    BY <2>1, <2>2
<1>3. TypeOK'
  BY <1>1, <1>2, ReleaseKeeps DEF IInv, TypeOK, AbortUndo
<1>4. Chains'
  BY <1>1, ReleaseChains DEF IInv, AbortUndo
<1> QED
  BY <1>2, <1>3, <1>4 DEF IInv, LeftInLog, AbortUndo

LEMMA CommitUndoInv ==
    ASSUME IInv, NEW s \in Sessions, CommitUndo(s)
    PROVE  IInv'
<1>1. s \in Writers /\ undo[s] \in UndoCalls /\ Len(log) \in Nat
  <2>1. log \in Seq(Entries) /\ undo \in [Sessions -> UndoCalls]
    BY DEF IInv, TypeOK
  <2> QED
    BY <2>1 DEF Writers
<1>2. undo' \in [Sessions -> UndoCalls] /\ \A o \in Sessions : undo'[o].left = undo[o].left
  <2>1. [undo[s] EXCEPT !.state = "committed"] \in UndoCalls
    BY <1>1 DEF UndoCalls
  <2> QED
    BY <2>1 DEF IInv, TypeOK, UndoCalls, CommitUndo
<1>3. undone' \subseteq [by: Sessions, what: SUBSET [txid: Txns, seen: Nat], at: Nat]
  <2>1. undo[s].reversed \in SUBSET [txid: Txns, seen: Nat]
    BY <1>1 DEF UndoCalls
  <2> QED
    BY <1>1, <2>1 DEF IInv, TypeOK, CommitUndo
<1>4. TypeOK'
  <2>1. Publish(s) /\ UNCHANGED <<captured, status, deps>> /\ TypeOK
    BY DEF CommitUndo, IInv
  <2>2. /\ rows' \in [Keys -> Images]
        /\ log' \in Seq(Entries)
        /\ Len(log') = Len(log) + Len(pend[s])
        /\ Len(log) \in Nat /\ Len(pend[s]) \in Nat
        /\ work' \in [Writers -> [Keys -> Images \cup {Free}]]
        /\ pend' \in [Writers -> Seq(Entries)]
    BY <1>1, <2>1, PublishType
  <2>3. captured' \in 0..Len(log')
    BY <2>1, <2>2 DEF TypeOK
  <2> QED
    BY <1>2, <1>3, <2>1, <2>2, <2>3 DEF TypeOK
<1>5. LeftInLog'
  <2>1. Publish(s) /\ TypeOK
    BY DEF CommitUndo, IInv
  <2>2. Len(log) \in Nat /\ Len(log') \in Nat /\ Len(log) <= Len(log')
    BY <1>1, <2>1, PublishType
  <2> QED
    BY <1>2, <2>2 DEF IInv, LeftInLog
<1>6. Chains'
  BY <1>1, PublishChains DEF IInv, CommitUndo
<1> QED
  BY <1>4, <1>5, <1>6 DEF IInv

LEMMA StutterInv ==
    ASSUME IInv, UNCHANGED vars
    PROVE  IInv'
BY DEF vars, IInv, TypeOK, LeftInLog, Chains, View

-----------------------------------------------------------------------------
(* Theorems *)

LEMMA Invariance == Spec => []IInv
<1>1. Init => IInv
  BY InitInv, UndoAssumption
<1>2. IInv /\ [Next]_vars => IInv'
  <2> SUFFICES ASSUME IInv, [Next]_vars PROVE IInv'
    OBVIOUS
  <2>1. CASE AppNext
    BY <2>1, UndoAssumption, WriteInv, CommitInv, RollbackInv DEF AppNext
  <2>2. CASE Capture
    BY <2>2, CaptureInv
  <2>3. CASE \E r, w \in Txns : RecordRead(r, w)
    BY <2>3, RecordReadInv
  <2>4. CASE UndoNext
    BY <2>4, UndoAssumption, BeginUndoInv, PreviewInv, CompensateInv, AbortUndoInv,
       CommitUndoInv DEF UndoNext
  <2>5. CASE UNCHANGED vars
    BY <2>5, StutterInv
  <2> QED
    BY <2>1, <2>2, <2>3, <2>4, <2>5 DEF Next
<1> QED
  BY <1>1, <1>2, PTL DEF Spec

(* Every variable keeps its type: in particular history (captured) never     *)
(* runs ahead of what is committed.                                          *)
THEOREM TypeCorrect == Spec => []TypeOK
<1>1. IInv => TypeOK
  BY DEF IInv
<1> QED
  BY <1>1, Invariance, PTL

-----------------------------------------------------------------------------
(* What a call relies on. *)

(* Blocks of the log: the changes of an application transaction stand        *)
(* together, come of its commit, and are captured together.                  *)
Blocks ==
    /\ \A i \in 1..Len(log) : log[i].by \in Txns => status[log[i].by] = "committed"
    /\ \A i, j \in 1..Len(log) : log[i].by = log[j].by /\ log[i].by \in Txns =>
         \A n \in i..j : log[n].by = log[i].by
    /\ \A w \in Writers : \A j \in 1..Len(pend[w]) : pend[w][j].by = w
    /\ \A i \in 1..captured, j \in captured + 1..Len(log) :
         log[i].by = log[j].by => log[i].by \notin Txns

(* The transactions a call has reversed so far, and those still to come. *)
Planned(s) == {d.txid : d \in undo[s].reversed}
Chosen(s) == undo[s].members \cup Planned(s)

(* Among the changes of transaction m that session s has compensated, the    *)
(* first one of each key gave the key its image.                             *)
Rewound(s, m) ==
    \A i \in RowsOf(m) \ undo[s].left :
        (\A j \in RowsOf(m) \ undo[s].left : log[j].key = log[i].key => i <= j)
            => work[s][log[i].key] = log[i].before

(* No other application transaction wrote a key of m after m, in the first   *)
(* c rows of history.                                                        *)
CleanAt(m, c) ==
    \A i, j \in 1..c :
        log[i].by = m /\ log[j].by # m /\ ~IsUndo(j) /\ log[i].key = log[j].key =>
            \E n \in 1..c : log[n].by = m /\ log[n].key = log[j].key /\ j < n

(* A running call, whatever its mode. *)
CallOK(s) ==
    /\ undo[s].members \subseteq Recorded
    /\ undo[s].target # 0 => undo[s].target \in Recorded
    /\ undo[s].left \subseteq 1..captured
    /\ \A i \in undo[s].left, j \in RowsOf(undo[s].target) \ undo[s].left :
         log[i].by = undo[s].target /\ i < j
    /\ Rewound(s, undo[s].target)

(* A running clean_only call: what it planned was clean when it looked, all  *)
(* it looked at was in history then, and it holds no other row.              *)
CleanCallOK(s) ==
    /\ Planned(s) \subseteq Recorded
    /\ Planned(s) \cap undo[s].members = {}
    /\ undo[s].left \subseteq RowsOf(undo[s].target)
    /\ undo[s].target # 0 => undo[s].target \in Planned(s)
    /\ \A d \in undo[s].reversed :
         /\ d.seen <= captured
         /\ \A m \in Chosen(s) : \A i \in RowsOf(m) : i <= d.seen
         /\ CleanAt(d.txid, d.seen)
         /\ Rewound(s, d.txid)
    /\ \A k \in Keys : work[s][k] # Free =>
         \E d \in undo[s].reversed : \E i \in RowsOf(d.txid) \ undo[s].left : log[i].key = k

CallInv(s) ==
    /\ undo[s].state = "idle" => undo[s] = NoCall
    /\ undo[s].state # "active" => \A k \in Keys : work[s][k] = Free
    /\ undo[s].state = "active" => CallOK(s)
    /\ undo[s].state = "active" /\ undo[s].mode = "clean_only" => CleanCallOK(s)

Calls == \A s \in Sessions : CallInv(s)

LEMMA LogFacts ==
    ASSUME TypeOK, UndoAssumption
    PROVE  /\ Len(log) \in Nat /\ captured \in Nat /\ captured <= Len(log)
           /\ \A i \in 1..Len(log) :
                /\ log[i] \in Entries /\ log[i].by \in Writers /\ log[i].key \in Keys
                /\ log[i].before \in Images /\ log[i].before # Free
                /\ IsUndo(i) <=> log[i].by \notin Txns
           /\ 0 \notin Writers
           /\ \A s \in Sessions : s \in Writers /\ s \notin Txns
           /\ \A t \in Txns : t \in Writers /\ t \notin Sessions
<1>1. log \in Seq(Entries) /\ captured \in 0..Len(log)
  BY DEF TypeOK
<1>2. Len(log) \in Nat /\ captured \in Nat /\ captured <= Len(log)
  BY <1>1
<1>3. \A i \in 1..Len(log) : log[i] \in Entries
  BY <1>1
<1>4. /\ 0 \notin Writers
      /\ \A s \in Sessions : s \in Writers /\ s \notin Txns
      /\ \A t \in Txns : t \in Writers /\ t \notin Sessions
  <2>1. Sessions \cap ({0} \cup Txns) = {} /\ MaxTxn \in Nat
    BY DEF UndoAssumption
  <2>2. 0 \notin Txns
    BY <2>1 DEF Txns
  <2> QED
    BY <2>1, <2>2 DEF Writers
<1>5. ASSUME NEW i \in 1..Len(log)
      PROVE  /\ log[i].by \in Writers /\ log[i].key \in Keys
             /\ log[i].before \in Images /\ log[i].before # Free
             /\ IsUndo(i) <=> log[i].by \notin Txns
  <2>1. log[i].by \in Writers /\ log[i].key \in Keys /\ log[i].before \in Images
    BY <1>3 DEF Entries
  <2>2. log[i].before # Free
    BY <2>1 DEF UndoAssumption
  <2>3. IsUndo(i) <=> log[i].by \notin Txns
    BY <1>4, <2>1 DEF IsUndo, Writers
  <2> QED
    BY <2>1, <2>2, <2>3
<1> QED
  BY <1>2, <1>3, <1>4, <1>5

(* The log a commit leaves. *)
LEMMA PublishRows ==
    ASSUME TypeOK, Blocks, NEW w \in Writers, Publish(w)
    PROVE  /\ Len(log) \in Nat /\ Len(pend[w]) \in Nat /\ Len(log') = Len(log) + Len(pend[w])
           /\ \A i \in 1..Len(log) : log'[i] = log[i]
           /\ \A j \in 1..Len(pend[w]) : log'[Len(log) + j] = pend[w][j]
           /\ \A i \in Len(log) + 1..Len(log') :
                /\ i - Len(log) \in 1..Len(pend[w])
                /\ log'[i] = pend[w][i - Len(log)]
                /\ log'[i].by = w
<1>1. pend[w] \in Seq(Entries) /\ log \in Seq(Entries) /\ log' = log \o pend[w]
  BY DEF TypeOK, Publish
<1>2. /\ Len(log) \in Nat /\ Len(pend[w]) \in Nat /\ Len(log') = Len(log) + Len(pend[w])
      /\ \A i \in 1..Len(log) : log'[i] = log[i]
      /\ \A j \in 1..Len(pend[w]) : log'[Len(log) + j] = pend[w][j]
  BY <1>1
<1>3. ASSUME NEW i \in Len(log) + 1..Len(log')
      PROVE  /\ i - Len(log) \in 1..Len(pend[w])
             /\ log'[i] = pend[w][i - Len(log)]
             /\ log'[i].by = w
  <2>1. PICK j \in 1..Len(pend[w]) : i = Len(log) + j
    <3>1. i - Len(log) \in 1..Len(pend[w]) /\ i = Len(log) + (i - Len(log))
      BY <1>2
    <3> QED
      BY <3>1
  <2>2. i - Len(log) = j
    BY <1>2, <2>1
  <2>3. pend[w][j].by = w
    BY DEF Blocks
  <2> QED
    BY <1>2, <2>1, <2>2, <2>3
<1> QED
  BY <1>2, <1>3

-----------------------------------------------------------------------------
(* The log only grows, and history with it. *)

Grown ==
    /\ Len(log) <= Len(log')
    /\ \A i \in 1..Len(log) : log'[i] = log[i]
    /\ captured <= captured'
    /\ captured' = captured \/ log' = log

LEMMA StepGrows ==
    ASSUME TypeOK, UndoAssumption, Blocks, [Next]_vars
    PROVE  Grown
<1>1. captured \in Nat /\ Len(log) \in Nat
  BY LogFacts
<1>2. CASE log' = log /\ captured' = captured
  BY <1>1, <1>2 DEF Grown
<1>3. ASSUME NEW w \in Writers, Publish(w), captured' = captured PROVE Grown
  <2>1. /\ Len(pend[w]) \in Nat /\ Len(log') = Len(log) + Len(pend[w])
        /\ \A i \in 1..Len(log) : log'[i] = log[i]
    BY <1>3, PublishRows
  <2> QED
    BY <1>1, <1>3, <2>1 DEF Grown
<1>4. CASE AppNext
  <2>1. CASE \E t \in Txns, k \in Keys : \E image \in {t, NoRow} : Write(t, k, image)
    BY <1>2, <2>1 DEF Write
  <2>2. CASE \E t \in Txns : Commit(t)
    BY <1>3, <2>2, LogFacts DEF Commit
  <2>3. CASE \E t \in Txns : Rollback(t)
    BY <1>2, <2>3 DEF Rollback
  <2> QED
    BY <1>4, <2>1, <2>2, <2>3 DEF AppNext
<1>5. CASE Capture
  BY <1>1, <1>5 DEF Capture, Grown
<1>6. CASE \E r, w \in Txns : RecordRead(r, w)
  BY <1>2, <1>6 DEF RecordRead
<1>7. CASE UndoNext
  <2>1. CASE \E s \in Sessions, mode \in Modes : \E members \in SUBSET Recorded :
               \E cohort \in BOOLEAN : BeginUndo(s, members, mode, cohort)
    BY <1>2, <2>1 DEF BeginUndo
  <2>2. CASE \E s \in Sessions : Preview(s) \/ Compensate(s) \/ AbortUndo(s)
    BY <1>2, <2>2 DEF Preview, Compensate, AbortUndo
  <2>3. CASE \E s \in Sessions : CommitUndo(s)
    BY <1>3, <2>3, LogFacts DEF CommitUndo
  <2> QED
    BY <1>7, <2>1, <2>2, <2>3 DEF UndoNext
<1>8. CASE UNCHANGED vars
  BY <1>2, <1>8 DEF vars
<1> QED
  BY <1>4, <1>5, <1>6, <1>7, <1>8 DEF Next

(* A recorded transaction is recorded whole. *)
LEMMA Complete ==
    ASSUME TypeOK, UndoAssumption, Blocks, NEW t \in Recorded
    PROVE  /\ t \in Txns
           /\ \E i \in 1..captured : log[i].by = t
           /\ \A i \in 1..Len(log) : log[i].by = t => i \in RowsOf(t)
<1>1. t \in Txns /\ \E i \in 1..captured : log[i].by = t
  BY DEF Recorded
<1>2. PICK i \in 1..captured : log[i].by = t
  BY <1>1
<1>3. captured \in Nat /\ Len(log) \in Nat /\ captured <= Len(log)
  BY LogFacts
<1>4. ASSUME NEW x \in 1..Len(log), log[x].by = t
      PROVE  x \in RowsOf(t)
  <2>1. CASE x <= captured
    BY <1>3, <1>4, <2>1 DEF RowsOf
  <2>2. CASE x > captured
    <3>1. x \in captured + 1..Len(log)
      BY <1>3, <2>2
    <3> QED
      BY <1>1, <1>2, <1>4, <3>1 DEF Blocks
  <2> QED
    BY <1>3, <2>1, <2>2
<1> QED
  BY <1>1, <1>4

(* What is recorded of it stays. *)
LEMMA RecordedKept ==
    ASSUME TypeOK, TypeOK', UndoAssumption, Blocks, Grown
    PROVE  \A t \in Recorded : t \in Recorded' /\ RowsOf(t)' = RowsOf(t)
<1> SUFFICES ASSUME NEW t \in Recorded
             PROVE  t \in Recorded' /\ RowsOf(t)' = RowsOf(t)
  OBVIOUS
<1>1. captured \in Nat /\ Len(log) \in Nat /\ captured <= Len(log)
  BY LogFacts
<1>2. captured' \in Nat /\ captured <= captured' /\ captured' <= Len(log') /\ Len(log') \in Nat
  BY DEF TypeOK, Grown
<1>3. t \in Txns /\ \A i \in 1..Len(log) : log[i].by = t => i \in RowsOf(t)
  BY Complete
<1>4. PICK i \in 1..captured : log[i].by = t
  BY Complete
<1>5. t \in Recorded'
  <2>1. i \in 1..captured' /\ log'[i].by = t
    BY <1>1, <1>2, <1>4 DEF Grown
  <2> QED
    BY <1>3, <2>1 DEF Recorded
<1>6. \A x \in RowsOf(t) : x \in RowsOf(t)'
  BY <1>1, <1>2 DEF RowsOf, Grown
<1>7. ASSUME NEW x \in RowsOf(t)' PROVE x \in RowsOf(t)
  <2>1. x \in 1..captured' /\ log'[x].by = t
    BY DEF RowsOf
  <2>2. CASE log' = log
    BY <1>2, <1>3, <2>1, <2>2
  <2>3. CASE captured' = captured
    BY <1>1, <2>1, <2>3 DEF RowsOf, Grown
  <2> QED
    BY <2>2, <2>3 DEF Grown
<1> QED
  BY <1>5, <1>6, <1>7


-----------------------------------------------------------------------------
(* Every step keeps the blocks. *)

LEMMA ChangeBlocks ==
    ASSUME TypeOK, Blocks, NEW w \in Writers, NEW k \in Keys, NEW image \in Images,
           Change(w, k, image)
    PROVE  \A o \in Writers : \A j \in 1..Len(pend'[o]) : pend'[o][j].by = o
<1> DEFINE e == [by |-> w, key |-> k, before |-> View(w, k), after |-> image]
<1>1. e \in Entries /\ e.by = w
  BY ViewType DEF Entries
<1>2. pend' = [pend EXCEPT ![w] = Append(pend[w], e)] /\ pend[w] \in Seq(Entries)
  BY DEF Change, TypeOK
<1> HIDE DEF e
<1>3. \A o \in Writers \ {w} : pend'[o] = pend[o]
  BY <1>2 DEF TypeOK
<1>4. pend'[w] = Append(pend[w], e)
  BY <1>2 DEF TypeOK
<1>5. \A j \in 1..Len(pend'[w]) : pend'[w][j] = e \/ (j \in 1..Len(pend[w]) /\ pend'[w][j] = pend[w][j])
  BY <1>1, <1>2, <1>4
<1> QED
  BY <1>1, <1>3, <1>5 DEF Blocks

LEMMA ReleaseBlocks ==
    ASSUME TypeOK, Blocks, NEW w \in Writers, Release(w)
    PROVE  \A o \in Writers : \A j \in 1..Len(pend'[o]) : pend'[o][j].by = o
<1>1. /\ \A o \in Writers \ {w} : pend'[o] = pend[o]
      /\ pend'[w] = <<>>
  BY ReleaseKeeps
<1> QED
  BY <1>1 DEF Blocks

(* The log and what is captured stay, and no writer loses its commit. *)
LEMMA FrameBlocks ==
    ASSUME TypeOK, Blocks, log' = log, captured' = captured,
           \A t \in Txns : status[t] = "committed" => status'[t] = "committed",
           \A o \in Writers : \A j \in 1..Len(pend'[o]) : pend'[o][j].by = o
    PROVE  Blocks'
BY DEF Blocks

LEMMA PublishBlocks ==
    ASSUME TypeOK, UndoAssumption, Blocks, NEW w \in Writers, Publish(w),
           captured' = captured,
           \A t \in Txns : status[t] = "committed" => status'[t] = "committed",
           w \in Txns => status[w] # "committed" /\ status'[w] = "committed"
    PROVE  Blocks'
<1>1. /\ Len(log) \in Nat /\ Len(pend[w]) \in Nat /\ Len(log') = Len(log) + Len(pend[w])
      /\ \A i \in 1..Len(log) : log'[i] = log[i]
      /\ \A i \in Len(log) + 1..Len(log') : log'[i].by = w
  BY PublishRows
<1>2. \A i \in 1..Len(log') : i \in 1..Len(log) \/ i \in Len(log) + 1..Len(log')
  BY <1>1
<1>3. captured \in Nat /\ captured <= Len(log)
  BY LogFacts
<1>4. w \in Txns => \A i \in 1..Len(log) : log'[i].by # w
  BY <1>1 DEF Blocks
<1>5. \A i \in 1..Len(log') : log'[i].by \in Txns => status'[log'[i].by] = "committed"
  BY <1>1, <1>2 DEF Blocks
<1>6. ASSUME NEW i \in 1..Len(log'), NEW j \in 1..Len(log'), log'[i].by = log'[j].by,
             log'[i].by \in Txns, NEW n \in i..j
      PROVE  log'[n].by = log'[i].by
  <2>1. CASE i \in 1..Len(log) /\ j \in 1..Len(log)
    <3>1. log[i].by = log[j].by /\ log[i].by \in Txns /\ n \in 1..Len(log)
      BY <1>1, <1>6, <2>1
    <3>2. log[n].by = log[i].by
      BY <2>1, <3>1 DEF Blocks
    <3> QED
      BY <1>1, <2>1, <3>1, <3>2
  <2>2. CASE i \in Len(log) + 1..Len(log')
    <3>1. n \in Len(log) + 1..Len(log')
      BY <1>1, <2>2
    <3> QED
      BY <1>1, <2>2, <3>1
  <2>3. CASE i \in 1..Len(log) /\ j \in Len(log) + 1..Len(log')
    BY <1>1, <1>4, <1>6, <2>3
  <2> QED
    BY <1>2, <2>1, <2>2, <2>3
<1>7. \A o \in Writers : \A j \in 1..Len(pend'[o]) : pend'[o][j].by = o
  BY ReleaseBlocks DEF Publish
<1>8. ASSUME NEW i \in 1..captured', NEW j \in captured' + 1..Len(log'), log'[i].by = log'[j].by
      PROVE  log'[i].by \notin Txns
  <2>1. i \in 1..captured /\ i \in 1..Len(log) /\ log'[i] = log[i]
    BY <1>1, <1>3
  <2>2. CASE j \in 1..Len(log)
    <3>1. j \in captured + 1..Len(log) /\ log'[j] = log[j]
      BY <1>1, <1>3, <2>2
    <3> QED
      BY <1>8, <2>1, <3>1 DEF Blocks
  <2>3. CASE j \in Len(log) + 1..Len(log')
    <3>1. log'[j].by = w
      BY <1>1, <2>3
    <3> QED
      BY <1>4, <1>8, <2>1, <3>1
  <2>4. j \in 1..Len(log')
    BY <1>3
  <2> QED
    BY <1>2, <2>2, <2>3, <2>4
<1> QED
  BY <1>5, <1>6, <1>7, <1>8 DEF Blocks

LEMMA CaptureBlocks ==
    ASSUME TypeOK, UndoAssumption, Blocks, Capture
    PROVE  Blocks'
<1>1. captured \in Nat /\ Len(log) \in Nat /\ captured <= Len(log)
  BY LogFacts
<1>2. PICK n \in captured + 1..Len(log) :
        /\ n < Len(log) => log[n + 1].by # log[n].by
        /\ captured' = n
  BY DEF Capture
<1>3. log' = log /\ pend' = pend /\ status' = status
  BY DEF Capture
<1>4. ASSUME NEW i \in 1..n, NEW j \in n + 1..Len(log), log[i].by = log[j].by
      PROVE  log[i].by \notin Txns
  <2>1. i \in 1..Len(log) /\ j \in 1..Len(log) /\ n \in i..j /\ n + 1 \in i..j /\ n < Len(log)
    BY <1>1, <1>2
  <2> SUFFICES ASSUME log[i].by \in Txns PROVE FALSE
    OBVIOUS
  <2>2. log[n].by = log[i].by /\ log[n + 1].by = log[i].by
    BY <1>4, <2>1 DEF Blocks
  <2> QED
    BY <1>2, <2>1, <2>2
<1> QED
  BY <1>2, <1>3, <1>4 DEF Blocks

LEMMA BlocksStep ==
    ASSUME IInv, UndoAssumption, Blocks, [Next]_vars
    PROVE  Blocks'
<1> USE DEF IInv
<1>0. \A i \in 1..Len(log) : log[i].key \in Keys /\ log[i].before \in Images
  BY LogFacts
<1>1. CASE AppNext
  <2>1. CASE \E t \in Txns, k \in Keys : \E image \in {t, NoRow} : Write(t, k, image)
    <3>1. PICK t \in Txns, k \in Keys : \E image \in {t, NoRow} : Write(t, k, image)
      BY <2>1
    <3>2. PICK image \in {t, NoRow} : Write(t, k, image)
      BY <3>1
    <3>3. t \in Writers /\ image \in Images
      BY DEF Writers, Images
    <3>4. \A o \in Writers : \A j \in 1..Len(pend'[o]) : pend'[o][j].by = o
      BY <3>2, <3>3, ChangeBlocks DEF Write
    <3>5. status' = [status EXCEPT ![t] = "open"] /\ status[t] # "committed"
          /\ log' = log /\ captured' = captured
      BY <3>2 DEF Write
    <3>6. \A o \in Txns : status[o] = "committed" => status'[o] = "committed"
      BY <3>5 DEF TypeOK
    <3> QED
      BY <3>4, <3>5, <3>6, FrameBlocks
  <2>2. CASE \E t \in Txns : Commit(t)
    <3>1. PICK t \in Txns : Commit(t)
      BY <2>2
    <3>2. t \in Writers /\ status[t] # "committed" /\ status' = [status EXCEPT ![t] = "committed"]
          /\ Publish(t) /\ captured' = captured
      BY <3>1 DEF Commit, Writers
    <3>3. status'[t] = "committed"
          /\ \A o \in Txns : status[o] = "committed" => status'[o] = "committed"
      BY <3>2 DEF TypeOK
    <3> QED
      BY <3>2, <3>3, PublishBlocks
  <2>3. CASE \E t \in Txns : Rollback(t)
    <3>1. PICK t \in Txns : Rollback(t)
      BY <2>3
    <3>2. t \in Writers /\ status[t] # "committed" /\ status' = [status EXCEPT ![t] = "aborted"]
          /\ Release(t) /\ captured' = captured /\ log' = log
      BY <3>1 DEF Rollback, Writers
    <3>3. \A o \in Txns : status[o] = "committed" => status'[o] = "committed"
      BY <3>2 DEF TypeOK
    <3> QED
      BY <3>2, <3>3, ReleaseBlocks, FrameBlocks
  <2> QED
    BY <1>1, <2>1, <2>2, <2>3 DEF AppNext
<1>2. CASE Capture
  BY <1>2, CaptureBlocks
<1>3. CASE UNCHANGED <<log, captured, status, pend>>
  BY <1>3 DEF Blocks
<1>4. CASE \E r, w \in Txns : RecordRead(r, w)
  BY <1>3, <1>4 DEF RecordRead
<1>5. CASE UndoNext
  <2>1. CASE \E s \in Sessions, mode \in Modes : \E members \in SUBSET Recorded :
               \E cohort \in BOOLEAN : BeginUndo(s, members, mode, cohort)
    BY <1>3, <2>1 DEF BeginUndo
  <2>2. ASSUME NEW s \in Sessions, Preview(s) PROVE Blocks'
    BY <1>3, <2>2 DEF Preview
  <2>3. ASSUME NEW s \in Sessions, Compensate(s) PROVE Blocks'
    <3>1. PICK i \in undo[s].left : Change(s, log[i].key, log[i].before)
      BY <2>3 DEF Compensate
    <3>2. s \in Writers /\ i \in 1..Len(log)
      BY LogFacts DEF LeftInLog
    <3>3. log[i].key \in Keys /\ log[i].before \in Images
      BY <1>0, <3>2
    <3>4. \A o \in Writers : \A j \in 1..Len(pend'[o]) : pend'[o][j].by = o
      BY <3>1, <3>2, <3>3, ChangeBlocks
    <3> QED
      BY <2>3, <3>4, FrameBlocks DEF Compensate
  <2>4. ASSUME NEW s \in Sessions, AbortUndo(s) PROVE Blocks'
    <3>1. s \in Writers
      BY LogFacts
    <3> QED
      BY <2>4, <3>1, ReleaseBlocks, FrameBlocks DEF AbortUndo
  <2>5. ASSUME NEW s \in Sessions, CommitUndo(s) PROVE Blocks'
    <3>1. s \in Writers /\ s \notin Txns
      BY LogFacts
    <3> QED
      BY <2>5, <3>1, PublishBlocks DEF CommitUndo
  <2> QED
    BY <1>5, <2>1, <2>2, <2>3, <2>4, <2>5 DEF UndoNext
<1>6. CASE UNCHANGED vars
  BY <1>3, <1>6 DEF vars
<1> QED
  BY <1>1, <1>2, <1>4, <1>5, <1>6 DEF Next


-----------------------------------------------------------------------------
(* Every step keeps the calls: those it is not part of ... *)

LEMMA NoRows ==
    ASSUME TypeOK, UndoAssumption
    PROVE  RowsOf(0) = {}
BY LogFacts DEF RowsOf

LEMMA RowFacts ==
    ASSUME TypeOK, UndoAssumption, NEW m, NEW i \in RowsOf(m)
    PROVE  /\ i \in 1..captured /\ i \in 1..Len(log) /\ i \in Nat /\ log[i].by = m
           /\ log[i].key \in Keys /\ log[i].before \in Images /\ log[i].before # Free
<1>1. i \in 1..captured /\ log[i].by = m
  BY DEF RowsOf
<1>2. i \in 1..Len(log) /\ i \in Nat
  BY <1>1, LogFacts
<1> QED
  BY <1>1, <1>2, LogFacts

LEMMA CallKept ==
    ASSUME TypeOK, TypeOK', UndoAssumption, Blocks, Grown, NEW s \in Sessions,
           undo'[s] = undo[s], work'[s] = work[s], CallInv(s)
    PROVE  CallInv(s)'
<1>1. /\ captured \in Nat /\ Len(log) \in Nat /\ captured <= Len(log)
      /\ captured' \in Nat /\ captured <= captured'
      /\ \A i \in 1..Len(log) : log'[i] = log[i]
  BY LogFacts DEF TypeOK, Grown
<1>2. \A t \in Recorded : t \in Recorded' /\ RowsOf(t)' = RowsOf(t)
  BY RecordedKept
<1>3. \A m : \A i \in RowsOf(m) : i \in 1..Len(log) /\ log'[i] = log[i]
  BY <1>1, RowFacts
<1>4. RowsOf(0) = {} /\ RowsOf(0)' = {}
  <2>1. 0 \notin Writers /\ log' \in Seq(Entries) /\ captured' <= Len(log')
    BY LogFacts DEF TypeOK
  <2>2. \A i \in 1..captured' : log'[i].by \in Writers
    <3>1. Len(log') \in Nat
      BY <2>1
    <3>2. \A i \in 1..captured' : log'[i] \in Entries
      BY <1>1, <2>1, <3>1
    <3> QED
      BY <3>2 DEF Entries
  <2> QED
    BY <2>1, <2>2, NoRows DEF RowsOf
<1>5. ASSUME NEW m \in Recorded \cup {0}, Rewound(s, m)
      PROVE  Rewound(s, m)'
  <2>1. RowsOf(m)' = RowsOf(m)
    BY <1>2, <1>4
  <2> QED
    BY <1>3, <1>5, <2>1 DEF Rewound
<1>6. ASSUME NEW m, NEW c \in Nat, c <= captured, CleanAt(m, c)
      PROVE  CleanAt(m, c)'
  <2>1. \A i \in 1..c : log'[i] = log[i]
    BY <1>1, <1>6
  <2> QED
    BY <1>6, <2>1 DEF CleanAt, IsUndo
<1>7. ASSUME CallOK(s) PROVE CallOK(s)'
  <2>1. undo[s].members \subseteq Recorded' /\ (undo[s].target # 0 => undo[s].target \in Recorded')
    BY <1>2, <1>7 DEF CallOK
  <2>2. undo[s].left \subseteq 1..captured'
    BY <1>1, <1>7 DEF CallOK
  <2>3. RowsOf(undo[s].target)' = RowsOf(undo[s].target)
    BY <1>2, <1>4, <1>7 DEF CallOK
  <2>4. \A i \in undo[s].left : log'[i] = log[i]
    BY <1>1, <1>7 DEF CallOK
  <2>5. Rewound(s, undo[s].target)'
    BY <1>3, <1>7, <2>3 DEF CallOK, Rewound
  <2>6. \A i \in undo[s].left, j \in RowsOf(undo[s].target)' \ undo[s].left :
          log'[i].by = undo[s].target /\ i < j
    BY <1>7, <2>3, <2>4 DEF CallOK
  <2> QED
    BY <2>1, <2>2, <2>3, <2>5, <2>6 DEF CallOK
<1>8. ASSUME CallOK(s), CleanCallOK(s) PROVE CleanCallOK(s)'
  <2>0. Planned(s)' = Planned(s) /\ Chosen(s)' = Chosen(s) /\ Chosen(s) \subseteq Recorded
    BY <1>8 DEF CallOK, CleanCallOK, Chosen, Planned
  <2>1. Planned(s) \subseteq Recorded' /\ Planned(s) \cap undo[s].members = {}
    BY <1>2, <1>8 DEF CleanCallOK
  <2>2. RowsOf(undo[s].target)' = RowsOf(undo[s].target)
    BY <1>2, <1>4, <1>8 DEF CallOK
  <2>3. undo[s].left \subseteq RowsOf(undo[s].target)'
        /\ (undo[s].target # 0 => undo[s].target \in Planned(s))
    BY <1>8, <2>2 DEF CleanCallOK
  <2>4. ASSUME NEW d \in undo[s].reversed
        PROVE  /\ d.seen <= captured'
               /\ \A m \in Chosen(s) : \A i \in RowsOf(m)' : i <= d.seen
               /\ CleanAt(d.txid, d.seen)'
               /\ Rewound(s, d.txid)'
    <3>1. d.txid \in Recorded /\ d.seen \in Nat /\ d.seen <= captured
      <4>1. d \in [txid: Txns, seen: Nat]
        BY DEF TypeOK, UndoCalls
      <4> QED
        BY <1>8, <4>1 DEF CleanCallOK, Planned
    <3>2. d.seen <= captured'
      BY <1>1, <3>1
    <3>3. \A m \in Chosen(s) : \A i \in RowsOf(m)' : i <= d.seen
      BY <1>2, <1>8, <2>0 DEF CleanCallOK
    <3>4. CleanAt(d.txid, d.seen)'
      <4>1. CleanAt(d.txid, d.seen)
        BY <1>8 DEF CleanCallOK
      <4>2. \A i \in 1..d.seen : log'[i] = log[i]
        BY <1>1, <3>1
      <4> QED
        BY <4>1, <4>2, undo'[s] = undo[s] DEF CleanAt, IsUndo
    <3>5. Rewound(s, d.txid)'
      <4>1. Rewound(s, d.txid) /\ RowsOf(d.txid)' = RowsOf(d.txid)
        BY <1>2, <1>8, <3>1 DEF CleanCallOK
      <4> QED
        BY <1>3, <4>1 DEF Rewound
    <3> QED
      BY <3>2, <3>3, <3>4, <3>5
  <2>5. \A k \in Keys : work[s][k] # Free =>
         \E d \in undo[s].reversed : \E i \in RowsOf(d.txid)' \ undo[s].left : log'[i].key = k
    <3> SUFFICES ASSUME NEW k \in Keys, work[s][k] # Free
                 PROVE  \E d \in undo[s].reversed : \E i \in RowsOf(d.txid)' \ undo[s].left : log'[i].key = k
      OBVIOUS
    <3>1. PICK d \in undo[s].reversed : \E i \in RowsOf(d.txid) \ undo[s].left : log[i].key = k
      BY <1>8 DEF CleanCallOK
    <3>2. d.txid \in Recorded
      BY <1>8 DEF CleanCallOK, Planned
    <3> QED
      BY <1>2, <1>3, <3>1, <3>2
  <2> QED
    BY <2>0, <2>1, <2>3, <2>4, <2>5 DEF CleanCallOK
<1> QED
  BY <1>7, <1>8 DEF CallInv

(* ... and the one it is a step of. *)

LEMMA BeginCall ==
    ASSUME TypeOK, UndoAssumption, NEW s \in Sessions, NEW mode \in Modes,
           NEW members \in SUBSET Recorded, NEW cohort \in BOOLEAN,
           BeginUndo(s, members, mode, cohort), CallInv(s)
    PROVE  CallInv(s)'
<1>1. undo[s] = NoCall /\ \A k \in Keys : work[s][k] = Free
  BY DEF CallInv, BeginUndo
<1>2. /\ undo'[s].state = "active" /\ undo'[s].members = members
      /\ undo'[s].target = 0 /\ undo'[s].left = {} /\ undo'[s].reversed = {}
  BY <1>1 DEF BeginUndo, TypeOK, NoCall
<1>3. log' = log /\ captured' = captured /\ work' = work
  BY DEF BeginUndo
<1>4. RowsOf(0)' = {} /\ Recorded' = Recorded
  BY <1>3, NoRows DEF RowsOf, Recorded
<1>5. Planned(s)' = {}
  BY <1>2 DEF Planned
<1>6. CallOK(s)'
  BY <1>2, <1>4 DEF CallOK, Rewound
<1>7. CleanCallOK(s)'
  BY <1>1, <1>2, <1>3, <1>5 DEF CleanCallOK
<1> QED
  BY <1>2, <1>6, <1>7 DEF CallInv

LEMMA OnePlan ==
    ASSUME NEW m, NEW c
    PROVE  [txid: {m}, seen: {c}] = {[txid |-> m, seen |-> c]}
<1> DEFINE e == [txid |-> m, seen |-> c]
<1>1. ASSUME NEW d \in [txid: {m}, seen: {c}] PROVE d = e
  OBVIOUS
<1>2. e \in [txid: {m}, seen: {c}]
  OBVIOUS
<1> HIDE DEF e
<1>3. [txid: {m}, seen: {c}] = {e}
  BY <1>1, <1>2
<1> QED
  BY <1>3 DEF e

LEMMA PreviewCall ==
    ASSUME TypeOK, UndoAssumption, Blocks, NEW s \in Sessions, Preview(s), CallInv(s)
    PROVE  CallInv(s)'
<1>1. log' = log /\ captured' = captured /\ work' = work
  BY DEF Preview
<1>2. undo[s].state = "active" /\ undo[s].left = {} /\ undo[s] \in UndoCalls /\ CallOK(s)
  BY DEF Preview, CallInv, TypeOK
<1>3. (\A m : RowsOf(m)' = RowsOf(m)) /\ Recorded' = Recorded
      /\ \A m, c : CleanAt(m, c)' <=> CleanAt(m, c)
  BY <1>1 DEF RowsOf, Recorded, CleanAt, IsUndo
<1>4. captured \in Nat /\ Len(log) \in Nat /\ captured <= Len(log)
  BY LogFacts
<1>5. PICK m \in undo[s].members :
        LET conflicts == AllConflicts(m)
            reversing == {m} \cup (IF undo[s].mode = "cascade" THEN conflicts ELSE {})
        IN  IF undo[s].mode = "clean_only" /\ conflicts # {}
            THEN undo' = [undo EXCEPT ![s].members = @ \ {m},
                                      ![s].skipped = @ \cup {m}]
            ELSE undo' = [undo EXCEPT
                     ![s].members = @ \ {m},
                     ![s].target = m,
                     ![s].seen = captured,
                     ![s].left = UNION {RowsOf(t) : t \in reversing},
                     ![s].reversed = @ \cup [txid: reversing, seen: {captured}]]
  BY DEF Preview
<1>6. m \in Recorded /\ m \in Txns /\ m # 0
  <2>1. m \in Recorded
    BY <1>2, <1>5 DEF CallOK
  <2>2. m \in Txns
    BY <2>1 DEF Recorded
  <2> QED
    BY <2>1, <2>2, LogFacts
<1>7. CASE undo[s].mode = "clean_only" /\ AllConflicts(m) # {}
  <2>1. undo' = [undo EXCEPT ![s].members = @ \ {m}, ![s].skipped = @ \cup {m}]
    BY <1>5, <1>7
  <2>2. /\ undo'[s].state = "active" /\ undo'[s].members = undo[s].members \ {m}
        /\ undo'[s].target = undo[s].target /\ undo'[s].left = {}
        /\ undo'[s].reversed = undo[s].reversed
    BY <1>2, <2>1 DEF TypeOK, UndoCalls
  <2>3. CallOK(s)'
    BY <1>1, <1>2, <1>3, <2>2 DEF CallOK, Rewound
  <2>4. Planned(s)' = Planned(s) /\ Chosen(s)' \subseteq Chosen(s)
    BY <2>2 DEF Planned, Chosen
  <2>5. CleanCallOK(s)
    BY <1>2, <1>7 DEF CallInv
  <2>6. \A d \in undo[s].reversed : Rewound(s, d.txid)'
    BY <1>1, <1>2, <1>3, <2>2, <2>5 DEF CleanCallOK, Rewound
  <2>7. \A k \in Keys : work'[s][k] # Free =>
         \E d \in undo'[s].reversed : \E i \in RowsOf(d.txid)' \ undo'[s].left : log'[i].key = k
    BY <1>1, <1>2, <1>3, <2>2, <2>5 DEF CleanCallOK
  <2>8. \A d \in undo'[s].reversed :
         /\ d.seen <= captured'
         /\ \A o \in Chosen(s)' : \A i \in RowsOf(o)' : i <= d.seen
         /\ CleanAt(d.txid, d.seen)'
         /\ Rewound(s, d.txid)'
    BY <1>1, <1>3, <2>2, <2>4, <2>5, <2>6 DEF CleanCallOK
  <2>9. /\ Planned(s)' \subseteq Recorded'
        /\ Planned(s)' \cap undo'[s].members = {}
        /\ undo'[s].left \subseteq RowsOf(undo[s].target)'
        /\ undo'[s].target # 0 => undo'[s].target \in Planned(s)'
    BY <1>3, <2>2, <2>4, <2>5 DEF CleanCallOK
  <2> QED
    BY <2>2, <2>3, <2>7, <2>8, <2>9 DEF CallInv, CleanCallOK
<1>8. CASE ~(undo[s].mode = "clean_only" /\ AllConflicts(m) # {})
  <2> DEFINE reversing == {m} \cup (IF undo[s].mode = "cascade" THEN AllConflicts(m) ELSE {})
             planned == UNION {RowsOf(t) : t \in reversing}
             new == [txid: reversing, seen: {captured}]
  <2>1. undo' = [undo EXCEPT ![s].members = @ \ {m}, ![s].target = m, ![s].seen = captured,
                             ![s].left = planned, ![s].reversed = @ \cup new]
    BY <1>5, <1>8
  <2>2. m \in reversing /\ reversing \subseteq Txns
    BY <1>6, HistoryType
  <2>3. RowsOf(m) \subseteq planned
    BY <2>2
  <2>4. planned \subseteq 1..captured
    BY DEF RowsOf
  <2>5. undo[s].mode = "clean_only" => /\ reversing = {m} /\ AllConflicts(m) = {}
                                       /\ planned = RowsOf(m)
                                       /\ new = {[txid |-> m, seen |-> captured]}
    <3>1. undo[s].mode = "clean_only" => reversing = {m} /\ AllConflicts(m) = {}
      BY <1>8
    <3>2. ASSUME reversing = {m}
          PROVE  planned = RowsOf(m) /\ new = {[txid |-> m, seen |-> captured]}
      <4>1. planned = UNION {RowsOf(t) : t \in {m}}
        BY <3>2
      <4>2. new = [txid: {m}, seen: {captured}]
        BY <3>2
      <4>3. UNION {RowsOf(t) : t \in {m}} = RowsOf(m)
        OBVIOUS
      <4> QED
        BY <4>1, <4>2, <4>3, OnePlan
    <3> QED
      BY <3>1, <3>2
  <2> HIDE DEF planned, new
  <2>6. /\ undo'[s].state = "active" /\ undo'[s].mode = undo[s].mode
        /\ undo'[s].members = undo[s].members \ {m}
        /\ undo'[s].target = m /\ undo'[s].left = planned
        /\ undo'[s].reversed = undo[s].reversed \cup new
    BY <1>2, <2>1 DEF TypeOK, UndoCalls
  <2>7. CallOK(s)'
    BY <1>1, <1>2, <1>3, <1>6, <2>3, <2>4, <2>6 DEF CallOK, Rewound
  <2>8. ASSUME undo[s].mode = "clean_only"
        PROVE  CleanCallOK(s)'
    <3>1. CleanCallOK(s)
      BY <1>2, <2>8 DEF CallInv
    <3>2. planned = RowsOf(m) /\ new = {[txid |-> m, seen |-> captured]} /\ AllConflicts(m) = {}
      BY <2>5, <2>8
    <3>3. Planned(s)' = Planned(s) \cup {m} /\ m \notin Planned(s)
          /\ Chosen(s)' = Chosen(s) /\ Chosen(s) \subseteq Recorded
      <4>1. undo'[s].reversed = undo[s].reversed \cup {[txid |-> m, seen |-> captured]}
        BY <2>6, <3>2
      <4>2. Planned(s)' = Planned(s) \cup {m}
        <5> DEFINE e == [txid |-> m, seen |-> captured]
        <5>1. e.txid = m /\ undo'[s].reversed = undo[s].reversed \cup {e}
          BY <4>1
        <5> HIDE DEF e, new, reversing
        <5> QED
          BY <5>1 DEF Planned
      <4>3. m \notin Planned(s) /\ Planned(s) \subseteq Recorded
        BY <1>5, <3>1 DEF CleanCallOK
      <4>4. undo[s].members \subseteq Recorded /\ undo'[s].members = undo[s].members \ {m}
        BY <1>2, <2>6 DEF CallOK
      <4>5. Chosen(s)' = Chosen(s)
        BY <1>5, <4>2, <4>4 DEF Chosen
      <4>6. Chosen(s) \subseteq Recorded
        BY <4>3, <4>4 DEF Chosen
      <4> QED
        BY <4>2, <4>3, <4>5, <4>6
    <3>4. \A d \in undo[s].reversed : d.txid \in Planned(s) /\ RowsOf(d.txid) \cap RowsOf(m) = {}
      <4>1. \A d \in undo[s].reversed : d.txid \in Planned(s)
        BY DEF Planned
      <4> QED
        BY <3>3, <4>1 DEF RowsOf
    <3>5. CleanAt(m, captured)
      <4> SUFFICES ASSUME NEW i \in 1..captured, NEW j \in 1..captured,
                          log[i].by = m, log[j].by # m, ~IsUndo(j), log[i].key = log[j].key
                   PROVE  \E n \in 1..captured : log[n].by = m /\ log[n].key = log[j].key /\ j < n
        BY DEF CleanAt
      <4>1. i \in RowsOf(m) /\ log[j].by \notin WwConflicts(m)
        BY <3>2 DEF RowsOf, AllConflicts
      <4>2. PICK n \in RowsOf(m) : log[n].key = log[j].key /\ ~(n < j)
        BY <4>1 DEF WwConflicts
      <4>3. n \in 1..captured /\ log[n].by = m
        BY DEF RowsOf
      <4>4. j < n
        <5>1. n # j
          BY <4>3
        <5> QED
          BY <1>4, <4>2, <4>3, <5>1
      <4> QED
        BY <4>2, <4>3, <4>4
    <3>6. ASSUME NEW d \in undo'[s].reversed
          PROVE  /\ d.seen <= captured'
                 /\ \A o \in Chosen(s)' : \A i \in RowsOf(o)' : i <= d.seen
                 /\ CleanAt(d.txid, d.seen)'
                 /\ Rewound(s, d.txid)'
      <4>1. CASE d \in undo[s].reversed
        <5>1. d.seen <= captured /\ (\A o \in Chosen(s) : \A i \in RowsOf(o) : i <= d.seen)
              /\ CleanAt(d.txid, d.seen) /\ Rewound(s, d.txid)
          BY <3>1, <4>1 DEF CleanCallOK
        <5>2. RowsOf(d.txid) \ planned = RowsOf(d.txid) \ undo[s].left
          BY <1>2, <3>2, <3>4, <4>1
        <5>3. Rewound(s, d.txid)'
          BY <1>1, <1>3, <2>6, <5>1, <5>2 DEF Rewound
        <5> QED
          BY <1>1, <1>3, <3>3, <5>1, <5>3
      <4>2. CASE d = [txid |-> m, seen |-> captured]
        <5>1. d.txid = m /\ d.seen = captured
          BY <4>2
        <5>2. Rewound(s, m)'
          BY <1>3, <2>3, <2>6 DEF Rewound
        <5>3. \A o \in Chosen(s) : \A i \in RowsOf(o) : i <= captured
          BY <1>4 DEF RowsOf
        <5> QED
          BY <1>1, <1>3, <1>4, <3>3, <3>5, <5>1, <5>2, <5>3
      <4> QED
        BY <2>6, <3>2, <4>1, <4>2
    <3>7. \A k \in Keys : work'[s][k] # Free =>
           \E d \in undo'[s].reversed : \E i \in RowsOf(d.txid)' \ undo'[s].left : log'[i].key = k
      <4> SUFFICES ASSUME NEW k \in Keys, work[s][k] # Free
                   PROVE  \E d \in undo[s].reversed : \E i \in RowsOf(d.txid) \ planned : log[i].key = k
        BY <1>1, <1>3, <2>6
      <4>1. PICK d \in undo[s].reversed : \E i \in RowsOf(d.txid) \ undo[s].left : log[i].key = k
        BY <3>1 DEF CleanCallOK
      <4> QED
        BY <1>2, <3>2, <3>4, <4>1
    <3>8. /\ Planned(s)' \subseteq Recorded'
          /\ Planned(s)' \cap undo'[s].members = {}
          /\ undo'[s].left \subseteq RowsOf(undo[s].target)'
          /\ undo'[s].target # 0 => undo'[s].target \in Planned(s)'
      <4>1. Planned(s) \subseteq Recorded /\ Planned(s) \cap undo[s].members = {}
        BY <3>1 DEF CleanCallOK
      <4>2. Planned(s)' = Planned(s) \cup {m}
        BY <3>3
      <4>3. undo'[s].members = undo[s].members \ {m} /\ undo'[s].target = m
            /\ undo'[s].left = RowsOf(m)
        BY <2>6, <3>2
      <4>4. RowsOf(m)' = RowsOf(m) /\ Recorded' = Recorded
        BY <1>3
      <4> HIDE DEF new, planned, reversing
      <4>5. Planned(s)' \subseteq Recorded'
        BY <1>6, <4>1, <4>2, <4>4
      <4>6. Planned(s)' \cap undo'[s].members = {}
        BY <4>1, <4>2, <4>3
      <4>7. RowsOf(undo[s].target)' = RowsOf(m)
        BY <4>3, <4>4 DEF RowsOf
      <4> QED
        BY <4>2, <4>3, <4>5, <4>6, <4>7
    <3> HIDE DEF reversing
    <3>9. \A d \in undo'[s].reversed :
            /\ d.seen <= captured'
            /\ \A o \in Chosen(s)' : \A i \in RowsOf(o)' : i <= d.seen
            /\ CleanAt(d.txid, d.seen)'
            /\ Rewound(s, d.txid)'
      BY ONLY <3>6, Zenon
    <3> QED
      BY ONLY <3>7, <3>8, <3>9 DEF CleanCallOK
  <2> QED
    BY <2>6, <2>7, <2>8 DEF CallInv
<1> QED
  BY <1>7, <1>8


(* Two transactions that were both clean when they were looked at share no   *)
(* key: the one that wrote it last was a dependent of the other.             *)
LEMMA Disjoint ==
    ASSUME TypeOK, UndoAssumption, NEW s \in Sessions, CleanCallOK(s),
           NEW d \in undo[s].reversed, NEW e \in undo[s].reversed, d.txid # e.txid,
           NEW a \in RowsOf(d.txid), NEW b \in RowsOf(e.txid)
    PROVE  log[a].key # log[b].key
<1> SUFFICES ASSUME log[a].key = log[b].key PROVE FALSE
  OBVIOUS
<1> DEFINE k == log[a].key
           A == {i \in RowsOf(d.txid) : log[i].key = k}
           B == {i \in RowsOf(e.txid) : log[i].key = k}
<1>1. captured \in Nat /\ captured <= Len(log) /\ Len(log) \in Nat
  BY LogFacts
<1>2. A \in SUBSET (0..captured) /\ A # {} /\ B \in SUBSET (0..captured) /\ B # {}
  BY <1>1 DEF RowsOf
<1>3. \A i \in A : i \in Nat /\ i \in 1..captured /\ i \in 1..Len(log) /\ log[i].by = d.txid /\ log[i].key = k
  BY RowFacts
<1>4. \A i \in B : i \in Nat /\ i \in 1..captured /\ i \in 1..Len(log) /\ log[i].by = e.txid /\ log[i].key = k
  BY RowFacts
<1>5. d.txid \in Txns /\ e.txid \in Txns /\ d.txid \in Planned(s) /\ e.txid \in Planned(s)
  BY DEF CleanCallOK, Planned, Recorded
<1>6. /\ \A i \in RowsOf(d.txid) : i <= d.seen /\ i <= e.seen
      /\ \A i \in RowsOf(e.txid) : i <= d.seen /\ i <= e.seen
  BY <1>5 DEF CleanCallOK, Chosen
<1>7. /\ d.seen <= captured /\ d.seen \in Nat /\ e.seen <= captured /\ e.seen \in Nat
      /\ CleanAt(d.txid, d.seen) /\ CleanAt(e.txid, e.seen)
  <2>1. d \in [txid: Txns, seen: Nat] /\ e \in [txid: Txns, seen: Nat]
    BY DEF TypeOK, UndoCalls
  <2> QED
    BY <2>1 DEF CleanCallOK
<1>8. \A i \in A \cup B : ~IsUndo(i)
  BY <1>3, <1>4, <1>5, LogFacts
<1>9. A \subseteq RowsOf(d.txid) /\ B \subseteq RowsOf(e.txid)
      /\ (\A n \in 1..captured : log[n].by = d.txid /\ log[n].key = k => n \in A)
      /\ (\A n \in 1..captured : log[n].by = e.txid /\ log[n].key = k => n \in B)
  BY DEF RowsOf
<1> HIDE DEF A, B, k
<1>10. PICK x \in A : \A y \in A : y <= x
  BY <1>1, <1>2, GreatestElement
<1>11. PICK z \in B : \A y \in B : y <= z
  BY <1>1, <1>2, GreatestElement
<1>12. x \in 1..d.seen /\ z \in 1..d.seen /\ x \in 1..e.seen /\ z \in 1..e.seen
  BY <1>3, <1>4, <1>6, <1>7, <1>9
<1>13. z < x
  <2>1. PICK n \in 1..d.seen : log[n].by = d.txid /\ log[n].key = log[z].key /\ z < n
    <3>1. log[x].by = d.txid /\ log[z].by # d.txid /\ ~IsUndo(z) /\ log[x].key = log[z].key
      BY <1>3, <1>4, <1>8
    <3> QED
      BY <1>7, <1>12, <3>1 DEF CleanAt
  <2>2. n \in 1..captured
    BY <1>1, <1>7
  <2>3. n \in A
    BY <1>4, <1>9, <2>1, <2>2
  <2>4. n <= x
    BY <1>10, <2>3
  <2> QED
    BY <1>3, <1>4, <2>1, <2>2, <2>4
<1>14. x < z
  <2>1. PICK n \in 1..e.seen : log[n].by = e.txid /\ log[n].key = log[x].key /\ x < n
    <3>1. log[z].by = e.txid /\ log[x].by # e.txid /\ ~IsUndo(x) /\ log[z].key = log[x].key
      BY <1>3, <1>4, <1>8
    <3> QED
      BY <1>7, <1>12, <3>1 DEF CleanAt
  <2>2. n \in 1..captured
    BY <1>1, <1>7
  <2>3. n \in B
    BY <1>3, <1>9, <2>1, <2>2
  <2>4. n <= z
    BY <1>11, <2>3
  <2> QED
    BY <1>3, <1>4, <2>1, <2>2, <2>4
<1> QED
  BY <1>3, <1>4, <1>13, <1>14

LEMMA CompensateCall ==
    ASSUME TypeOK, UndoAssumption, NEW s \in Sessions, Compensate(s), CallInv(s)
    PROVE  CallInv(s)'
<1>1. PICK i \in undo[s].left :
        /\ NextRow(s, i)
        /\ Change(s, log[i].key, log[i].before)
        /\ undo' = [undo EXCEPT ![s].left = @ \ {i}]
  BY DEF Compensate
<1> DEFINE k == log[i].key
           m == undo[s].target
           left == undo[s].left
           R == RowsOf(m) \ left
<1>2. undo[s].state = "active" /\ log' = log /\ captured' = captured
      /\ undo[s] \in UndoCalls /\ CallOK(s) /\ s \in Writers
  BY LogFacts DEF Compensate, CallInv, TypeOK
<1>3. /\ undo'[s].state = "active" /\ undo'[s].mode = undo[s].mode
      /\ undo'[s].members = undo[s].members /\ undo'[s].target = m
      /\ undo'[s].left = left \ {i} /\ undo'[s].reversed = undo[s].reversed
  BY <1>1, <1>2 DEF TypeOK, UndoCalls
<1>4. i \in 1..captured /\ i \in 1..Len(log) /\ k \in Keys /\ i \in Nat
  BY <1>1, <1>2, LogFacts DEF CallOK
<1>5. work'[s][k] = log[i].before /\ \A j \in Keys \ {k} : work'[s][j] = work[s][j]
  BY <1>1, <1>2, <1>4 DEF Change, TypeOK
<1>6. (\A o : RowsOf(o)' = RowsOf(o)) /\ Recorded' = Recorded
      /\ \A o, c : CleanAt(o, c)' <=> CleanAt(o, c)
  BY <1>2 DEF RowsOf, Recorded, CleanAt, IsUndo
<1>7. RowsOf(undo[s].target)' = RowsOf(m)
  BY <1>2, <1>3 DEF RowsOf
<1>8. \A o : \A x \in RowsOf(o) : x \in Nat /\ x \in 1..captured /\ log[x].by = o /\ log[x].key \in Keys
  BY RowFacts
<1>9. \A x \in left, j \in R : log[x].by = m /\ x < j
  BY <1>2 DEF CallOK
<1>10. \A x \in left \ {i} : CompensatedBefore(i, x, m)
  BY <1>1 DEF NextRow
<1> HIDE DEF k, m, left
<1>11. CASE log[i].by = m
  <2>1. i \in RowsOf(m)
    BY <1>4, <1>11 DEF RowsOf
  <2>2. RowsOf(m) \ (left \ {i}) = R \cup {i}
    BY <1>1, <2>1 DEF left
  <2>3. \A x \in left \ {i}, j \in R \cup {i} : log[x].by = m /\ x < j
    <3>1. \A x \in left \ {i} : log[x].by = m /\ i > x
      BY <1>10, <1>11 DEF CompensatedBefore
    <3>2. left \subseteq Nat
      BY <1>2 DEF CallOK, left
    <3> QED
      BY <1>4, <1>9, <3>1, <3>2
  <2>4. \A x \in R \cup {i} : (\A j \in R \cup {i} : log[j].key = log[x].key => x <= j)
           => work'[s][log[x].key] = log[x].before
    <3> SUFFICES ASSUME NEW x \in R \cup {i}, \A j \in R \cup {i} : log[j].key = log[x].key => x <= j
                 PROVE  work'[s][log[x].key] = log[x].before
      OBVIOUS
    <3>1. CASE x = i
      BY <1>5, <3>1 DEF k
    <3>2. CASE x \in R
      <4>1. i < x /\ x \in Nat /\ log[x].key \in Keys
        BY <1>1, <1>8, <1>9, <3>2 DEF left
      <4>2. log[x].key # k
        BY <1>4, <4>1 DEF k
      <4>3. work[s][log[x].key] = log[x].before
        BY <1>2, <3>2 DEF CallOK, Rewound, m, left
      <4> QED
        BY <1>5, <4>1, <4>2, <4>3
    <3> QED
      BY <3>1, <3>2
  <2>5. Rewound(s, undo[s].target)'
    BY <1>2, <1>3, <1>7, <2>2, <2>4 DEF Rewound
  <2>6. /\ undo'[s].members \subseteq Recorded'
        /\ undo'[s].target # 0 => undo'[s].target \in Recorded'
        /\ undo'[s].left \subseteq 1..captured'
    BY <1>2, <1>3, <1>6 DEF CallOK, m, left
  <2>7. CallOK(s)'
    BY <1>2, <1>3, <1>7, <2>2, <2>3, <2>5, <2>6 DEF CallOK
  <2>8. ASSUME CleanCallOK(s) PROVE CleanCallOK(s)'
    <3>1. Planned(s)' = Planned(s) /\ Chosen(s)' = Chosen(s)
      BY <1>3 DEF Planned, Chosen
    <3>2. m # 0
      BY <1>4, <1>11, LogFacts
    <3>3. PICK e \in undo[s].reversed : e.txid = m
      BY <2>8, <3>2 DEF CleanCallOK, Planned, m
    <3>4. ASSUME NEW d \in undo[s].reversed PROVE Rewound(s, d.txid)'
      <4>1. CASE d.txid = m
        BY <1>2, <1>3, <1>6, <2>2, <2>4, <4>1 DEF Rewound
      <4>2. CASE d.txid # m
        <5>1. RowsOf(d.txid) \ left = RowsOf(d.txid) \ (left \ {i})
          <6>1. i \notin RowsOf(d.txid)
            BY <1>8, <1>11, <4>2
          <6> QED
            BY <6>1
        <5>2. \A x \in RowsOf(d.txid) : log[x].key # k /\ log[x].key \in Keys
          BY <1>8, <2>1, <2>8, <3>3, <4>2, Disjoint DEF k
        <5>3. Rewound(s, d.txid)
          BY <2>8 DEF CleanCallOK
        <5>4. \A x \in RowsOf(d.txid) : work'[s][log[x].key] = work[s][log[x].key]
          BY <1>5, <5>2
        <5> QED
          BY <1>2, <1>3, <1>6, <5>1, <5>3, <5>4 DEF Rewound, left
      <4> QED
        BY <4>1, <4>2
    <3>5. \A d \in undo'[s].reversed :
            /\ d.seen <= captured'
            /\ \A o \in Chosen(s)' : \A x \in RowsOf(o)' : x <= d.seen
            /\ CleanAt(d.txid, d.seen)'
            /\ Rewound(s, d.txid)'
      BY <1>2, <1>3, <1>6, <2>8, <3>1, <3>4 DEF CleanCallOK
    <3>6. \A q \in Keys : work'[s][q] # Free =>
           \E d \in undo'[s].reversed : \E x \in RowsOf(d.txid)' \ undo'[s].left : log'[x].key = q
      <4> SUFFICES ASSUME NEW q \in Keys, work'[s][q] # Free
                   PROVE  \E d \in undo[s].reversed : \E x \in RowsOf(d.txid) \ (left \ {i}) : log[x].key = q
        BY <1>2, <1>3, <1>6
      <4>1. CASE q = k
        BY <2>1, <3>3, <4>1 DEF k
      <4>2. CASE q # k
        <5>1. work[s][q] # Free
          BY <1>5, <4>2
        <5> QED
          BY <2>8, <5>1 DEF CleanCallOK, left
      <4> QED
        BY <4>1, <4>2
    <3>7. /\ Planned(s)' \subseteq Recorded'
          /\ Planned(s)' \cap undo'[s].members = {}
          /\ undo'[s].left \subseteq RowsOf(undo[s].target)'
          /\ undo'[s].target # 0 => undo'[s].target \in Planned(s)'
      BY <1>3, <1>6, <1>7, <2>8, <3>1 DEF CleanCallOK, m, left
    <3> QED
      BY ONLY <3>5, <3>6, <3>7 DEF CleanCallOK
  <2> QED
    BY <1>2, <1>3, <2>7, <2>8 DEF CallInv
<1>12. CASE log[i].by # m
  <2>1. R = {}
    BY <1>1, <1>9, <1>12 DEF left
  <2>2. RowsOf(m) \ (left \ {i}) = {}
    BY <1>8, <1>12, <2>1
  <2>3. /\ undo'[s].members \subseteq Recorded'
        /\ undo'[s].target # 0 => undo'[s].target \in Recorded'
        /\ undo'[s].left \subseteq 1..captured'
    BY <1>2, <1>3, <1>6 DEF CallOK, m, left
  <2>4. CallOK(s)'
    BY <1>3, <1>7, <2>2, <2>3 DEF CallOK, Rewound
  <2>5. undo[s].mode # "clean_only"
    <3>1. i \notin RowsOf(m)
      BY <1>8, <1>12
    <3> QED
      BY <1>1, <1>2, <3>1 DEF CallInv, CleanCallOK, m
  <2> QED
    BY <1>2, <1>3, <2>4, <2>5 DEF CallInv
<1> QED
  BY <1>11, <1>12

LEMMA AbortCall ==
    ASSUME TypeOK, UndoAssumption, NEW s \in Sessions, AbortUndo(s)
    PROVE  CallInv(s)'
<1>1. s \in Writers
  BY LogFacts
<1>2. \A k \in Keys : work'[s][k] = Free
  BY <1>1, ReleaseKeeps DEF AbortUndo
<1>3. undo'[s].state = "aborted"
  BY DEF AbortUndo, TypeOK, NoCall
<1> QED
  BY <1>2, <1>3 DEF CallInv

LEMMA CommitCall ==
    ASSUME TypeOK, UndoAssumption, NEW s \in Sessions, CommitUndo(s)
    PROVE  CallInv(s)'
<1>1. s \in Writers
  BY LogFacts
<1>2. \A k \in Keys : work'[s][k] = Free
  BY <1>1, ReleaseKeeps DEF CommitUndo, Publish
<1>3. undo'[s].state = "committed"
  BY DEF CommitUndo, TypeOK, UndoCalls
<1> QED
  BY <1>2, <1>3 DEF CallInv


LEMMA ChangeOthers ==
    ASSUME TypeOK, NEW w \in Writers, NEW k, NEW image, Change(w, k, image)
    PROVE  \A o \in Writers \ {w} : work'[o] = work[o]
BY DEF TypeOK, Change

LEMMA PreviewOthers ==
    ASSUME TypeOK, NEW s \in Sessions, Preview(s)
    PROVE  /\ \A o \in Sessions \ {s} : undo'[o] = undo[o]
           /\ undo'[s].state = undo[s].state
<1>1. undo \in [Sessions -> UndoCalls]
  BY DEF TypeOK
<1> DEFINE Frame ==
      /\ \A o \in Sessions \ {s} : undo'[o] = undo[o]
      /\ undo'[s].state = undo[s].state
<1>2. ASSUME NEW a, NEW b, undo' = [undo EXCEPT ![s].members = a, ![s].skipped = b]
      PROVE  Frame
  BY <1>1, <1>2 DEF UndoCalls
<1> HIDE DEF Frame
<1>3. Frame
  <2>1. PICK m \in undo[s].members :
        LET conflicts == AllConflicts(m)
            reversing == {m} \cup (IF undo[s].mode = "cascade" THEN conflicts ELSE {})
        IN  IF undo[s].mode = "clean_only" /\ conflicts # {}
            THEN undo' = [undo EXCEPT ![s].members = @ \ {m},
                                      ![s].skipped = @ \cup {m}]
            ELSE undo' = [undo EXCEPT
                     ![s].members = @ \ {m},
                     ![s].target = m,
                     ![s].seen = captured,
                     ![s].left = UNION {RowsOf(t) : t \in reversing},
                     ![s].reversed = @ \cup [txid: reversing, seen: {captured}]]
    BY DEF Preview
  <2>2. CASE undo[s].mode = "clean_only" /\ AllConflicts(m) # {}
    BY <1>2, <2>1, <2>2
  <2>3. CASE ~(undo[s].mode = "clean_only" /\ AllConflicts(m) # {})
    <3> DEFINE reversing == {m} \cup (IF undo[s].mode = "cascade" THEN AllConflicts(m) ELSE {})
               planned == UNION {RowsOf(t) : t \in reversing}
               new == [txid: reversing, seen: {captured}]
    <3>1. undo' = [undo EXCEPT ![s].members = @ \ {m}, ![s].target = m, ![s].seen = captured,
                               ![s].left = planned, ![s].reversed = @ \cup new]
      BY <2>1, <2>3
    <3> HIDE DEF planned, new
    <3> QED
      BY <1>1, <3>1 DEF Frame, UndoCalls
  <2> QED
    BY <2>2, <2>3
<1> QED
  BY <1>3 DEF Frame

LEMMA CallsStep ==
    ASSUME IInv, TypeOK', UndoAssumption, Blocks, Calls, [Next]_vars
    PROVE  Calls'
<1> USE DEF IInv
<1>1. Grown
  BY StepGrows
<1>2. /\ \A s \in Sessions : s \in Writers /\ s \notin Txns
      /\ \A t \in Txns : t \in Writers /\ t \notin Sessions
  BY LogFacts
<1>3. ASSUME \A s \in Sessions : undo'[s] = undo[s] /\ work'[s] = work[s]
      PROVE  Calls'
  <2>1. ASSUME NEW s \in Sessions PROVE CallInv(s)'
    BY <1>1, <1>3, CallKept DEF Calls
  <2> QED
    BY <2>1 DEF Calls
<1>4. ASSUME NEW s \in Sessions, CallInv(s)',
             \A o \in Sessions \ {s} : undo'[o] = undo[o] /\ work'[o] = work[o]
      PROVE  Calls'
  <2>1. ASSUME NEW o \in Sessions \ {s} PROVE CallInv(o)'
    BY <1>1, <1>4, CallKept DEF Calls
  <2> QED
    BY <1>4, <2>1 DEF Calls
<1>5. CASE AppNext
  <2>1. ASSUME NEW t \in Txns, NEW k \in Keys, NEW image \in {t, NoRow}, Write(t, k, image)
        PROVE  Calls'
    <3>1. \A o \in Writers \ {t} : work'[o] = work[o]
      BY <1>2, <2>1, ChangeOthers DEF Write
    <3> QED
      BY <1>2, <1>3, <2>1, <3>1 DEF Write
  <2>2. ASSUME NEW t \in Txns, Release(t), UNCHANGED undo
        PROVE  Calls'
    <3>1. \A o \in Writers \ {t} : work'[o] = work[o]
      BY <1>2, <2>2, ReleaseKeeps
    <3> QED
      BY <1>2, <1>3, <2>2, <3>1
  <2>3. \A t \in Txns : Commit(t) \/ Rollback(t) => Release(t) /\ UNCHANGED undo
    BY DEF Commit, Rollback, Publish
  <2> QED
    BY <1>5, <2>1, <2>2, <2>3 DEF AppNext
<1>6. CASE Capture
  BY <1>3, <1>6 DEF Capture
<1>7. CASE \E r, w \in Txns : RecordRead(r, w)
  BY <1>3, <1>7 DEF RecordRead
<1>8. CASE UndoNext
  <2>1. ASSUME NEW s \in Sessions, NEW mode \in Modes, NEW members \in SUBSET Recorded,
               NEW cohort \in BOOLEAN, BeginUndo(s, members, mode, cohort)
        PROVE  Calls'
    <3>1. CallInv(s)'
      BY <2>1, BeginCall DEF Calls
    <3>2. \A o \in Sessions \ {s} : undo'[o] = undo[o] /\ work'[o] = work[o]
      BY <2>1 DEF BeginUndo, TypeOK
    <3> QED
      BY <1>4, <3>1, <3>2
  <2>2. ASSUME NEW s \in Sessions, Preview(s) PROVE Calls'
    <3>1. CallInv(s)'
      BY <2>2, PreviewCall DEF Calls
    <3>2. \A o \in Sessions \ {s} : undo'[o] = undo[o] /\ work'[o] = work[o]
      BY <2>2, PreviewOthers DEF Preview
    <3> QED
      BY <1>4, <3>1, <3>2
  <2>3. ASSUME NEW s \in Sessions, Compensate(s) PROVE Calls'
    <3>1. CallInv(s)'
      BY <2>3, CompensateCall DEF Calls
    <3>2. \A o \in Writers \ {s} : work'[o] = work[o]
      BY <1>2, <2>3, ChangeOthers DEF Compensate
    <3>3. \A o \in Sessions \ {s} : undo'[o] = undo[o]
      BY <2>3 DEF Compensate, TypeOK
    <3> QED
      BY <1>2, <1>4, <3>1, <3>2, <3>3
  <2>4. ASSUME NEW s \in Sessions, AbortUndo(s) \/ CommitUndo(s) PROVE Calls'
    <3>1. CallInv(s)'
      BY <2>4, AbortCall, CommitCall
    <3>2. \A o \in Writers \ {s} : work'[o] = work[o]
      BY <1>2, <2>4, ReleaseKeeps DEF AbortUndo, CommitUndo, Publish
    <3>3. \A o \in Sessions \ {s} : undo'[o] = undo[o]
      BY <2>4 DEF AbortUndo, CommitUndo, TypeOK
    <3> QED
      BY <1>2, <1>4, <3>1, <3>2, <3>3
  <2> QED
    BY <1>8, <2>1, <2>2, <2>3, <2>4 DEF UndoNext
<1>9. CASE UNCHANGED vars
  BY <1>3, <1>9 DEF vars
<1> QED
  BY <1>5, <1>6, <1>7, <1>8, <1>9 DEF Next

LEMMA InitCalls == UndoAssumption /\ Init => Blocks /\ Calls
<1> SUFFICES ASSUME UndoAssumption, Init PROVE Blocks /\ Calls
  OBVIOUS
<1>1. Len(log) = 0 /\ captured = 0 /\ \A w \in Writers : Len(pend[w]) = 0
  BY DEF Init
<1>2. Blocks
  BY <1>1 DEF Blocks
<1>3. \A s \in Sessions : undo[s] = NoCall /\ undo[s].state = "idle" /\ \A k \in Keys : work[s][k] = Free
  BY DEF Init, NoCall, Writers
<1>4. Calls
  BY <1>3 DEF Calls, CallInv
<1> QED
  BY <1>2, <1>4

-----------------------------------------------------------------------------
(* What a commit of an undo call leaves behind: the other calls that         *)
(* committed are over, and what they reversed is recorded.                   *)
Reversals ==
    \A u \in undone :
        /\ undo[u.by].state = "committed"
        /\ undo[u.by].mode = "clean_only" =>
             /\ u.at <= Len(log)
             /\ \A d \in u.what : d.txid \in Recorded /\ d.seen <= Len(log)

(* A call that committed is over. *)
LEMMA CommittedStays ==
    ASSUME TypeOK, [Next]_vars, NEW s \in Sessions, undo[s].state = "committed"
    PROVE  undo'[s] = undo[s]
<1>1. undo \in [Sessions -> UndoCalls]
  BY DEF TypeOK
<1>2. ASSUME NEW o \in Sessions, undo[o].state # "committed", NEW r, undo' = [undo EXCEPT ![o] = r]
      PROVE  undo'[s] = undo[s]
  BY <1>1, <1>2
<1>3. ASSUME NEW o \in Sessions, NEW mode \in Modes, NEW members \in SUBSET Recorded,
             NEW cohort \in BOOLEAN, BeginUndo(o, members, mode, cohort)
      PROVE  undo'[s] = undo[s]
  BY <1>1, <1>2, <1>3 DEF BeginUndo
<1>4. ASSUME NEW o \in Sessions, Preview(o) PROVE undo'[s] = undo[s]
  BY <1>4, PreviewOthers DEF Preview
<1>5. ASSUME NEW o \in Sessions, Compensate(o) PROVE undo'[s] = undo[s]
  <2>1. undo[o].state # "committed" /\ \E r : undo' = [undo EXCEPT ![o] = r]
    BY <1>1, <1>5 DEF Compensate
  <2> QED
    BY <1>2, <2>1
<1>6. ASSUME NEW o \in Sessions, AbortUndo(o) PROVE undo'[s] = undo[s]
  BY <1>1, <1>2, <1>6 DEF AbortUndo
<1>7. ASSUME NEW o \in Sessions, CommitUndo(o) PROVE undo'[s] = undo[s]
  <2>1. undo[o].state # "committed" /\ \E r : undo' = [undo EXCEPT ![o] = r]
    BY <1>1, <1>7 DEF CommitUndo
  <2> QED
    BY <1>2, <2>1
<1>8. CASE AppNext \/ Capture \/ (\E r, w \in Txns : RecordRead(r, w)) \/ UNCHANGED vars
  BY <1>8 DEF AppNext, Write, Commit, Rollback, Capture, RecordRead, vars
<1> QED
  BY <1>3, <1>4, <1>5, <1>6, <1>7, <1>8 DEF Next, UndoNext

LEMMA ReversalsStep ==
    ASSUME IInv, TypeOK', UndoAssumption, Blocks, Calls, Reversals, [Next]_vars
    PROVE  Reversals'
<1> USE DEF IInv
<1>1. Grown /\ Len(log) \in Nat /\ Len(log') \in Nat /\ captured \in Nat /\ captured <= Len(log)
  BY StepGrows, LogFacts DEF TypeOK
<1>2. \A t \in Recorded : t \in Recorded'
  BY <1>1, RecordedKept
<1>3. undone \subseteq [by: Sessions, what: SUBSET [txid: Txns, seen: Nat], at: Nat]
  BY DEF TypeOK
<1>4. ASSUME NEW u \in undone
      PROVE  /\ undo'[u.by].state = "committed"
             /\ undo'[u.by].mode = "clean_only" =>
                  /\ u.at <= Len(log')
                  /\ \A d \in u.what : d.txid \in Recorded' /\ d.seen <= Len(log')
  <2>1. u.by \in Sessions /\ u.at \in Nat /\ \A d \in u.what : d.seen \in Nat
    BY <1>3
  <2>2. undo[u.by].state = "committed" /\ undo'[u.by] = undo[u.by]
    BY <2>1, CommittedStays DEF Reversals
  <2>3. undo[u.by].mode = "clean_only" =>
             /\ u.at <= Len(log)
             /\ \A d \in u.what : d.txid \in Recorded /\ d.seen <= Len(log)
    BY DEF Reversals
  <2>4. Len(log) <= Len(log')
    BY <1>1 DEF Grown
  <2> QED
    BY <1>1, <1>2, <2>1, <2>2, <2>3, <2>4
<1>5. CASE undone' = undone
  BY <1>4, <1>5 DEF Reversals
<1>6. ASSUME NEW s \in Sessions, CommitUndo(s) PROVE Reversals'
  <2> DEFINE v == [by |-> s, what |-> undo[s].reversed, at |-> Len(log)]
  <2>1. v.by = s /\ v.what = undo[s].reversed /\ v.at = Len(log) /\ undone' = undone \cup {v}
    BY <1>6 DEF CommitUndo
  <2>2. undo[s].state = "active" /\ undo'[s].state = "committed" /\ undo'[s].mode = undo[s].mode
    BY <1>6 DEF CommitUndo, TypeOK, UndoCalls
  <2>3. ASSUME undo[s].mode = "clean_only", NEW d \in undo[s].reversed
        PROVE  d.txid \in Recorded' /\ d.seen <= Len(log')
    <3>1. CleanCallOK(s) /\ d \in [txid: Txns, seen: Nat]
      BY <2>2, <2>3 DEF Calls, CallInv, TypeOK, UndoCalls
    <3>2. d.txid \in Recorded /\ d.seen <= captured /\ d.seen \in Nat
      BY <3>1 DEF CleanCallOK, Planned
    <3> QED
      BY <1>1, <1>2, <3>2 DEF Grown
  <2>4. Len(log) <= Len(log')
    BY <1>1 DEF Grown
  <2> HIDE DEF v
  <2> QED
    BY <1>4, <2>1, <2>2, <2>3, <2>4 DEF Reversals
<1>7. undone' = undone \/ \E s \in Sessions : CommitUndo(s)
  BY DEF Next, AppNext, UndoNext, Write, Commit, Rollback, Capture, RecordRead, BeginUndo, Preview,
     Compensate, AbortUndo, vars
<1> QED
  BY <1>5, <1>6, <1>7


-----------------------------------------------------------------------------
(* An undone transaction is as if it had never run. *)

(* v is what the last of the changes L of q made of a row that was z. *)
Tops(q, L, v, z) ==
    /\ L = {} => v = z
    /\ \A i \in L : (\A j \in L : j <= i) => v = q[i].after

LEMMA TopsSame ==
    ASSUME NEW q, NEW r, NEW L, NEW v, NEW z, \A i \in L : r[i] = q[i], Tops(q, L, v, z)
    PROVE  Tops(r, L, v, z)
BY DEF Tops

(* The first change of key k by its transaction. *)
FirstOn(k, i) ==
    /\ log[i].key = k /\ ~IsUndo(i)
    /\ \A j \in 1..i - 1 : log[j].key = k => log[j].by # log[i].by

(* The row of key k is what the live changes made of it, and every           *)
(* transaction found it as the live changes before it had left it.           *)
TrueRow(k) ==
    /\ Tops(log, Live(k), rows[k], Initial[k])
    /\ \A i \in 1..Len(log) : FirstOn(k, i) =>
         Tops(log, Live(k) \cap (1..i - 1), log[i].before, Initial[k])

AllClean == \A u \in undone : undo[u.by].mode = "clean_only"

AsIfNeverRun == AllClean => \A k \in Keys : ~Raced(k) => TrueRow(k)

(* Commits of application transactions add live changes. *)
LEMMA CommitTrue ==
    ASSUME IInv, UndoAssumption, Blocks, Reversals, AllClean, NEW t \in Txns, Commit(t),
           NEW k \in Keys, TrueRow(k)
    PROVE  TrueRow(k)'
<1> USE DEF IInv
<1> DEFINE n == Len(log)
           p == pend[t]
           V == [j \in Keys |-> View(t, j)]
<1>1. t \in Writers /\ Publish(t) /\ status[t] = "open" /\ undone' = undone
  BY LogFacts DEF Commit
<1>2. /\ n \in Nat /\ Len(p) \in Nat /\ Len(log') = n + Len(p)
      /\ \A i \in 1..n : log'[i] = log[i]
      /\ \A j \in 1..Len(p) : log'[n + j] = p[j]
      /\ \A i \in n + 1..Len(log') : i - n \in 1..Len(p) /\ log'[i] = p[i - n] /\ log'[i].by = t
  BY <1>1, PublishRows
<1>3. Linked(p, rows, V) /\ rows'[k] = V[k]
  BY <1>1 DEF Chains, Publish
<1>4. t \notin Reversed
  <2> SUFFICES ASSUME NEW u \in undone, NEW d \in u.what PROVE d.txid # t
    BY DEF Reversed
  <2>1. d.txid \in Recorded
    BY DEF AllClean, Reversals
  <2>2. PICK i \in 1..captured : log[i].by = d.txid /\ d.txid \in Txns
    BY <2>1 DEF Recorded
  <2>3. i \in 1..Len(log)
    BY LogFacts
  <2> QED
    BY <1>1, <2>2, <2>3 DEF Blocks
<1>5. Reversed' = Reversed
  BY <1>1 DEF Reversed
<1>6. t \notin Sessions
  BY LogFacts
<1>7. \A i \in 1..n : i \in Live(k)' <=> i \in Live(k)
  BY <1>2, <1>5 DEF Live, IsUndo
<1>8. \A i \in n + 1..Len(log') : i \in Live(k)' <=> log'[i].key = k
  BY <1>2, <1>4, <1>5, <1>6 DEF Live, IsUndo
<1>9. Live(k) \subseteq 1..n /\ Live(k)' \subseteq 1..Len(log')
  BY DEF Live
<1>10. \A j \in 1..Len(p) : n + j \in n + 1..Len(log') /\ (n + j \in Live(k)' <=> p[j].key = k)
  <2> TAKE j \in 1..Len(p)
  <2>1. n + j \in n + 1..Len(log')
    BY <1>2
  <2> QED
    BY <1>2, <1>8, <2>1
<1>11. \A i \in 1..Len(log') : i \in 1..n \/ \E x \in 1..Len(p) : i = n + x
  <2> TAKE i \in 1..Len(log')
  <2>1. i \in 1..n \/ (i - n \in 1..Len(p) /\ i = n + (i - n))
    BY <1>2
  <2> QED
    BY <2>1
<1>12. Tops(log, Live(k), rows[k], Initial[k])
  BY DEF TrueRow
<1> HIDE DEF n, p, V
<1>13. Tops(log', Live(k), rows[k], Initial[k])
  <2>1. \A i \in Live(k) : log'[i] = log[i]
    BY <1>2, <1>9
  <2> QED
    BY <1>12, <2>1, TopsSame
<1>14. Tops(log', Live(k)', rows'[k], Initial[k])
  <2>1. CASE \A j \in 1..Len(p) : p[j].key # k
    <3>1. rows'[k] = rows[k]
      BY <1>3, <2>1 DEF Linked
    <3>2. Live(k)' = Live(k)
      <4>1. \A i \in Live(k)' : i \in 1..n
        BY <1>9, <1>10, <1>11, <2>1
      <4> QED
        BY <1>7, <1>9, <4>1
    <3> QED
      BY <1>13, <3>1, <3>2
  <2>2. CASE \E j \in 1..Len(p) : p[j].key = k
    <3>1. PICK y \in 1..Len(p) : p[y].key = k
      BY <2>2
    <3>2. n + y \in Live(k)'
      BY <1>10, <3>1
    <3>3. ASSUME NEW i \in Live(k)', \A j \in Live(k)' : j <= i
          PROVE  rows'[k] = log'[i].after
      <4>1. i \in 1..Len(log') /\ n + y <= i
        BY <1>9, <3>2, <3>3
      <4>2. i \notin 1..n
        BY <1>2, <4>1
      <4>3. PICK x \in 1..Len(p) : i = n + x
        BY <1>11, <4>1, <4>2
      <4>4. p[x].key = k /\ log'[i] = p[x]
        BY <1>2, <1>10, <3>3, <4>3
      <4>5. \A z \in x + 1..Len(p) : p[z].key # p[x].key
        <5> TAKE z \in x + 1..Len(p)
        <5>1. z \in 1..Len(p) /\ ~(n + z <= n + x)
          BY <1>2
        <5>2. n + z \notin Live(k)'
          BY <3>3, <4>3, <5>1
        <5> QED
          BY <1>10, <4>4, <5>1, <5>2
      <4>6. V[p[x].key] = p[x].after
        BY <1>3, <4>5 DEF Linked
      <4> QED
        BY <1>3, <4>4, <4>6
    <3> QED
      BY <3>2, <3>3 DEF Tops
  <2> QED
    BY <2>1, <2>2
<1>15. ASSUME NEW i \in 1..Len(log'), FirstOn(k, i)'
       PROVE  Tops(log', Live(k)' \cap (1..i - 1), log'[i].before, Initial[k])
  <2>0. log'[i].key = k /\ ~IsUndo(i)'
        /\ \A j \in 1..i - 1 : log'[j].key = k => log'[j].by # log'[i].by
    BY <1>15 DEF FirstOn
  <2>1. CASE i \in 1..n
    <3>1. \A j \in 1..i : j \in 1..n /\ log'[j] = log[j]
      BY <1>2, <2>1
    <3>2. FirstOn(k, i)
      BY <1>2, <2>0, <2>1, <3>1 DEF FirstOn, IsUndo
    <3>3. Tops(log, Live(k) \cap (1..i - 1), log[i].before, Initial[k])
      BY <2>1, <3>2 DEF TrueRow, n
    <3>4. Live(k)' \cap (1..i - 1) = Live(k) \cap (1..i - 1)
      BY <1>2, <1>7, <2>1
    <3>5. \A j \in Live(k) \cap (1..i - 1) : log'[j] = log[j]
      BY <1>2, <1>9
    <3> QED
      <4>1. Tops(log', Live(k) \cap (1..i - 1), log[i].before, Initial[k])
        BY <3>3, <3>5, TopsSame
      <4>2. log'[i] = log[i]
        BY <1>2, <2>1
      <4> QED
        BY <3>4, <4>1, <4>2
  <2>2. CASE \E x \in 1..Len(p) : i = n + x
    <3>1. PICK x \in 1..Len(p) : i = n + x
      BY <2>2
    <3>2. log'[i] = p[x] /\ p[x].key = k
      BY <1>2, <2>0, <3>1
    <3>3. \A y \in 1..x - 1 : p[y].key # p[x].key
      <4> TAKE y \in 1..x - 1
      <4>1. y \in 1..Len(p) /\ n + y \in 1..i - 1 /\ n + y \in n + 1..Len(log') /\ i \in n + 1..Len(log')
        BY <1>2, <3>1
      <4>2. log'[n + y].by = log'[i].by /\ log'[n + y] = p[y]
        BY <1>2, <4>1
      <4> QED
        BY <2>0, <3>2, <4>1, <4>2
    <3>4. p[x].before = rows[k]
      BY <1>3, <3>2, <3>3 DEF Linked
    <3>5. Live(k)' \cap (1..i - 1) = Live(k)
      <4>1. \A j \in Live(k) : j \in 1..i - 1 /\ j \in Live(k)'
        BY <1>2, <1>7, <1>9, <3>1
      <4>2. ASSUME NEW j \in Live(k)' \cap (1..i - 1) PROVE j \in Live(k)
        <5>1. CASE j \in 1..n
          BY <1>7, <4>2, <5>1
        <5>2. CASE \E y \in 1..Len(p) : j = n + y
          <6>1. PICK y \in 1..Len(p) : j = n + y
            BY <5>2
          <6>2. y \in 1..x - 1
            BY <1>2, <3>1, <4>2, <6>1
          <6> QED
            BY <1>10, <3>2, <3>3, <4>2, <6>1, <6>2
        <5> QED
          BY <1>9, <1>11, <4>2, <5>1, <5>2
      <4> QED
        BY <4>1, <4>2
    <3> QED
      BY <1>13, <3>2, <3>4, <3>5
  <2> QED
    BY <1>11, <2>1, <2>2
<1> QED
  BY <1>14, <1>15 DEF TrueRow


(* The commit of a clean_only call takes away the changes of what it         *)
(* reversed, and gives every key the image from before them.                 *)
LEMMA UndoTrue ==
    ASSUME IInv, UndoAssumption, Blocks, NEW s \in Sessions, CommitUndo(s), CleanCallOK(s),
           NEW k \in Keys, ~Raced(k)', TrueRow(k)
    PROVE  TrueRow(k)'
<1> USE DEF IInv
<1> DEFINE n == Len(log)
           P == Planned(s)
           v == [by |-> s, what |-> undo[s].reversed, at |-> Len(log)]
<1>1. s \in Writers /\ Publish(s) /\ undone' = undone \cup {v} /\ undo[s].left = {}
  BY LogFacts DEF CommitUndo
<1>2. /\ n \in Nat /\ Len(log') \in Nat /\ n <= Len(log')
      /\ \A i \in 1..n : log'[i] = log[i]
      /\ \A i \in n + 1..Len(log') : log'[i].by = s
  BY <1>1, PublishRows
<1>3. v.what = undo[s].reversed /\ v.at = n
  OBVIOUS
<1>4. P \subseteq Recorded /\ P \subseteq Txns
  BY DEF CleanCallOK, Recorded
<1>5. \A m \in P : \A i \in 1..n : log[i].by = m => i \in RowsOf(m)
  BY <1>4, Complete
<1>6. \A m \in P : \E d \in undo[s].reversed : d.txid = m
  BY DEF Planned
<1>7. \A d \in undo[s].reversed : d.txid \in P
  BY DEF Planned
<1>8. rows'[k] = View(s, k)
  BY <1>1 DEF Publish
<1>9. \A i \in 1..n : IsUndo(i)' <=> IsUndo(i)
  BY <1>2 DEF IsUndo
<1>10. \A i \in 1..Len(log') : ~IsUndo(i)' => i \in 1..n
  BY <1>2 DEF IsUndo
<1>11. \A i : i \in Live(k)' <=> i \in Live(k) /\ log[i].by \notin P
  <2>1. \A m : m \in Reversed' <=> m \in Reversed \/ m \in P
    <3> HIDE DEF v
    <3> QED
      BY <1>1, <1>3, <1>6, <1>7 DEF Reversed
  <2> HIDE DEF P, v
  <2>2. \A i \in 1..n : i \in Live(k)' <=> i \in Live(k) /\ log[i].by \notin P
    BY <1>2, <1>9, <2>1 DEF Live
  <2>3. \A i : i \in Live(k)' => i \in 1..n
    BY <1>10 DEF Live
  <2>4. \A i : i \in Live(k) => i \in 1..n
    BY DEF Live
  <2> QED
    BY <2>2, <2>3, <2>4
<1>12. Live(k) \subseteq 1..n
  BY DEF Live
<1>13. \A i \in 1..Len(log') : FirstOn(k, i)' => i \in 1..n /\ FirstOn(k, i) /\ log'[i] = log[i]
  <2> TAKE i \in 1..Len(log')
  <2> SUFFICES ASSUME FirstOn(k, i)' PROVE i \in 1..n /\ FirstOn(k, i) /\ log'[i] = log[i]
    OBVIOUS
  <2>1. log'[i].key = k /\ ~IsUndo(i)'
        /\ \A j \in 1..i - 1 : log'[j].key = k => log'[j].by # log'[i].by
    BY DEF FirstOn
  <2>2. i \in 1..n
    BY <1>10, <2>1
  <2>3. \A j \in 1..i - 1 : j \in 1..n
    BY <1>2, <2>2
  <2> QED
    BY <1>2, <1>9, <2>1, <2>2, <2>3 DEF FirstOn
<1>14. CleanCallOK(s)
  OBVIOUS
<1> HIDE DEF P, v, n
<1>15. CASE \A i \in 1..n : log[i].key = k => log[i].by \notin P
  <2>1. Live(k)' = Live(k)
    <3>1. \A i \in Live(k) : log[i].key = k
      BY DEF Live
    <3> QED
      BY <1>11, <1>12, <1>15, <3>1
  <2>2. work[s][k] = Free
    <3> SUFFICES ASSUME work[s][k] # Free PROVE FALSE
      OBVIOUS
    <3>1. PICK d \in undo[s].reversed : \E i \in RowsOf(d.txid) : log[i].key = k
      BY <1>14 DEF CleanCallOK
    <3>2. PICK i \in RowsOf(d.txid) : log[i].key = k
      BY <3>1
    <3>3. i \in 1..n /\ log[i].by = d.txid
      BY RowFacts DEF n
    <3> QED
      BY <1>7, <1>15, <3>2, <3>3
  <2>3. rows'[k] = rows[k]
    BY <1>8, <2>2 DEF View
  <2>4. \A i \in Live(k) : log'[i] = log[i]
    BY <1>2, <1>12
  <2>5. Tops(log', Live(k)', rows'[k], Initial[k])
    BY <2>1, <2>3, <2>4, TopsSame DEF TrueRow
  <2>6. ASSUME NEW i \in 1..Len(log'), FirstOn(k, i)'
        PROVE  Tops(log', Live(k)' \cap (1..i - 1), log'[i].before, Initial[k])
    <3>1. i \in 1..Len(log) /\ FirstOn(k, i) /\ log'[i] = log[i]
      BY <1>13, <2>6 DEF n
    <3>2. Tops(log, Live(k) \cap (1..i - 1), log[i].before, Initial[k])
      BY <3>1 DEF TrueRow
    <3>3. \A j \in Live(k) \cap (1..i - 1) : log'[j] = log[j]
      BY <2>4
    <3> QED
      BY <2>1, <3>1, <3>2, <3>3, TopsSame
  <2> QED
    BY <2>5, <2>6 DEF TrueRow
<1>16. CASE \E i \in 1..n : log[i].key = k /\ log[i].by \in P
  <2>1. PICK x \in 1..n : log[x].key = k /\ log[x].by \in P
    BY <1>16
  <2>2. PICK d \in undo[s].reversed : d.txid = log[x].by
    BY <1>6, <2>1
  <2> DEFINE m == d.txid
             A == {i \in RowsOf(m) : log[i].key = k}
  <2>3. m \in P /\ m \in Txns /\ m \notin Sessions
    BY <1>4, <2>1, <2>2, LogFacts
  <2>4. \A i \in RowsOf(m) : i \in Nat /\ i \in 1..n /\ log[i].by = m /\ log[i].before # Free
    BY RowFacts DEF n
  <2>5. A \in SUBSET Nat /\ A # {}
    BY <1>5, <2>1, <2>2, <2>4
  <2>6. /\ \A i \in A : i \in RowsOf(m) /\ log[i].key = k
        /\ \A i \in 1..n : log[i].by = m /\ log[i].key = k => i \in A
    BY <1>5, <2>3
  <2> HIDE DEF A, m
  <2>7. PICK f \in A : \A y \in A : f <= y
    BY <2>5, LeastElement
  <2>8. f \in Nat /\ f \in 1..n /\ log[f].by = m /\ log[f].key = k /\ f \in RowsOf(m)
    BY <2>4, <2>6, <2>7
  <2>9. FirstOn(k, f)
    <3>1. ~IsUndo(f)
      BY <2>3, <2>8 DEF IsUndo
    <3>2. ASSUME NEW j \in 1..f - 1, log[j].key = k, log[j].by = log[f].by PROVE FALSE
      <4>1. j \in 1..n /\ j < f
        BY <1>2, <2>8
      <4>2. j \in A
        BY <2>6, <2>8, <3>2, <4>1
      <4> QED
        BY <2>7, <2>8, <4>1, <4>2
    <3> QED
      BY <2>8, <3>1, <3>2 DEF FirstOn
  <2>10. rows'[k] = log[f].before
    <3>1. \A j \in RowsOf(m) : log[j].key = log[f].key => f <= j
      BY <2>4, <2>6, <2>7, <2>8
    <3>2. work[s][k] = log[f].before
      BY <1>1, <1>14, <2>8, <3>1 DEF CleanCallOK, Rewound, m
    <3> QED
      BY <1>8, <2>4, <2>8, <3>2 DEF View
  <2>11. d.seen \in Nat /\ CleanAt(m, d.seen) /\ \A i \in RowsOf(m) : i <= d.seen
    <3>1. d \in [txid: Txns, seen: Nat]
      BY DEF TypeOK, UndoCalls
    <3>2. m \in Chosen(s)
      BY <2>3 DEF Chosen, P
    <3> QED
      BY <1>14, <3>1, <3>2 DEF CleanCallOK, m
  <2>12. ASSUME NEW j \in 1..n, log[j].key = k, ~IsUndo(j), log[j].by # m
         PROVE  j < f
    <3>1. CASE j <= d.seen
      <4>1. j \in 1..d.seen /\ f \in 1..d.seen
        BY <1>2, <2>8, <2>11, <3>1
      <4>2. PICK z \in 1..d.seen : log[z].by = m /\ log[z].key = k /\ j < z
        BY <2>8, <2>11, <2>12, <4>1 DEF CleanAt
      <4> SUFFICES ASSUME f <= j PROVE FALSE
        BY <1>2, <2>8
      <4>3. z \in 1..n
        <5>1. d.seen <= captured /\ captured <= n /\ captured \in Nat
          BY <1>14, LogFacts DEF CleanCallOK, n
        <5> QED
          BY <1>2, <2>11, <5>1
      <4>4. j \in f..z
        BY <2>8, <4>2, <4>3
      <4>5. log[j].by = m
        BY <2>3, <2>8, <4>2, <4>3, <4>4 DEF Blocks, n
      <4> QED
        BY <2>12, <4>5
    <3>2. CASE j > d.seen
      <4>1. v \in undone' /\ d \in v.what
        BY <1>1, <1>3
      <4>2. j \in d.seen + 1..v.at /\ f \in 1..d.seen
        BY <1>2, <1>3, <2>8, <2>11, <3>2
      <4>3. log'[j].key = k /\ ~IsUndo(j)' /\ log'[f].by = d.txid /\ log'[f].key = k
        BY <1>2, <1>9, <2>8, <2>12 DEF m
      <4>4. Raced(k)'
        BY <4>1, <4>2, <4>3 DEF Raced
      <4> QED
        BY <4>4
    <3> QED
      BY <1>2, <2>11, <3>1, <3>2
  <2>13. ASSUME NEW j \in 1..n, log[j].key = k, log[j].by \in P
         PROVE  log[j].by = m
    <3>1. PICK e \in undo[s].reversed : e.txid = log[j].by
      BY <1>6, <2>13
    <3>2. j \in RowsOf(e.txid)
      BY <1>5, <2>13, <3>1
    <3>3. CASE e.txid # d.txid
      <4>1. f \in RowsOf(d.txid)
        BY <2>8 DEF m
      <4>2. log[f].key # log[j].key
        BY <1>14, <3>2, <3>3, <4>1, Disjoint
      <4> QED
        BY <2>8, <2>13, <4>2
    <3> QED
      BY <3>1, <3>3 DEF m
  <2>14. Live(k)' = Live(k) \cap (1..f - 1)
    <3>1. ASSUME NEW i \in Live(k)' PROVE i \in Live(k) \cap (1..f - 1)
      <4>1. i \in Live(k) /\ log[i].by # m /\ i \in 1..n
        BY <1>11, <1>12, <2>3
      <4>2. log[i].key = k /\ ~IsUndo(i)
        BY <4>1 DEF Live
      <4>3. i < f
        BY <2>12, <4>1, <4>2
      <4> QED
        BY <1>2, <2>8, <4>1, <4>3
    <3>2. ASSUME NEW i \in Live(k) \cap (1..f - 1) PROVE i \in Live(k)'
      <4>1. i \in 1..n /\ log[i].key = k /\ i < f
        BY <1>12, <2>8, <3>2 DEF Live
      <4>2. log[i].by \notin P
        <5> SUFFICES ASSUME log[i].by \in P PROVE FALSE
          OBVIOUS
        <5>1. i \in A
          BY <2>6, <2>13, <4>1
        <5> QED
          BY <1>2, <2>7, <2>8, <4>1, <5>1
      <4> QED
        BY <1>11, <3>2, <4>2
    <3> QED
      BY <3>1, <3>2
  <2>15. \A i \in Live(k) : log'[i] = log[i]
    BY <1>2, <1>12
  <2>16. Tops(log', Live(k)', rows'[k], Initial[k])
    <3>1. Tops(log, Live(k) \cap (1..f - 1), log[f].before, Initial[k])
      BY <2>8, <2>9 DEF TrueRow, n
    <3>2. \A i \in Live(k) \cap (1..f - 1) : log'[i] = log[i]
      BY <2>15
    <3> QED
      BY <2>10, <2>14, <3>1, <3>2, TopsSame
  <2>17. ASSUME NEW i \in 1..Len(log'), FirstOn(k, i)'
         PROVE  Tops(log', Live(k)' \cap (1..i - 1), log'[i].before, Initial[k])
    <3>1. i \in 1..n /\ FirstOn(k, i) /\ log'[i] = log[i]
      BY <1>13, <2>17
    <3>2. log[i].key = k /\ ~IsUndo(i) /\ \A j \in 1..i - 1 : log[j].key = k => log[j].by # log[i].by
      BY <3>1 DEF FirstOn
    <3>3. i <= f
      <4>1. CASE log[i].by = m
        <5> SUFFICES ASSUME f < i PROVE FALSE
          BY <1>2, <2>8, <3>1
        <5>1. f \in 1..i - 1
          BY <1>2, <2>8, <3>1
        <5> QED
          BY <2>8, <3>2, <4>1, <5>1
      <4>2. CASE log[i].by # m
        <5>1. i < f
          BY <2>12, <3>1, <3>2, <4>2
        <5> QED
          BY <1>2, <2>8, <3>1, <5>1
      <4> QED
        BY <4>1, <4>2
    <3>4. Live(k)' \cap (1..i - 1) = Live(k) \cap (1..i - 1)
      BY <1>2, <2>8, <2>14, <3>1, <3>3
    <3>5. Tops(log, Live(k) \cap (1..i - 1), log[i].before, Initial[k])
      BY <3>1 DEF TrueRow, n
    <3>6. \A j \in Live(k) \cap (1..i - 1) : log'[j] = log[j]
      BY <2>15
    <3> QED
      BY <3>1, <3>4, <3>5, <3>6, TopsSame
  <2> QED
    BY <2>16, <2>17 DEF TrueRow
<1> QED
  BY <1>15, <1>16


LEMMA RacedStays ==
    ASSUME TypeOK, Reversals, AllClean, Grown, undone \subseteq undone', NEW k, Raced(k)
    PROVE  Raced(k)'
<1>1. PICK u \in undone : \E d \in u.what : \E i \in d.seen + 1..u.at :
        /\ log[i].key = k
        /\ ~IsUndo(i)
        /\ \E m \in 1..d.seen : log[m].by = d.txid /\ log[m].key = k
  BY DEF Raced
<1>2. PICK d \in u.what : \E i \in d.seen + 1..u.at :
        /\ log[i].key = k
        /\ ~IsUndo(i)
        /\ \E m \in 1..d.seen : log[m].by = d.txid /\ log[m].key = k
  BY <1>1
<1>3. PICK i \in d.seen + 1..u.at :
        /\ log[i].key = k
        /\ ~IsUndo(i)
        /\ \E m \in 1..d.seen : log[m].by = d.txid /\ log[m].key = k
  BY <1>2
<1>4. PICK m \in 1..d.seen : log[m].by = d.txid /\ log[m].key = k
  BY <1>3
<1>5. u.at \in Nat /\ d.seen \in Nat /\ Len(log) \in Nat /\ u.at <= Len(log) /\ d.seen <= Len(log)
  BY DEF TypeOK, AllClean, Reversals
<1>6. i \in 1..Len(log) /\ m \in 1..Len(log)
  BY <1>5
<1>7. log'[i] = log[i] /\ log'[m] = log[m]
  BY <1>6 DEF Grown
<1>8. log'[i].key = k /\ ~IsUndo(i)' /\ log'[m].by = d.txid /\ log'[m].key = k
  BY <1>3, <1>4, <1>7 DEF IsUndo
<1>9. u \in undone'
  OBVIOUS
<1> QED
  BY <1>8, <1>9 DEF Raced

LEMMA UndoneGrows ==
    ASSUME [Next]_vars
    PROVE  undone \subseteq undone'
BY DEF Next, AppNext, UndoNext, Write, Commit, Rollback, Capture, RecordRead, BeginUndo, Preview,
   Compensate, AbortUndo, CommitUndo, vars

LEMMA AsIfStep ==
    ASSUME IInv, UndoAssumption, Blocks, Calls, Reversals, AsIfNeverRun, [Next]_vars
    PROVE  AsIfNeverRun'
<1> USE DEF IInv
<1> SUFFICES ASSUME AllClean', NEW k \in Keys, ~Raced(k)'
             PROVE  TrueRow(k)'
  BY DEF AsIfNeverRun
<1>1. undone \subseteq undone' /\ Grown
  BY UndoneGrows, StepGrows
<1>2. AllClean
  <2> SUFFICES ASSUME NEW u \in undone PROVE undo[u.by].mode = "clean_only"
    BY DEF AllClean
  <2>1. u \in undone' /\ u.by \in Sessions
    BY <1>1 DEF TypeOK
  <2>2. undo'[u.by] = undo[u.by]
    BY <2>1, CommittedStays DEF Reversals
  <2> QED
    BY <2>1, <2>2 DEF AllClean
<1>3. TrueRow(k)
  <2>1. ~Raced(k)
    BY <1>1, <1>2, RacedStays
  <2> QED
    BY <1>2, <2>1 DEF AsIfNeverRun
<1>4. CASE UNCHANGED <<log, rows, undone>>
  BY <1>3, <1>4 DEF TrueRow, Live, Reversed, FirstOn, IsUndo
<1>5. CASE AppNext
  <2>1. ASSUME NEW t \in Txns, Commit(t) PROVE TrueRow(k)'
    BY <1>2, <1>3, <2>1, CommitTrue
  <2>2. CASE \E t \in Txns : Rollback(t)
    BY <1>4, <2>2 DEF Rollback
  <2>3. CASE \E t \in Txns, q \in Keys : \E image \in {t, NoRow} : Write(t, q, image)
    BY <1>4, <2>3 DEF Write
  <2> QED
    BY <1>5, <2>1, <2>2, <2>3 DEF AppNext
<1>6. CASE Capture
  BY <1>4, <1>6 DEF Capture
<1>7. CASE \E r, w \in Txns : RecordRead(r, w)
  BY <1>4, <1>7 DEF RecordRead
<1>8. CASE UndoNext
  <2>1. CASE \E s \in Sessions, mode \in Modes : \E members \in SUBSET Recorded :
               \E cohort \in BOOLEAN : BeginUndo(s, members, mode, cohort)
    BY <1>4, <2>1 DEF BeginUndo
  <2>2. CASE \E s \in Sessions : Preview(s) \/ Compensate(s) \/ AbortUndo(s)
    BY <1>4, <2>2 DEF Preview, Compensate, AbortUndo
  <2>3. ASSUME NEW s \in Sessions, CommitUndo(s) PROVE TrueRow(k)'
    <3> DEFINE v == [by |-> s, what |-> undo[s].reversed, at |-> Len(log)]
    <3>1. v.by = s /\ v \in undone' /\ undo[s].state = "active" /\ undo'[s].mode = undo[s].mode
      BY <2>3 DEF CommitUndo, TypeOK, UndoCalls
    <3>2. undo[s].mode = "clean_only"
      BY <3>1 DEF AllClean
    <3>3. CleanCallOK(s)
      BY <3>1, <3>2 DEF Calls, CallInv
    <3> QED
      BY <1>3, <2>3, <3>3, UndoTrue
  <2> QED
    BY <1>8, <2>1, <2>2, <2>3 DEF UndoNext
<1>9. CASE UNCHANGED vars
  BY <1>4, <1>9 DEF vars
<1> QED
  BY <1>5, <1>6, <1>7, <1>8, <1>9 DEF Next

LEMMA InitReversals == UndoAssumption /\ Init => Reversals /\ AsIfNeverRun
<1> SUFFICES ASSUME UndoAssumption, Init PROVE Reversals /\ AsIfNeverRun
  OBVIOUS
<1>1. Reversals
  BY DEF Init, Reversals
<1>2. Len(log) = 0 /\ rows = Initial
  BY DEF Init
<1>3. \A k \in Keys : Live(k) = {}
  BY <1>2 DEF Live
<1>4. \A k \in Keys : TrueRow(k)
  BY <1>2, <1>3 DEF TrueRow, Tops
<1> QED
  BY <1>1, <1>4 DEF AsIfNeverRun

(* The inductive invariant of the calls. *)
UndoInv == IInv /\ Blocks /\ Calls /\ Reversals /\ AsIfNeverRun

LEMMA UndoInvariance == Spec => []UndoInv
<1>1. Init => UndoInv
  BY InitInv, InitCalls, InitReversals, UndoAssumption DEF UndoInv
<1>2. Spec => []IInv
  BY Invariance
<1>3. UndoInv /\ IInv' /\ [Next]_vars => UndoInv'
  <2> SUFFICES ASSUME UndoInv, IInv', [Next]_vars PROVE UndoInv'
    OBVIOUS
  <2>1. IInv /\ TypeOK' /\ Blocks /\ Calls /\ Reversals /\ AsIfNeverRun
    BY DEF UndoInv, IInv
  <2>2. Blocks' /\ Calls' /\ Reversals' /\ AsIfNeverRun'
    BY <2>1, UndoAssumption, BlocksStep, CallsStep, ReversalsStep, AsIfStep
  <2> QED
    BY <2>2 DEF UndoInv
<1> QED
  BY <1>1, <1>2, <1>3, PTL DEF Spec

(* As long as every call that committed was clean_only, an undone            *)
(* transaction is as if it had never run: every row that no one wrote behind *)
(* the back of a classification is what the last change of a transaction not *)
(* undone made it, or the initial row.                                       *)
THEOREM CleanUndoIsExact == Spec => []CleanUndoExact
<1>1. UndoInv => CleanUndoExact
  BY DEF UndoInv, AsIfNeverRun, AllClean, TrueRow, Tops, CleanUndoExact
<1> QED
  BY <1>1, UndoInvariance, PTL

(* Whatever its mode, a call that commits has put every row of the last      *)
(* transaction it reversed back to the image before that transaction's first *)
(* change of it.                                                             *)
THEOREM CommittedUndoRestores == Spec => UndoRestoresBeforeImage
<1> DEFINE Restores ==
         \A s \in Sessions :
           undo[s].state = "active" /\ undo'[s].state = "committed" =>
             \A i \in RowsOf(undo[s].target) :
               (\A j \in RowsOf(undo[s].target) : log[j].key = log[i].key => i <= j)
                  => rows'[log[i].key] = log[i].before
<1>1. UndoInv /\ [Next]_vars => Restores
  <2> SUFFICES ASSUME UndoInv, [Next]_vars, NEW s \in Sessions,
                      undo[s].state = "active", undo'[s].state = "committed",
                      NEW i \in RowsOf(undo[s].target),
                      \A j \in RowsOf(undo[s].target) : log[j].key = log[i].key => i <= j
               PROVE  rows'[log[i].key] = log[i].before
    OBVIOUS
  <2>1. TypeOK /\ CallOK(s)
    BY DEF UndoInv, IInv, Calls, CallInv
  <2>2. CommitUndo(s)
    <3>1. undo \in [Sessions -> UndoCalls] /\ undo'[s].state # undo[s].state
      BY <2>1 DEF TypeOK
    <3>2. ~UNCHANGED undo
      BY <3>1
    <3>3. PICK o \in Sessions :
            \/ \E mode \in Modes : \E members \in SUBSET Recorded : \E cohort \in BOOLEAN :
                 BeginUndo(o, members, mode, cohort)
            \/ Preview(o) \/ Compensate(o) \/ AbortUndo(o) \/ CommitUndo(o)
      BY <3>2 DEF Next, AppNext, UndoNext, Write, Commit, Rollback, Capture, RecordRead, vars
    <3>4. ASSUME NEW mode \in Modes, NEW members \in SUBSET Recorded, NEW cohort \in BOOLEAN,
                 BeginUndo(o, members, mode, cohort)
          PROVE  FALSE
      BY <3>1, <3>4 DEF BeginUndo, UndoCalls
    <3>5. CASE Preview(o)
      BY <2>1, <3>1, <3>5, PreviewOthers
    <3>6. CASE Compensate(o)
      BY <3>1, <3>6 DEF Compensate, UndoCalls
    <3>7. CASE AbortUndo(o)
      <4>1. [NoCall EXCEPT !.state = "aborted"].state = "aborted"
        BY DEF NoCall
      <4> QED
        BY <3>1, <3>7, <4>1 DEF AbortUndo
    <3>8. CASE CommitUndo(o)
      <4>1. o = s
        BY <3>1, <3>8 DEF CommitUndo, UndoCalls
      <4> QED
        BY <3>8, <4>1
    <3> QED
      BY <3>3, <3>4, <3>5, <3>6, <3>7, <3>8
  <2>3. undo[s].left = {} /\ rows' = [k \in Keys |-> View(s, k)]
    BY <2>2 DEF CommitUndo, Publish
  <2>4. work[s][log[i].key] = log[i].before
    BY <2>1, <2>3 DEF CallOK, Rewound
  <2>5. log[i].key \in Keys /\ log[i].before # Free
    BY <2>1, UndoAssumption, RowFacts
  <2> QED
    BY <2>3, <2>4, <2>5 DEF View
<1> HIDE DEF Restores
<1>2. Spec => [][Restores]_vars
  BY <1>1, UndoInvariance, PTL DEF Spec
<1> QED
  BY <1>2 DEF UndoRestoresBeforeImage, Restores
=============================================================================
