--------------------------- MODULE TwoDbUndoProofs ---------------------------
(***************************************************************************)
(* Theorems about TwoDbUndo, for any number of callers, transactions and   *)
(* faults.  They are stated for a step that is a little more general than  *)
(* UNext, so that module DemoTourProofs can use them for a client that     *)
(* writes the tenant by itself and may go away in the middle of a call.    *)
(***************************************************************************)
EXTENDS TwoDbUndo, OrderLemmas, SequenceTheorems

-----------------------------------------------------------------------------
(* Types. *)

Writes == UNION {[S -> Images] : S \in SUBSET Keys}
Entry == {e \in [of : Nat, read : SUBSET Keys, after : Writes, before : Writes] :
             DOMAIN e.before = DOMAIN e.after}

Modes == {"clean_only", "cascade", "targeted"}
Answers == {"none", "applied", "not found", "dependent", "failed"}
CallRecord == [step : {"idle", "check", "plan", "apply", "mark"}, mode : Modes, cohort : BOOLEAN,
               todo : SUBSET Nat, target : Nat, plan : SUBSET Nat, seen : Nat, wrote : Nat,
               answer : Answers]

\* A call names transactions of the log; when it is about to reverse one, its
\* plan has every transaction of the application that the store had by then and
\* that wrote a row of the target; what it is to mark is a compensation.
CallOk(r, l) ==
    /\ r \in CallRecord
    /\ r.todo \subseteq 1..Len(l) /\ r.wrote \in 0..Len(l)
    /\ r.step \in {"check", "plan"} => r.todo # {}
    /\ r.step = "apply" =>
         /\ r.target \in 1..Len(l) /\ r.seen \in 0..Len(l)
         /\ r.plan \subseteq 1..Len(l) /\ \A j \in r.plan : r.target < j
         /\ \A j \in 1..r.seen :
              /\ l[j].of = 0 /\ r.target < j
              /\ DOMAIN l[j].after \cap DOMAIN l[r.target].after # {}
              => j \in r.plan
    /\ r.step = "mark" => r.wrote # 0 /\ l[r.wrote].of # 0

AppliedOk(a, n) ==
    /\ a.id \in 1..n /\ a.what \subseteq 1..n /\ a.seen \in Nat

UInv ==
    /\ case \in Cases
    /\ rows \in [Keys -> Images]
    /\ log \in Seq(Entry)
    /\ captured \in 0..Len(log)
    /\ markers \subseteq 1..Len(log) /\ \A i \in markers : log[i].of # 0
    /\ stamped \subseteq markers \cap 1..captured
    /\ call \in [Callers -> CallRecord]
    /\ \A c \in Callers : CallOk(call[c], log)
    /\ \A a \in applied : AppliedOk(a, Len(log))

-----------------------------------------------------------------------------
(* Steps. *)

others == <<case, captured, stamped, markers, call, used, applied>>

\* A transaction of the application.
Writing == \E after \in Writes, R \in SUBSET Keys : Commit(0, R, after) /\ UNCHANGED others

Calling(c) ==
    \E mode \in Modes, todo \in SUBSET (1..Len(log)), cohort \in BOOLEAN :
        todo # {} /\ Begin(c, mode, todo, cohort)

\* The client goes away; nothing else changes.
Leaving(c) ==
    /\ Goto(c, NoCall)
    /\ UNCHANGED <<case, rows, log, captured, stamped, markers, used, applied>>

UStep ==
    \/ Writing \/ CaptureCommit
    \/ \E c \in Callers : Calling(c) \/ Leaving(c) \/ CallStep(c)

\* The log has one entry more.
Grows(e) == e \in Entry /\ log' = Append(log, e)

LEMMA GrowsFacts ==
    ASSUME log \in Seq(Entry), NEW e \in Entry, log' = Append(log, e)
    PROVE  /\ log' \in Seq(Entry) /\ Len(log) \in Nat /\ Len(log') = Len(log) + 1
           /\ \A i \in 1..Len(log) : log'[i] = log[i]
           /\ log'[Len(log) + 1] = e
BY AppendProperties

LEMMA LogFacts ==
    ASSUME log \in Seq(Entry)
    PROVE  /\ Len(log) \in Nat
           /\ \A i \in 1..Len(log) :
                /\ log[i] \in Entry /\ log[i].of \in Nat /\ log[i].read \in SUBSET Keys
                /\ KeysOf(i) \in SUBSET Keys /\ DOMAIN log[i].before = KeysOf(i)
                /\ \A k \in KeysOf(i) : log[i].after[k] \in Images /\ log[i].before[k] \in Images
<1>1. Len(log) \in Nat /\ \A i \in 1..Len(log) : log[i] \in Entry
  BY ElementOfSeq, LenProperties
<1>2. ASSUME NEW i \in 1..Len(log)
      PROVE  /\ log[i] \in Entry /\ log[i].of \in Nat /\ log[i].read \in SUBSET Keys
             /\ KeysOf(i) \in SUBSET Keys /\ DOMAIN log[i].before = KeysOf(i)
             /\ \A k \in KeysOf(i) : log[i].after[k] \in Images /\ log[i].before[k] \in Images
  <2> DEFINE e == log[i]
  <2>1. e \in Entry
    BY <1>1
  <2>2. e.of \in Nat /\ e.read \in SUBSET Keys /\ e.after \in Writes /\ e.before \in Writes
        /\ DOMAIN e.before = DOMAIN e.after
    BY <2>1 DEF Entry
  <2>3. PICK S \in SUBSET Keys : e.after \in [S -> Images]
    BY <2>2 DEF Writes
  <2>4. PICK T \in SUBSET Keys : e.before \in [T -> Images]
    BY <2>2 DEF Writes
  <2>5. DOMAIN e.after = S /\ DOMAIN e.before = T /\ S = T
    BY <2>2, <2>3, <2>4
  <2> QED
    BY <2>1, <2>2, <2>3, <2>4, <2>5 DEF KeysOf
<1> QED
  BY <1>1, <1>2

LEMMA EntryMade ==
    ASSUME rows \in [Keys -> Images], NEW of \in Nat, NEW read \in SUBSET Keys,
           NEW after \in Writes
    PROVE  /\ [of |-> of, read |-> read, after |-> after,
               before |-> [k \in DOMAIN after |-> rows[k]]] \in Entry
           /\ DOMAIN after \in SUBSET Keys
           /\ \A k \in DOMAIN after : after[k] \in Images
<1>1. PICK S \in SUBSET Keys : after \in [S -> Images]
  BY DEF Writes
<1>2. DOMAIN after = S
  BY <1>1
<1>3. [k \in DOMAIN after |-> rows[k]] \in [S -> Images]
  BY <1>1, <1>2
<1>4. [k \in DOMAIN after |-> rows[k]] \in Writes
  BY <1>3 DEF Writes
<1> QED
  BY <1>1, <1>2, <1>4 DEF Entry

\* A commit appends an entry, and the rows are as it left them.
Committed(of, read, after) ==
    /\ log' \in Seq(Entry) /\ Len(log) \in Nat /\ Len(log') = Len(log) + 1
    /\ \A i \in 1..Len(log) : log'[i] = log[i]
    /\ log'[Len(log) + 1] = [of |-> of, read |-> read, after |-> after,
                             before |-> [k \in DOMAIN after |-> rows[k]]]
    /\ DOMAIN after \in SUBSET Keys
    /\ rows' \in [Keys -> Images]

LEMMA CommitFacts ==
    ASSUME log \in Seq(Entry), rows \in [Keys -> Images], NEW of \in Nat,
           NEW read \in SUBSET Keys, NEW after \in Writes, Commit(of, read, after)
    PROVE  Committed(of, read, after)
<1> DEFINE e == [of |-> of, read |-> read, after |-> after,
                 before |-> [k \in DOMAIN after |-> rows[k]]]
<1>1. e \in Entry /\ DOMAIN after \in SUBSET Keys /\ \A k \in DOMAIN after : after[k] \in Images
  BY EntryMade
<1>2. log' = Append(log, e)
  BY DEF Commit
<1> HIDE DEF e
<1>3. /\ log' \in Seq(Entry) /\ Len(log) \in Nat /\ Len(log') = Len(log) + 1
      /\ \A i \in 1..Len(log) : log'[i] = log[i]
      /\ log'[Len(log) + 1] = e
  BY <1>1, <1>2, GrowsFacts
<1>4. rows' \in [Keys -> Images]
  BY <1>1 DEF Commit
<1> QED
  BY <1>1, <1>3, <1>4 DEF Committed, e

-----------------------------------------------------------------------------
(* What grows with the log. *)

Extends(l, m) ==
    /\ Len(l) \in Nat /\ Len(m) \in Nat /\ Len(l) <= Len(m)
    /\ \A i \in 1..Len(l) : m[i] = l[i]

LEMMA CallKept ==
    ASSUME NEW r, NEW l, NEW m, CallOk(r, l), Extends(l, m)
    PROVE  CallOk(r, m)
<1>1. r.todo \subseteq 1..Len(m) /\ r.wrote \in 0..Len(m)
  BY DEF CallOk, Extends
<1>2. ASSUME r.step = "apply"
      PROVE  /\ r.target \in 1..Len(m) /\ r.seen \in 0..Len(m)
             /\ r.plan \subseteq 1..Len(m) /\ \A j \in r.plan : r.target < j
             /\ \A j \in 1..r.seen :
                  /\ m[j].of = 0 /\ r.target < j
                  /\ DOMAIN m[j].after \cap DOMAIN m[r.target].after # {}
                  => j \in r.plan
  <2>1. /\ r.target \in 1..Len(l) /\ r.seen \in 0..Len(l)
        /\ r.plan \subseteq 1..Len(l) /\ \A j \in r.plan : r.target < j
    BY <1>2 DEF CallOk
  <2>2. m[r.target] = l[r.target]
    BY <2>1 DEF Extends
  <2>3. \A j \in 1..r.seen : m[j] = l[j]
    BY <2>1 DEF Extends
  <2>4. \A j \in 1..r.seen :
          /\ l[j].of = 0 /\ r.target < j
          /\ DOMAIN l[j].after \cap DOMAIN l[r.target].after # {}
          => j \in r.plan
    BY <1>2 DEF CallOk
  <2> QED
    BY <2>1, <2>2, <2>3, <2>4 DEF Extends
<1>3. ASSUME r.step = "mark"
      PROVE  r.wrote # 0 /\ m[r.wrote].of # 0
  BY <1>3 DEF CallOk, Extends
<1> QED
  BY <1>1, <1>2, <1>3 DEF CallOk

LEMMA AppliedKept ==
    ASSUME NEW a, NEW n \in Nat, NEW m \in Nat, n <= m, AppliedOk(a, n)
    PROVE  AppliedOk(a, m)
BY DEF AppliedOk

LEMMA CallSet ==
    ASSUME UInv, Extends(log, log'), NEW c \in Callers, NEW r, CallOk(r, log'), Goto(c, r)
    PROVE  /\ call' \in [Callers -> CallRecord]
           /\ \A d \in Callers : CallOk(call'[d], log')
<1>1. r \in CallRecord
  BY DEF CallOk
<1>2. ASSUME NEW d \in Callers
      PROVE  CallOk(call'[d], log')
  <2>1. CASE d = c
    BY <2>1 DEF Goto, UInv
  <2>2. CASE d # c
    <3>1. call'[d] = call[d] /\ CallOk(call[d], log)
      BY <2>2 DEF Goto, UInv
    <3> QED
      BY <3>1, CallKept
  <2> QED
    BY <2>1, <2>2
<1> QED
  BY <1>1, <1>2 DEF Goto, UInv

LEMMA CallsKept ==
    ASSUME UInv, Extends(log, log'), call' = call
    PROVE  /\ call' \in [Callers -> CallRecord]
           /\ \A d \in Callers : CallOk(call'[d], log')
BY CallKept DEF UInv

LEMMA SameLog ==
    ASSUME log \in Seq(Entry), log' = log
    PROVE  Extends(log, log')
BY LogFacts DEF Extends

\* Calls that rest, and calls that start.
LEMMA SomeAnswers ==
    /\ "none" \in Answers /\ "applied" \in Answers /\ "not found" \in Answers
    /\ "dependent" \in Answers /\ "failed" \in Answers
BY Zenon DEF Answers

LEMMA NoCallRecord ==
    /\ NoCall \in CallRecord
    /\ NoCall.step = "idle" /\ NoCall.todo = {} /\ NoCall.wrote = 0
BY SomeAnswers DEF NoCall, CallRecord, Modes

LEMMA RestingCall ==
    ASSUME NEW l, Len(l) \in Nat,
           NEW a \in Answers
    PROVE  CallOk([NoCall EXCEPT !.answer = a], l) /\ CallOk(NoCall, l)
<1> DEFINE r == [NoCall EXCEPT !.answer = a]
<1>1. r \in CallRecord /\ r.step = "idle" /\ r.todo = {} /\ r.wrote = 0
  BY NoCallRecord DEF CallRecord
<1> HIDE DEF r
<1>2. CallOk(r, l)
  <2>1. r.step \notin {"check", "plan"} /\ r.step # "apply" /\ r.step # "mark"
    BY <1>1
  <2>2. r.todo \subseteq 1..Len(l) /\ r.wrote \in 0..Len(l)
    BY <1>1
  <2> QED
    BY <1>1, <2>1, <2>2 DEF CallOk
<1>3. CallOk(NoCall, l)
  <2>1. NoCall.step \notin {"check", "plan"} /\ NoCall.step # "apply" /\ NoCall.step # "mark"
    BY NoCallRecord
  <2>2. NoCall.todo \subseteq 1..Len(l) /\ NoCall.wrote \in 0..Len(l)
    BY NoCallRecord
  <2> QED
    BY NoCallRecord, <2>1, <2>2 DEF CallOk
<1> QED
  BY <1>2, <1>3 DEF r

Starting(step, mode, cohort, todo) ==
    [NoCall EXCEPT !.step = step, !.mode = mode, !.cohort = cohort, !.todo = todo]

LEMMA StartingCall ==
    ASSUME NEW l, Len(l) \in Nat, NEW mode \in Modes, NEW cohort \in BOOLEAN,
           NEW todo \in SUBSET (1..Len(l)), todo # {},
           NEW step \in {"check", "plan"}
    PROVE  CallOk(Starting(step, mode, cohort, todo), l)
<1>1. todo \in SUBSET Nat
  OBVIOUS
<1> DEFINE r == Starting(step, mode, cohort, todo)
<1>2. r \in CallRecord /\ r.step = step /\ r.todo = todo /\ r.wrote = 0
  BY <1>1, NoCallRecord DEF Starting, CallRecord, Modes
<1>4. step # "apply" /\ step # "mark"
  OBVIOUS
<1> HIDE DEF r
<1>5. CallOk(r, l)
  BY <1>2, <1>4 DEF CallOk
<1> QED
  BY <1>5 DEF r

Proceeding(r) ==
    IF r.todo = {} THEN [NoCall EXCEPT !.answer = "applied"]
    ELSE [NoCall EXCEPT !.step = Entrance(r.mode, r.cohort), !.mode = r.mode,
                        !.cohort = r.cohort, !.todo = r.todo]

LEMMA ProceedingCall ==
    ASSUME NEW l, Len(l) \in Nat, NEW r \in CallRecord, r.todo \subseteq 1..Len(l)
    PROVE  CallOk(Proceeding(r), l)
<1>1. CASE r.todo = {}
  <2>1. Proceeding(r) = [NoCall EXCEPT !.answer = "applied"]
    BY <1>1 DEF Proceeding
  <2> QED
    BY <2>1, RestingCall, SomeAnswers
<1>2. CASE r.todo # {}
  <2>1. r.mode \in Modes /\ r.cohort \in BOOLEAN /\ r.todo \in SUBSET (1..Len(l))
    BY DEF CallRecord
  <2>2. Entrance(r.mode, r.cohort) \in {"check", "plan"}
    BY DEF Entrance
  <2>3. Proceeding(r) = Starting(Entrance(r.mode, r.cohort), r.mode, r.cohort, r.todo)
    <3>1. Proceeding(r) = [NoCall EXCEPT !.step = Entrance(r.mode, r.cohort), !.mode = r.mode,
                                         !.cohort = r.cohort, !.todo = r.todo]
      BY <1>2 DEF Proceeding
    <3> QED
      BY <3>1 DEF Starting
  <2> HIDE DEF Starting
  <2>4. CallOk(Starting(Entrance(r.mode, r.cohort), r.mode, r.cohort, r.todo), l)
    BY <1>2, <2>1, <2>2, StartingCall
  <2> QED
    BY <2>3, <2>4
<1> QED
  BY <1>1, <1>2

LEMMA Shortened ==
    ASSUME NEW r \in CallRecord, NEW m
    PROVE  /\ [r EXCEPT !.todo = @ \ {m}] \in CallRecord
           /\ [r EXCEPT !.todo = @ \ {m}].todo = r.todo \ {m}
BY DEF CallRecord

LEMMA NewestOne ==
    ASSUME NEW n \in Nat, NEW S \in SUBSET (1..n), S # {}
    PROVE  Newest(S) \in S /\ \A j \in S : j <= Newest(S)
<1>1. S \in SUBSET (0..n)
  OBVIOUS
<1> QED
  BY <1>1, ChosenGreatest DEF Newest

LEMMA OldestOne ==
    ASSUME NEW n \in Nat, NEW S \in SUBSET (1..n), S # {}
    PROVE  Oldest(S) \in S /\ \A j \in S : Oldest(S) <= j
<1>1. S \in SUBSET Nat
  OBVIOUS
<1> QED
  BY <1>1, ChosenLeast DEF Oldest

-----------------------------------------------------------------------------
(* The planned call. *)

Planned(r, m, plan, seen) ==
    [r EXCEPT !.step = "apply", !.target = m, !.plan = plan, !.seen = seen]

LEMMA PlannedRecord ==
    ASSUME NEW r \in CallRecord, NEW m \in Nat, NEW plan \in SUBSET Nat, NEW seen \in Nat
    PROVE  LET p == Planned(r, m, plan, seen)
           IN  /\ p \in CallRecord /\ p.step = "apply" /\ p.target = m /\ p.plan = plan
               /\ p.seen = seen /\ p.todo = r.todo /\ p.wrote = r.wrote
BY DEF Planned, CallRecord

Marking(r, n) == [r EXCEPT !.step = "mark", !.wrote = n]

LEMMA MarkingRecord ==
    ASSUME NEW r \in CallRecord, NEW n \in Nat
    PROVE  LET p == Marking(r, n)
           IN  p \in CallRecord /\ p.step = "mark" /\ p.wrote = n /\ p.todo = r.todo
BY DEF Marking, CallRecord

Waiting(r) == [r EXCEPT !.step = "plan"]

LEMMA WaitingRecord ==
    ASSUME NEW r \in CallRecord
    PROVE  LET p == Waiting(r)
           IN  p \in CallRecord /\ p.step = "plan" /\ p.wrote = r.wrote /\ p.todo = r.todo
BY DEF Waiting, CallRecord

-----------------------------------------------------------------------------
(* Every step keeps the types. *)

\* What a step that leaves the log alone has to show.
LEMMA QuietStep ==
    ASSUME UInv, UNCHANGED <<case, rows, log, applied>>,
           captured' \in 0..Len(log),
           markers' \subseteq 1..Len(log), \A i \in markers' : log[i].of # 0,
           stamped' \subseteq markers' \cap 1..captured',
           call' \in [Callers -> CallRecord], \A c \in Callers : CallOk(call'[c], log)
    PROVE  UInv'
BY DEF UInv

LEMMA CallStepQuiet ==
    ASSUME UInv, NEW c \in Callers, NEW r, CallOk(r, log), Goto(c, r),
           UNCHANGED <<case, rows, log, captured, stamped, applied>>,
           markers' \subseteq 1..Len(log), \A i \in markers' : log[i].of # 0,
           markers \subseteq markers'
    PROVE  UInv'
<1>1. log \in Seq(Entry) /\ Extends(log, log')
  BY SameLog DEF UInv
<1>2. CallOk(r, log')
  OBVIOUS
<1>3. call' \in [Callers -> CallRecord] /\ \A d \in Callers : CallOk(call'[d], log')
  BY <1>1, <1>2, CallSet
<1>4. captured' \in 0..Len(log) /\ stamped' \subseteq markers' \cap 1..captured'
  BY DEF UInv
<1> QED
  BY <1>3, <1>4, QuietStep

LEMMA CaptureStep ==
    ASSUME UInv, CaptureCommit
    PROVE  UInv'
<1>1. Len(log) \in Nat /\ captured \in 0..Len(log) /\ captured < Len(log)
      /\ captured' = captured + 1 /\ stamped' = stamped \cup ({captured + 1} \cap markers)
      /\ UNCHANGED <<case, rows, log, markers, call, applied>>
  BY LogFacts DEF CaptureCommit, UInv
<1>2. captured' \in 0..Len(log)
  BY <1>1
<1>3. stamped \subseteq markers \cap 1..captured
  BY DEF UInv
<1>4. stamped' \subseteq markers' \cap 1..captured'
  BY <1>1, <1>3
<1>5. /\ markers' \subseteq 1..Len(log) /\ (\A i \in markers' : log[i].of # 0)
      /\ call' \in [Callers -> CallRecord] /\ (\A c \in Callers : CallOk(call'[c], log))
  BY <1>1 DEF UInv
<1> QED
  BY <1>1, <1>2, <1>4, <1>5, QuietStep

LEMMA MarkersStay ==
    ASSUME UInv, markers' = markers
    PROVE  /\ markers' \subseteq 1..Len(log)
           /\ \A i \in markers' : log[i].of # 0
           /\ markers \subseteq markers'
BY DEF UInv

LEMMA CallingStep ==
    ASSUME UInv, NEW c \in Callers, Calling(c)
    PROVE  UInv'
<1>1. PICK mode \in Modes, todo \in SUBSET (1..Len(log)), cohort \in BOOLEAN :
         todo # {} /\ Begin(c, mode, todo, cohort)
  BY DEF Calling
<1>2. Entrance(mode, cohort) \in {"check", "plan"} /\ Len(log) \in Nat
  BY LogFacts DEF Entrance, UInv
<1>3. CallOk(Starting(Entrance(mode, cohort), mode, cohort, todo), log)
  BY <1>1, <1>2, StartingCall
<1>4. Goto(c, Starting(Entrance(mode, cohort), mode, cohort, todo))
      /\ UNCHANGED <<case, rows, log, captured, stamped, markers, applied>>
  BY <1>1 DEF Begin, Starting
<1> QED
  BY <1>3, <1>4, MarkersStay, CallStepQuiet

LEMMA EndingStep ==
    ASSUME UInv, NEW c \in Callers, NEW a \in Answers, End(c, a) \/ Goto(c, NoCall),
           UNCHANGED <<case, rows, log, captured, stamped, markers, applied>>
    PROVE  UInv'
<1>1. Len(log) \in Nat
  BY LogFacts DEF UInv
<1>2. CallOk([NoCall EXCEPT !.answer = a], log) /\ CallOk(NoCall, log)
  BY <1>1, RestingCall
<1>3. PICK r : CallOk(r, log) /\ Goto(c, r)
  BY <1>2 DEF End
<1> QED
  BY <1>3, MarkersStay, CallStepQuiet

LEMMA Reading ==
    ASSUME UInv, NEW c \in Callers
    PROVE  /\ Len(log) \in Nat /\ call[c] \in CallRecord /\ CallOk(call[c], log)
           /\ call[c].todo \in SUBSET Nat /\ call[c].todo \subseteq 1..Len(log)
           /\ call[c].mode \in Modes
           /\ captured \in 0..Len(log) /\ Tracked \subseteq 1..Len(log)
           /\ \A m : Conflicts(m) \subseteq {j \in Tracked : j > m}
<1>1. Len(log) \in Nat /\ call[c] \in CallRecord /\ CallOk(call[c], log)
      /\ captured \in 0..Len(log)
  BY LogFacts DEF UInv
<1> QED
  BY <1>1 DEF CallOk, CallRecord, Tracked, Conflicts

LEMMA CheckStep ==
    ASSUME UInv, NEW c \in Callers, Check(c)
    PROVE  UInv'
<1> DEFINE m == Newest(call[c].todo)
           short == [call[c] EXCEPT !.todo = @ \ {m}]
<1>0. Len(log) \in Nat /\ call[c] \in CallRecord /\ CallOk(call[c], log)
      /\ call[c].todo \subseteq 1..Len(log)
  BY Reading
<1>1. call[c].step = "check" /\ (Goto(c, Waiting(call[c])) \/ Goto(c, Proceeding(short)))
      /\ UNCHANGED <<case, rows, log, captured, stamped, markers, applied>>
  BY DEF Check, Waiting, Proceed, Proceeding
<1>2. CallOk(Waiting(call[c]), log)
  <2> DEFINE p == Waiting(call[c])
  <2>1. p \in CallRecord /\ p.step = "plan" /\ p.wrote = call[c].wrote /\ p.todo = call[c].todo
    BY <1>0, WaitingRecord
  <2>2. call[c].todo # {} /\ call[c].wrote \in 0..Len(log)
    BY <1>0, <1>1 DEF CallOk
  <2> HIDE DEF p
  <2>3. CallOk(p, log)
    BY <1>0, <2>1, <2>2 DEF CallOk
  <2> QED
    BY <2>3 DEF p
<1>3. CallOk(Proceeding(short), log)
  <2>1. short \in CallRecord /\ short.todo \subseteq 1..Len(log)
    BY <1>0, Shortened
  <2> HIDE DEF short
  <2> QED
    BY <1>0, <2>1, ProceedingCall
<1> HIDE DEF short
<1> QED
  BY <1>1, <1>2, <1>3, MarkersStay, CallStepQuiet

LEMMA MarkingStep ==
    ASSUME UInv, NEW c \in Callers, Mark(c) \/ LoseMark(c)
    PROVE  UInv'
<1> DEFINE short == [call[c] EXCEPT !.todo = @ \ {call[c].target}]
<1>0. Len(log) \in Nat /\ call[c] \in CallRecord /\ CallOk(call[c], log)
      /\ call[c].todo \subseteq 1..Len(log)
  BY Reading
<1>1. call[c].step = "mark" /\ Goto(c, Proceeding(short))
      /\ markers' \in {markers, markers \cup {call[c].wrote}}
      /\ UNCHANGED <<case, rows, log, captured, stamped, applied>>
  BY DEF Mark, LoseMark, Proceed, Proceeding
<1>2. CallOk(Proceeding(short), log)
  <2>1. short \in CallRecord /\ short.todo \subseteq 1..Len(log)
    BY <1>0, Shortened
  <2> HIDE DEF short
  <2> QED
    BY <1>0, <2>1, ProceedingCall
<1>3. call[c].wrote \in 1..Len(log) /\ log[call[c].wrote].of # 0
  BY <1>0, <1>1 DEF CallOk
<1>4. markers' \subseteq 1..Len(log) /\ (\A i \in markers' : log[i].of # 0)
      /\ markers \subseteq markers'
  BY <1>1, <1>3 DEF UInv
<1> HIDE DEF short
<1> QED
  BY <1>1, <1>2, <1>4, CallStepQuiet

LEMMA EndStep ==
    ASSUME UInv, NEW c \in Callers, Raise(c) \/ CutShort(c) \/ Leaving(c)
    PROVE  UInv'
<1>1. ASSUME NEW a \in Answers, End(c, a) \/ Goto(c, NoCall),
             UNCHANGED <<case, rows, log, captured, stamped, markers, applied>>
      PROVE  UInv'
  BY <1>1, EndingStep
<1>2. CASE Raise(c)
  BY <1>1, <1>2, SomeAnswers DEF Raise
<1>3. CASE CutShort(c)
  BY <1>1, <1>3, SomeAnswers DEF CutShort
<1>4. CASE Leaving(c)
  BY <1>1, <1>4, SomeAnswers DEF Leaving
<1> QED
  BY <1>2, <1>3, <1>4

LEMMA PlanStep ==
    ASSUME UInv, NEW c \in Callers, Plan(c)
    PROVE  UInv'
<1> DEFINE m == Newest(call[c].todo)
           p == Planned(call[c], m, Conflicts(m), captured)
<1>0. Len(log) \in Nat /\ call[c] \in CallRecord /\ CallOk(call[c], log)
      /\ call[c].todo \in SUBSET (1..Len(log)) /\ captured \in 0..Len(log)
      /\ Tracked \subseteq 1..Len(log)
  BY Reading
<1>1. /\ call[c].step = "plan"
      /\ End(c, "not found") \/ Goto(c, p)
      /\ UNCHANGED <<case, rows, log, captured, stamped, markers, applied>>
  BY Zenon DEF Plan, Planned
<1>2. ASSUME Goto(c, p)
      PROVE  CallOk(p, log)
  <2>1. m \in 1..Len(log)
    <3>1. call[c].todo # {}
      BY <1>0, <1>1 DEF CallOk
    <3> QED
      BY <1>0, <3>1, NewestOne
  <2> HIDE DEF m
  <2>2. Conflicts(m) \in SUBSET Nat /\ Conflicts(m) \subseteq 1..Len(log)
        /\ \A j \in Conflicts(m) : m < j
    <3>1. Conflicts(m) \subseteq {j \in Tracked : j > m}
      BY Reading
    <3>2. \A j \in Conflicts(m) : j \in 1..Len(log) /\ j > m
      BY <1>0, <3>1
    <3>3. \A j \in Conflicts(m) : j \in Nat /\ j \in 1..Len(log) /\ m < j
      BY <1>0, <2>1, <3>2
    <3> QED
      BY <3>3
  <2>3. p \in CallRecord /\ p.step = "apply" /\ p.target = m /\ p.plan = Conflicts(m)
        /\ p.seen = captured /\ p.todo = call[c].todo /\ p.wrote = call[c].wrote
    BY <1>0, <2>1, <2>2, PlannedRecord
  <2>4. ASSUME NEW j \in 1..captured, log[j].of = 0, m < j,
               DOMAIN log[j].after \cap DOMAIN log[m].after # {}
        PROVE  j \in Conflicts(m)
    <3>1. j \in Tracked
      BY <1>0, <2>4 DEF Tracked, UInv
    <3>2. (KeysOf(j) \cup log[j].read) \cap KeysOf(m) # {}
      BY <2>4 DEF KeysOf
    <3> QED
      BY <2>1, <2>4, <3>1, <3>2 DEF Conflicts
  <2>5. call[c].wrote \in 0..Len(log)
    BY <1>0 DEF CallOk
  <2> HIDE DEF p
  <2>6. p.todo \subseteq 1..Len(log) /\ p.wrote \in 0..Len(log)
        /\ p.target \in 1..Len(log) /\ p.seen \in 0..Len(log)
        /\ p.plan \subseteq 1..Len(log) /\ \A j \in p.plan : p.target < j
    BY <1>0, <2>1, <2>2, <2>3, <2>5
  <2>7. \A j \in 1..p.seen :
          /\ log[j].of = 0 /\ p.target < j
          /\ DOMAIN log[j].after \cap DOMAIN log[p.target].after # {}
          => j \in p.plan
    BY <2>3, <2>4
  <2> QED
    BY <2>3, <2>6, <2>7 DEF CallOk
<1>3. CASE Goto(c, p)
  <2>1. CallOk(p, log)
    BY <1>2, <1>3
  <2> HIDE DEF p
  <2> QED
    BY <1>1, <1>3, <2>1, MarkersStay, CallStepQuiet
<1>4. CASE End(c, "not found")
  <2> HIDE DEF p
  <2>1. "not found" \in Answers
    BY SomeAnswers
  <2>2. PICK a \in Answers : End(c, a)
    BY Zenon, <1>4, <2>1
  <2> QED
    BY <1>1, <2>2, EndingStep
<1> HIDE DEF p
<1> QED
  BY Zenon, <1>1, <1>3, <1>4

\* What a step that commits has to show.
LEMMA CommitStep ==
    ASSUME UInv, NEW of \in Nat, NEW read \in SUBSET Keys, NEW after \in Writes,
           Commit(of, read, after), UNCHANGED <<case, captured, stamped, markers>>,
           call' \in [Callers -> CallRecord], \A c \in Callers : CallOk(call'[c], log'),
           \A a \in applied' : AppliedOk(a, Len(log'))
    PROVE  UInv'
<1>1. Committed(of, read, after)
  BY CommitFacts DEF UInv
<1>2. log' \in Seq(Entry) /\ rows' \in [Keys -> Images] /\ case' \in Cases
  BY <1>1 DEF Committed, UInv
<1>3. captured' \in 0..Len(log')
  BY <1>1 DEF Committed, UInv
<1>4. markers' \subseteq 1..Len(log') /\ \A i \in markers' : log'[i].of # 0
  BY <1>1 DEF Committed, UInv
<1>5. stamped' \subseteq markers' \cap 1..captured'
  BY DEF UInv
<1> QED
  BY <1>2, <1>3, <1>4, <1>5 DEF UInv

LEMMA CommitExtends ==
    ASSUME NEW of, NEW read, NEW after, Committed(of, read, after)
    PROVE  Extends(log, log')
BY DEF Committed, Extends

LEMMA WritingStep ==
    ASSUME UInv, Writing
    PROVE  UInv'
<1>1. PICK after \in Writes, R \in SUBSET Keys : Commit(0, R, after) /\ UNCHANGED others
  BY DEF Writing
<1>2. Committed(0, R, after)
  BY <1>1, CommitFacts DEF UInv
<1>3. Extends(log, log')
  BY <1>2, CommitExtends
<1>4. call' \in [Callers -> CallRecord] /\ \A c \in Callers : CallOk(call'[c], log')
  <2>1. call' = call
    BY <1>1 DEF others
  <2> QED
    BY <1>3, <2>1, CallsKept
<1>5. \A a \in applied' : AppliedOk(a, Len(log'))
  <2>1. applied' = applied
    BY <1>1 DEF others
  <2>2. Len(log) \in Nat /\ Len(log') \in Nat /\ Len(log) <= Len(log')
    BY <1>3 DEF Extends
  <2> QED
    BY <2>1, <2>2, AppliedKept DEF UInv
<1> QED
  BY <1>1, <1>4, <1>5, CommitStep DEF others

LEMMA ReversedFacts ==
    ASSUME UInv, NEW c \in Callers, call[c].step = "apply"
    PROVE  /\ call[c].target \in 1..Len(log)
           /\ call[c].target \in Reversed(call[c])
           /\ Reversed(call[c]) \in SUBSET (1..Len(log))
           /\ \A i \in Reversed(call[c]) : call[c].target <= i
<1>1. /\ Len(log) \in Nat /\ call[c].target \in 1..Len(log)
      /\ call[c].plan \subseteq 1..Len(log) /\ \A j \in call[c].plan : call[c].target < j
  BY Reading DEF CallOk
<1> QED
  BY <1>1 DEF Reversed

LEMMA OnFacts ==
    ASSUME log \in Seq(Entry), NEW S \in SUBSET (1..Len(log)),
           NEW k \in UNION {KeysOf(i) : i \in S}
    PROVE  /\ On(S, k) # {} /\ On(S, k) \in SUBSET (1..Len(log))
           /\ Oldest(On(S, k)) \in S /\ k \in KeysOf(Oldest(On(S, k)))
           /\ \A i \in On(S, k) : Oldest(On(S, k)) <= i
<1>1. Len(log) \in Nat
  BY LogFacts
<1>2. On(S, k) # {} /\ On(S, k) \in SUBSET (1..Len(log))
  BY DEF On
<1>3. Oldest(On(S, k)) \in On(S, k) /\ \A i \in On(S, k) : Oldest(On(S, k)) <= i
  BY <1>1, <1>2, OldestOne
<1> QED
  BY <1>2, <1>3 DEF On

LEMMA RestoredFacts ==
    ASSUME log \in Seq(Entry), NEW S \in SUBSET (1..Len(log))
    PROVE  /\ Restored(S) \in Writes
           /\ DOMAIN Restored(S) = UNION {KeysOf(i) : i \in S}
<1> DEFINE D == UNION {KeysOf(i) : i \in S}
<1>1. D \in SUBSET Keys
  BY LogFacts
<1>2. ASSUME NEW k \in D
      PROVE  log[Oldest(On(S, k))].before[k] \in Images
  <2>1. Oldest(On(S, k)) \in 1..Len(log) /\ k \in KeysOf(Oldest(On(S, k)))
    BY <1>2, OnFacts
  <2> QED
    BY <2>1, LogFacts
<1>3. Restored(S) = [k \in D |-> log[Oldest(On(S, k))].before[k]]
  BY DEF Restored
<1> HIDE DEF D
<1>4. Restored(S) \in [D -> Images] /\ DOMAIN Restored(S) = D
  BY <1>2, <1>3
<1>5. Restored(S) \in Writes
  BY <1>1, <1>4 DEF Writes
<1> QED
  BY <1>4, <1>5 DEF D

LEMMA ApplyStep ==
    ASSUME UInv, NEW c \in Callers, Apply(c)
    PROVE  UInv'
<1> DEFINE S == Reversed(call[c])
           p == Marking(call[c], Len(log) + 1)
<1>0. Len(log) \in Nat /\ call[c] \in CallRecord /\ CallOk(call[c], log)
      /\ call[c].todo \subseteq 1..Len(log) /\ log \in Seq(Entry)
  BY Reading DEF UInv
<1>1. /\ call[c].step = "apply"
      /\ Commit(call[c].target, {}, Restored(S)) /\ Goto(c, p)
      /\ applied' = applied \cup {[id |-> Len(log) + 1, what |-> S, mode |-> call[c].mode,
                                   seen |-> call[c].seen]}
      /\ UNCHANGED <<case, captured, stamped, markers>>
  BY DEF Apply, Done, Marking
<1>2. call[c].target \in 1..Len(log) /\ S \in SUBSET (1..Len(log)) /\ call[c].seen \in Nat
  <2>1. call[c].target \in 1..Len(log) /\ S \in SUBSET (1..Len(log))
    BY <1>1, ReversedFacts
  <2>2. call[c].seen \in Nat
    BY <1>0 DEF CallRecord
  <2> QED
    BY <2>1, <2>2
<1> HIDE DEF S, p
<1>3. Restored(S) \in Writes
  BY <1>0, <1>2, RestoredFacts
<1>4. call[c].target \in Nat /\ {} \in SUBSET Keys /\ rows \in [Keys -> Images]
  BY <1>2 DEF UInv
<1>5. Committed(call[c].target, {}, Restored(S))
  BY <1>0, <1>1, <1>3, <1>4, CommitFacts
<1>6. Extends(log, log')
  BY <1>5, CommitExtends
<1>7. CallOk(p, log')
  <2>1. p \in CallRecord /\ p.step = "mark" /\ p.wrote = Len(log) + 1 /\ p.todo = call[c].todo
    <3>1. Len(log) + 1 \in Nat
      BY <1>0
    <3> QED
      BY <1>0, <3>1, MarkingRecord DEF p
  <2>2. Len(log') = Len(log) + 1 /\ log'[Len(log) + 1].of = call[c].target
    BY <1>5 DEF Committed
  <2>3. p.todo \subseteq 1..Len(log') /\ p.wrote \in 0..Len(log')
    BY <1>0, <2>1, <2>2
  <2>4. p.wrote # 0 /\ log'[p.wrote].of # 0
    BY <1>0, <1>2, <2>1, <2>2
  <2> QED
    BY <2>1, <2>3, <2>4 DEF CallOk
<1>8. call' \in [Callers -> CallRecord] /\ \A d \in Callers : CallOk(call'[d], log')
  BY <1>1, <1>6, <1>7, CallSet
<1>9. \A a \in applied' : AppliedOk(a, Len(log'))
  <2>1. Len(log') = Len(log) + 1
    BY <1>5 DEF Committed
  <2>2. ASSUME NEW a \in applied
        PROVE  AppliedOk(a, Len(log'))
    <3>1. AppliedOk(a, Len(log))
      BY DEF UInv
    <3> QED
      BY <1>0, <2>1, <3>1, AppliedKept
  <2>3. AppliedOk([id |-> Len(log) + 1, what |-> S, mode |-> call[c].mode,
                   seen |-> call[c].seen], Len(log'))
    BY <1>0, <1>2, <2>1 DEF AppliedOk
  <2> QED
    BY <1>1, <2>2, <2>3
<1> QED
  BY <1>1, <1>3, <1>4, <1>8, <1>9, CommitStep

LEMMA UStepKeeps ==
    ASSUME UInv, UStep \/ UNCHANGED uvars
    PROVE  UInv'
<1>1. ASSUME NEW c \in Callers, Calling(c) \/ Leaving(c) \/ CallStep(c)
      PROVE  UInv'
  BY <1>1, CallingStep, EndStep, CheckStep, PlanStep, ApplyStep, MarkingStep DEF CallStep
<1>2. CASE UNCHANGED uvars
  BY <1>2 DEF UInv, uvars
<1> QED
  BY <1>1, <1>2, WritingStep, CaptureStep DEF UStep

LEMMA FirstState ==
    ASSUME UInit
    PROVE  UInv
<1>1. log \in Seq(Entry) /\ Len(log) = 0
  <2>1. log = << >>
    BY DEF UInit
  <2> QED
    BY <2>1, EmptySeq
<1>2. rows \in [Keys -> Images]
  BY DEF UInit, Images
<1>3. \A c \in Callers : call[c] = NoCall
  BY DEF UInit
<1>4. CallOk(NoCall, log) /\ NoCall \in CallRecord
  <2>1. PICK a : a \in Answers
    BY SomeAnswers
  <2>2. Len(log) \in Nat
    BY <1>1
  <2> QED
    BY <2>1, <2>2, RestingCall, NoCallRecord
<1>5. call \in [Callers -> CallRecord]
  BY <1>4 DEF UInit
<1> QED
  BY <1>1, <1>2, <1>3, <1>4, <1>5 DEF UInit, UInv

LEMMA ModesOfCase ==
    ASSUME case \in Cases
    PROVE  case.callers \subseteq Callers /\ case.modes \subseteq Modes
BY TwoDbAssumption DEF TwoDbAssumption, Case, Modes

LEMMA ServedIsStep ==
    ASSUME UInv, Served
    PROVE  UStep
BY ModesOfCase DEF Served, UStep, UInv

LEMMA AskedIsStep ==
    ASSUME UInv, Asked
    PROVE  UStep
<1>0. case.callers \subseteq Callers /\ case.modes \subseteq Modes /\ Len(log) \in Nat
  BY ModesOfCase, LogFacts DEF UInv
<1>1. ASSUME NEW S \in SUBSET Keys, NEW R \in {{}} \cup {{k} : k \in Keys}, AppCommit(S, R)
      PROVE  Writing
  <2>1. R \in SUBSET Keys
    OBVIOUS
  <2>2. PICK after \in [S -> {Len(log) + 1, NoRow}] : Commit(0, R, after)
    BY <1>1 DEF AppCommit
  <2>3. after \in [S -> Images]
    BY <1>0, <2>2 DEF Images
  <2>4. after \in Writes
    BY <2>3 DEF Writes
  <2>5. UNCHANGED others
    BY <1>1 DEF AppCommit, others
  <2> QED
    BY <2>1, <2>2, <2>4, <2>5 DEF Writing
<1>2. ASSUME NEW c \in Callers, NEW mode \in Modes, NEW m \in 1..Len(log), Undo(c, mode, m)
      PROVE  Calling(c)
  <2>1. {m} \in SUBSET (1..Len(log)) /\ {m} # {} /\ FALSE \in BOOLEAN
    OBVIOUS
  <2>2. Begin(c, mode, {m}, FALSE)
    BY <1>2 DEF Undo
  <2> QED
    BY <2>1, <2>2 DEF Calling
<1>3. ASSUME NEW c \in Callers, NEW mode \in Modes, NEW todo \in SUBSET Tracked,
             UndoCohort(c, mode, todo)
      PROVE  Calling(c)
  <2>1. todo \in SUBSET (1..Len(log)) /\ todo # {} /\ TRUE \in BOOLEAN
    BY <1>3, Reading DEF UndoCohort
  <2>2. Begin(c, mode, todo, TRUE)
    BY <1>3 DEF UndoCohort
  <2> QED
    BY <2>1, <2>2 DEF Calling
<1>4. CASE \E S \in SUBSET Keys \ {{}} : \E R \in {{}} \cup {{k} : k \in Keys} : AppCommit(S, R)
  BY <1>1, <1>4 DEF UStep
<1>5. CASE \E c \in case.callers, mode \in case.modes :
             \/ \E m \in 1..Len(log) : Undo(c, mode, m)
             \/ \E todo \in SUBSET Tracked : UndoCohort(c, mode, todo)
  <2>1. PICK c \in case.callers, mode \in case.modes :
             \/ \E m \in 1..Len(log) : Undo(c, mode, m)
             \/ \E todo \in SUBSET Tracked : UndoCohort(c, mode, todo)
    BY <1>5
  <2>2. c \in Callers /\ mode \in Modes
    BY <1>0
  <2>3. Calling(c)
    BY <1>2, <1>3, <2>1, <2>2
  <2> QED
    BY <2>2, <2>3 DEF UStep
<1> QED
  BY <1>4, <1>5 DEF Asked

LEMMA UInvImpliesTypes == UInv => UTypeOK
<1> SUFFICES ASSUME UInv PROVE UTypeOK
  OBVIOUS
<1>1. \A i \in 1..Len(log) : Written(log[i])
  BY LogFacts DEF UInv, Written, KeysOf
<1>2. markers \subseteq 1..Len(log) \ Apps
  BY DEF UInv, Apps
<1>3. \A c \in Callers : call[c].todo \subseteq 1..Len(log) /\ call[c].wrote \in 0..Len(log)
  BY DEF UInv, CallOk
<1> QED
  BY <1>1, <1>2, <1>3 DEF UInv, UTypeOK

\* The inductive invariant of undo over two databases.
THEOREM UndoInvariant == USpec => []UInv
<1>1. UInit => UInv
  BY FirstState
<1>2. UInv /\ [UNext]_uvars => UInv'
  BY UStepKeeps, AskedIsStep, ServedIsStep DEF UNext
<1> QED
  BY <1>1, <1>2, PTL DEF USpec

\* History runs behind the tenant, and what it may take for undo is undo: the
\* store's markers name compensating commits only.
THEOREM UndoTypes == USpec => []UTypeOK
BY UndoInvariant, UInvImpliesTypes, PTL

-----------------------------------------------------------------------------
(* What has been undone stays undone.                                      *)

\* The transactions on row k before place n that nobody has undone, and what
\* they left in the row.
Live(l, U, k, n) ==
    {i \in 1..Len(l) : i < n /\ l[i].of = 0 /\ i \notin U /\ k \in DOMAIN l[i].after}
Left(l, U, k, n) ==
    LET live == Live(l, U, k, n) IN IF live = {} THEN 0 ELSE l[Newest(live)].after[k]

Honest == \A a \in applied : a.mode = "clean_only" /\ a.what \subseteq Apps

\* Every row, and every before image of a transaction of the application, is as
\* the last live transaction before it left the row.
Chained ==
    Honest => \A k \in Keys : ~Raced(k) =>
        /\ \A m \in On(Apps, k) : log[m].before[k] = Left(log, Undone, k, m)
        /\ rows[k] = Left(log, Undone, k, Len(log) + 1)

LEMMA LeftKept ==
    ASSUME NEW l, NEW m, Extends(l, m), NEW U, NEW V, NEW k, NEW p, NEW q,
           Live(m, V, k, q) = Live(l, U, k, p)
    PROVE  Left(m, V, k, q) = Left(l, U, k, p)
<1> DEFINE S == Live(l, U, k, p)
<1>1. S \in SUBSET (1..Len(l)) /\ Len(l) \in Nat
  BY DEF Live, Extends
<1> HIDE DEF S
<1>2. CASE S = {}
  BY <1>2 DEF Left, S
<1>3. CASE S # {}
  <2>1. Newest(S) \in 1..Len(l)
    BY <1>1, <1>3, NewestOne
  <2>2. m[Newest(S)] = l[Newest(S)]
    BY <2>1 DEF Extends
  <2> QED
    BY <1>3, <2>2 DEF Left, S
<1> QED
  BY <1>2, <1>3

LEMMA AppsGrow ==
    ASSUME NEW of, NEW read, NEW after, Committed(of, read, after)
    PROVE  /\ Apps \subseteq 1..Len(log)
           /\ Apps' = IF of = 0 THEN Apps \cup {Len(log) + 1} ELSE Apps
           /\ \A i \in 1..Len(log) : KeysOf(i)' = KeysOf(i)
BY DEF Committed, Apps, KeysOf

\* Whoever has been honest, and no race, so far was so before.
LEMMA OnceRaced ==
    ASSUME UInv, NEW of, NEW read, NEW after, Committed(of, read, after),
           applied \subseteq applied'
    PROVE  /\ Honest' => Honest
           /\ \A k : Raced(k) => Raced(k)'
<1>0. Apps \subseteq 1..Len(log) /\ Apps \subseteq Apps' /\ Apps' \cap 1..Len(log) \subseteq Apps
      /\ (\A i \in 1..Len(log) : KeysOf(i)' = KeysOf(i)) /\ Len(log) \in Nat
  BY AppsGrow DEF Committed
<1>1. ASSUME NEW a \in applied
      PROVE  AppliedOk(a, Len(log))
  BY DEF UInv
<1>2. Honest' => Honest
  BY <1>0, <1>1 DEF Honest, AppliedOk
<1>3. ASSUME NEW k, Raced(k)
      PROVE  Raced(k)'
  <2>1. PICK a \in applied : \E d \in a.what, i \in a.seen + 1..a.id - 1 :
            i \in Apps /\ k \in KeysOf(i) \cap KeysOf(d)
    BY <1>3 DEF Raced
  <2>2. PICK d \in a.what, i \in a.seen + 1..a.id - 1 : i \in Apps /\ k \in KeysOf(i) \cap KeysOf(d)
    BY <2>1
  <2>3. d \in 1..Len(log)
    BY <1>1 DEF AppliedOk
  <2>4. k \in KeysOf(i)' \cap KeysOf(d)'
    BY <1>0, <2>2, <2>3
  <2>5. a \in applied' /\ i \in Apps'
    BY <1>0, <2>2
  <2> QED
    BY <2>2, <2>4, <2>5 DEF Raced
<1> QED
  BY <1>2, <1>3

LEMMA UndoneInLog ==
    ASSUME UInv
    PROVE  Undone \subseteq 1..Len(log)
BY DEF UInv, Undone, AppliedOk

LEMMA WritingChains ==
    ASSUME UInv, Chained, Writing
    PROVE  Chained'
<1> SUFFICES ASSUME Honest', NEW k \in Keys, ~Raced(k)'
             PROVE  /\ \A m \in On(Apps, k)' : log'[m].before[k] = Left(log', Undone', k, m)
                    /\ rows'[k] = Left(log', Undone', k, Len(log') + 1)
  BY DEF Chained
<1>1. PICK after \in Writes, R \in SUBSET Keys : Commit(0, R, after) /\ UNCHANGED others
  BY DEF Writing
<1>2. Committed(0, R, after)
  BY <1>1, CommitFacts DEF UInv
<1> DEFINE n == Len(log)
           U == Undone
<1>3. applied' = applied /\ Undone' = U
  BY <1>1 DEF others, Undone
<1>4. Honest /\ ~Raced(k)
  BY <1>2, <1>3, OnceRaced
<1>5. /\ \A m \in On(Apps, k) : log[m].before[k] = Left(log, U, k, m)
      /\ rows[k] = Left(log, U, k, n + 1)
  BY <1>4 DEF Chained
<1>6. n \in Nat /\ Len(log') = n + 1 /\ (\A i \in 1..n : log'[i] = log[i]) /\ Extends(log, log')
      /\ U \subseteq 1..n
      /\ log'[n + 1] = [of |-> 0, read |-> R, after |-> after,
                        before |-> [j \in DOMAIN after |-> rows[j]]]
  BY <1>2, CommitExtends, UndoneInLog DEF Committed
<1>7. rows'[k] = IF k \in DOMAIN after THEN after[k] ELSE rows[k]
  BY <1>1 DEF Commit
<1>8. On(Apps, k)' \subseteq On(Apps, k) \cup (IF k \in DOMAIN after THEN {n + 1} ELSE {})
      /\ On(Apps, k) \subseteq 1..n
  <2>1. Apps' = Apps \cup {n + 1} /\ (\A i \in 1..n : KeysOf(i)' = KeysOf(i)) /\ Apps \subseteq 1..n
    BY <1>2, AppsGrow
  <2>2. DOMAIN log'[n + 1].after = DOMAIN after
    BY <1>6
  <2>3. On(Apps, k)' = {i \in Apps' : k \in DOMAIN log'[i].after}
        /\ On(Apps, k) = {i \in Apps : k \in DOMAIN log[i].after}
    BY DEF On, KeysOf
  <2>4. \A i \in Apps : log'[i] = log[i]
    BY <1>6, <2>1
  <2> HIDE DEF n
  <2> QED
    BY <2>1, <2>2, <2>3, <2>4
<1> HIDE DEF n, U
<1>9. ASSUME NEW m \in 1..n + 1
      PROVE  Left(log', U, k, m) = Left(log, U, k, m)
  <2>1. Live(log', U, k, m) = Live(log, U, k, m)
    BY <1>6 DEF Live, n
  <2> QED
    BY <1>6, <2>1, LeftKept
<1>10. \A m \in On(Apps, k)' : log'[m].before[k] = Left(log', U, k, m)
  <2> SUFFICES ASSUME NEW m \in On(Apps, k)'
               PROVE  log'[m].before[k] = Left(log', U, k, m)
    OBVIOUS
  <2>1. CASE m \in On(Apps, k)
    <3>1. m \in 1..n /\ m \in 1..n + 1
      BY <1>6, <1>8, <2>1
    <3> QED
      BY <1>5, <1>6, <1>9, <2>1, <3>1
  <2>2. CASE m \notin On(Apps, k)
    <3>1. m = n + 1 /\ k \in DOMAIN after
      BY <1>8, <2>2
    <3>2. log'[m].before[k] = rows[k] /\ m \in 1..n + 1
      BY <1>6, <3>1
    <3> QED
      BY <1>5, <1>9, <3>1, <3>2
  <2> QED
    BY <2>1, <2>2
<1>11. rows'[k] = Left(log', U, k, Len(log') + 1)
  <2>1. CASE k \notin DOMAIN after
    <3>1. Live(log', U, k, n + 2) = Live(log, U, k, n + 1)
      BY <1>6, <2>1 DEF Live, n
    <3>2. Left(log', U, k, n + 2) = Left(log, U, k, n + 1)
      BY <1>6, <3>1, LeftKept
    <3>3. Len(log') + 1 = n + 2
      BY <1>6
    <3> QED
      BY <1>5, <1>7, <2>1, <3>2, <3>3
  <2>2. CASE k \in DOMAIN after
    <3> DEFINE L == Live(log', U, k, n + 2)
    <3>1. n + 1 \in L /\ L \in SUBSET (1..n + 1) /\ n + 1 \in Nat
      BY <1>6, <2>2 DEF Live
    <3> HIDE DEF L
    <3>2. Newest(L) \in L /\ \A j \in L : j <= Newest(L)
      BY <3>1, NewestOne
    <3>3. Newest(L) = n + 1
      <4>1. n + 1 <= Newest(L) /\ Newest(L) \in 1..n + 1
        BY <3>1, <3>2
      <4> QED
        BY <1>6, <4>1
    <3>4. Left(log', U, k, n + 2) = after[k]
      BY <1>6, <3>1, <3>3 DEF Left, L
    <3>5. Len(log') + 1 = n + 2
      BY <1>6
    <3> QED
      BY <1>7, <2>2, <3>4, <3>5
  <2> QED
    BY <2>1, <2>2
<1> QED
  BY <1>3, <1>10, <1>11

\* A compensation in an honest history reverses one transaction of the
\* application, and where there was no race no later one is on its rows.
LEMMA ApplyIsSingle ==
    ASSUME UInv, NEW c \in Callers, Apply(c), Honest'
    PROVE  LET t == call[c].target
           IN  /\ t \in Apps /\ Reversed(call[c]) = {t} /\ log[t].of = 0
               /\ Undone' = Undone \cup {t}
               /\ Commit(t, {}, Restored({t})) /\ t # 0
               /\ applied \subseteq applied'
               /\ \A k \in KeysOf(t) : ~Raced(k)' => \A i \in On(Apps, k) : i <= t
<1> DEFINE t == call[c].target
           a == [id |-> Len(log) + 1, what |-> Reversed(call[c]), mode |-> call[c].mode,
                 seen |-> call[c].seen]
<1>1. /\ call[c].step = "apply" /\ ~Refuses(call[c]) /\ applied' = applied \cup {a}
      /\ Commit(t, {}, Restored(Reversed(call[c])))
  BY DEF Apply, Done
<1>2. /\ Len(log) \in Nat /\ t \in 1..Len(log) /\ call[c].seen \in 0..Len(log)
      /\ \A j \in 1..call[c].seen :
           /\ log[j].of = 0 /\ t < j
           /\ DOMAIN log[j].after \cap DOMAIN log[t].after # {}
           => j \in call[c].plan
  BY <1>1, Reading DEF CallOk
<1>3. a.mode = call[c].mode /\ a.what = Reversed(call[c]) /\ a.id = Len(log) + 1
      /\ a.seen = call[c].seen /\ a \in applied'
  BY <1>1
<1> HIDE DEF a
<1>4. call[c].mode = "clean_only" /\ Reversed(call[c]) \subseteq Apps'
  BY <1>3 DEF Honest
<1>5. call[c].plan = {} /\ Reversed(call[c]) = {t}
  BY <1>1, <1>4 DEF Refuses, Reversed
<1>6. Commit(t, {}, Restored({t})) /\ Restored({t}) \in Writes
  <2>1. {t} \in SUBSET (1..Len(log)) /\ log \in Seq(Entry)
    BY <1>2 DEF UInv
  <2> QED
    BY <1>1, <1>5, <2>1, RestoredFacts
<1>7. Committed(t, {}, Restored({t}))
  <2>1. t \in Nat /\ {} \in SUBSET Keys /\ log \in Seq(Entry) /\ rows \in [Keys -> Images]
    BY <1>2 DEF UInv
  <2> QED
    BY <1>6, <2>1, CommitFacts
<1>8. Apps' = Apps /\ (\A i \in 1..Len(log) : KeysOf(i)' = KeysOf(i)) /\ Apps \subseteq 1..Len(log)
  BY <1>2, <1>7, AppsGrow
<1>9. t \in Apps /\ log[t].of = 0
  BY <1>4, <1>5, <1>8 DEF Apps
<1>10. Undone' = Undone \cup {t}
  BY <1>1, <1>3, <1>5 DEF Undone
<1>11. ASSUME NEW k \in KeysOf(t), ~Raced(k)', NEW i \in On(Apps, k), i > t
       PROVE  FALSE
  <2>1. i \in 1..Len(log) /\ log[i].of = 0 /\ k \in KeysOf(i) /\ i \in Apps'
    BY <1>8, <1>11 DEF On, Apps
  <2>2. CASE i <= call[c].seen
    <3>1. i \in 1..call[c].seen
      BY <1>2, <2>1, <2>2
    <3>2. DOMAIN log[i].after \cap DOMAIN log[t].after # {}
      BY <1>11, <2>1 DEF KeysOf
    <3>3. i \in call[c].plan
      BY <1>2, <1>11, <2>1, <3>1, <3>2
    <3> QED
      BY <1>5, <3>3
  <2>3. CASE i > call[c].seen
    <3>1. i \in a.seen + 1..a.id - 1
      BY <1>2, <1>3, <2>1, <2>3
    <3>2. t \in a.what /\ log'[i] = log[i] /\ log'[t] = log[t]
      BY <1>2, <1>3, <1>5, <1>7, <2>1 DEF Committed
    <3>3. k \in DOMAIN log'[i].after \cap DOMAIN log'[t].after
      BY <1>11, <2>1, <3>2 DEF KeysOf
    <3>4. Raced(k)'
      BY <1>3, <2>1, <3>1, <3>2, <3>3 DEF Raced, KeysOf
    <3> QED
      BY <1>11, <3>4
  <2> QED
    BY <1>2, <2>1, <2>2, <2>3
<1>12. \A k \in KeysOf(t) : ~Raced(k)' => \A i \in On(Apps, k) : i <= t
  <2> SUFFICES ASSUME NEW k \in KeysOf(t), ~Raced(k)', NEW i \in On(Apps, k)
               PROVE  i <= t
    OBVIOUS
  <2>1. i \in 1..Len(log)
    BY <1>8 DEF On
  <2> QED
    BY <1>2, <1>11, <2>1
<1> QED
  BY <1>1, <1>2, <1>5, <1>6, <1>9, <1>10, <1>12

LEMMA RestoredSingle ==
    ASSUME log \in Seq(Entry), NEW t \in 1..Len(log)
    PROVE  /\ DOMAIN Restored({t}) = KeysOf(t)
           /\ \A k \in KeysOf(t) : Restored({t})[k] = log[t].before[k]
<1>1. {t} \in SUBSET (1..Len(log)) /\ UNION {KeysOf(i) : i \in {t}} = KeysOf(t)
  OBVIOUS
<1>2. Restored({t}) = [k \in KeysOf(t) |-> log[Oldest(On({t}, k))].before[k]]
  BY <1>1 DEF Restored
<1>3. ASSUME NEW k \in KeysOf(t)
      PROVE  Oldest(On({t}, k)) = t
  <2>1. k \in UNION {KeysOf(i) : i \in {t}}
    BY <1>1
  <2>2. Oldest(On({t}, k)) \in {t}
    BY <1>1, <2>1, OnFacts
  <2> QED
    BY <2>2
<1> QED
  BY <1>2, <1>3

LEMMA ApplyChains ==
    ASSUME UInv, Chained, NEW c \in Callers, Apply(c)
    PROVE  Chained'
<1> SUFFICES ASSUME Honest', NEW k \in Keys, ~Raced(k)'
             PROVE  /\ \A m \in On(Apps, k)' : log'[m].before[k] = Left(log', Undone', k, m)
                    /\ rows'[k] = Left(log', Undone', k, Len(log') + 1)
  BY DEF Chained
<1> DEFINE t == call[c].target
           n == Len(log)
           U == Undone
           V == Undone'
<1>1. /\ t \in Apps /\ log[t].of = 0 /\ V = U \cup {t}
      /\ Commit(t, {}, Restored({t})) /\ t # 0
      /\ applied \subseteq applied'
      /\ k \in KeysOf(t) => \A i \in On(Apps, k) : i <= t
  BY ApplyIsSingle
<1>2. t \in 1..n /\ log \in Seq(Entry) /\ rows \in [Keys -> Images] /\ t \in Nat
      /\ {t} \in SUBSET (1..n) /\ {} \in SUBSET Keys
  BY <1>1 DEF Apps, UInv
<1>3. Committed(t, {}, Restored({t}))
  BY <1>1, <1>2, RestoredFacts, CommitFacts
<1>4. Honest /\ ~Raced(k)
  BY <1>1, <1>3, OnceRaced
<1>5. /\ \A m \in On(Apps, k) : log[m].before[k] = Left(log, U, k, m)
      /\ rows[k] = Left(log, U, k, n + 1)
  BY <1>4 DEF Chained
<1>6. n \in Nat /\ Len(log') = n + 1 /\ (\A i \in 1..n : log'[i] = log[i]) /\ Extends(log, log')
      /\ U \subseteq 1..n /\ log'[n + 1].of = t
  <2>1. Extends(log, log')
    BY <1>3, CommitExtends
  <2>2. U \subseteq 1..n
    BY UndoneInLog
  <2>3. n \in Nat /\ Len(log') = n + 1 /\ \A i \in 1..n : log'[i] = log[i]
    BY <1>3 DEF Committed
  <2>4. log'[n + 1].of = t
    BY <1>3 DEF Committed
  <2> QED
    BY <2>1, <2>2, <2>3, <2>4
<1>7. rows'[k] = IF k \in KeysOf(t) THEN log[t].before[k] ELSE rows[k]
  BY <1>1, <1>2, RestoredSingle DEF Commit
<1>8. On(Apps, k)' = On(Apps, k) /\ On(Apps, k) \subseteq 1..n
      /\ On(Apps, k) = {i \in 1..n : log[i].of = 0 /\ k \in DOMAIN log[i].after}
  <2>1. Apps' = Apps /\ Apps \subseteq 1..n
    BY <1>1, <1>3, AppsGrow
  <2>2. On(Apps, k)' = {i \in Apps' : k \in DOMAIN log'[i].after}
        /\ On(Apps, k) = {i \in Apps : k \in DOMAIN log[i].after}
    BY DEF On, KeysOf
  <2>3. \A i \in Apps : log'[i] = log[i]
    BY <1>6, <2>1
  <2> QED
    BY <2>1, <2>2, <2>3 DEF Apps
<1>9. k \in KeysOf(t) <=> k \in DOMAIN log[t].after
  BY DEF KeysOf
<1> HIDE DEF n, U, V, t
<1>10. CASE k \in KeysOf(t)
  <2>1. \A i \in 1..n : log[i].of = 0 /\ k \in DOMAIN log[i].after => i <= t
    BY <1>1, <1>8, <1>10
  <2>2. t \in On(Apps, k)
    BY <1>1, <1>2, <1>8, <1>9, <1>10
  <2>3. ASSUME NEW m \in 1..t
        PROVE  Left(log', V, k, m) = Left(log, U, k, m)
    <3>1. Live(log', V, k, m) = Live(log, U, k, m)
      BY <1>1, <1>2, <1>6 DEF Live, n
    <3> QED
      BY <1>6, <3>1, LeftKept
  <2>4. \A m \in On(Apps, k)' : log'[m].before[k] = Left(log', V, k, m)
    <3> SUFFICES ASSUME NEW m \in On(Apps, k)
                 PROVE  log'[m].before[k] = Left(log', V, k, m)
      BY <1>8
    <3>1. m \in 1..n /\ m \in 1..t
      BY <1>1, <1>2, <1>8, <1>10
    <3> QED
      BY <1>5, <1>6, <2>3, <3>1
  <2>5. Live(log', V, k, n + 2) = Live(log, U, k, t)
    <3>1. \A i \in 1..n + 1 : log'[i].of = 0 => i \in 1..n /\ log'[i] = log[i]
      BY <1>1, <1>6
    <3>2. \A i : i \in Live(log', V, k, n + 2) => i \in Live(log, U, k, t)
      BY <1>1, <1>2, <1>6, <2>1, <3>1 DEF Live, n
    <3>3. \A i : i \in Live(log, U, k, t) => i \in Live(log', V, k, n + 2)
      BY <1>1, <1>2, <1>6 DEF Live, n
    <3> QED
      BY <3>2, <3>3
  <2>6. Left(log', V, k, n + 2) = Left(log, U, k, t)
    BY <1>6, <2>5, LeftKept
  <2>7. rows'[k] = Left(log', V, k, Len(log') + 1)
    <3>1. Len(log') + 1 = n + 2
      BY <1>6
    <3> QED
      BY <1>5, <1>7, <1>10, <2>2, <2>6, <3>1
  <2> QED
    BY <2>4, <2>7 DEF V
<1>11. CASE k \notin KeysOf(t)
  <2>1. ASSUME NEW m \in 1..n + 1
        PROVE  Left(log', V, k, m) = Left(log, U, k, m)
    <3>1. Live(log', V, k, m) = Live(log, U, k, m)
      BY <1>1, <1>6, <1>9, <1>11 DEF Live, n
    <3> QED
      BY <1>6, <3>1, LeftKept
  <2>2. \A m \in On(Apps, k)' : log'[m].before[k] = Left(log', V, k, m)
    <3> SUFFICES ASSUME NEW m \in On(Apps, k)
                 PROVE  log'[m].before[k] = Left(log', V, k, m)
      BY <1>8
    <3>1. m \in 1..n /\ m \in 1..n + 1
      BY <1>6, <1>8
    <3> QED
      BY <1>5, <1>6, <2>1, <3>1
  <2>3. Live(log', V, k, n + 2) = Live(log, U, k, n + 1)
    <3>1. \A i \in 1..n + 1 : log'[i].of = 0 => i \in 1..n /\ log'[i] = log[i]
      BY <1>1, <1>6
    <3>2. \A i : i \in Live(log', V, k, n + 2) => i \in Live(log, U, k, n + 1)
      BY <1>1, <1>6, <3>1 DEF Live, n
    <3>3. \A i : i \in Live(log, U, k, n + 1) => i \in Live(log', V, k, n + 2)
      BY <1>1, <1>6, <1>9, <1>11 DEF Live, n
    <3> QED
      BY <3>2, <3>3
  <2>4. rows'[k] = Left(log', V, k, Len(log') + 1)
    <3>1. Left(log', V, k, n + 2) = Left(log, U, k, n + 1)
      BY <1>6, <2>3, LeftKept
    <3>2. Len(log') + 1 = n + 2
      BY <1>6
    <3> QED
      BY <1>5, <1>7, <1>11, <3>1, <3>2
  <2> QED
    BY <2>2, <2>4 DEF V
<1> QED
  BY <1>10, <1>11

LEMMA UStepChains ==
    ASSUME UInv, Chained, UStep \/ UNCHANGED uvars
    PROVE  Chained'
<1>1. ASSUME UNCHANGED <<rows, log, applied>>
      PROVE  Chained'
  BY <1>1 DEF Chained, Honest, Raced, Undone, On, Apps, KeysOf
<1>2. CASE UNCHANGED uvars
  BY <1>1, <1>2 DEF uvars
<1>3. CASE CaptureCommit
  BY <1>1, <1>3 DEF CaptureCommit
<1>4. ASSUME NEW c \in Callers, Calling(c) \/ Leaving(c) \/ CallStep(c)
      PROVE  Chained'
  <2>1. CASE Apply(c)
    BY <2>1, ApplyChains
  <2>2. CASE ~Apply(c)
    <3>1. UNCHANGED <<rows, log, applied>>
      BY <1>4, <2>2
         DEF Calling, Begin, Leaving, CallStep, Check, Plan, Raise, Mark, LoseMark, CutShort
    <3> QED
      BY <1>1, <3>1
  <2> QED
    BY <2>1, <2>2
<1> QED
  BY <1>2, <1>3, <1>4, WritingChains DEF UStep

LEMMA FirstChained ==
    ASSUME UInit
    PROVE  Chained
<1>1. log = << >> /\ applied = {} /\ rows \in [Keys -> {0}]
  BY DEF UInit
<1>2. Len(log) = 0 /\ 1..0 = {}
  BY <1>1
<1>3. \A k : On(Apps, k) = {} /\ Live(log, Undone, k, Len(log) + 1) = {}
  BY <1>2 DEF On, Apps, Live
<1> QED
  BY <1>1, <1>3 DEF Chained, Left

LEMMA ChainedImplies == UInv /\ Chained => UndoneStaysUndone
<1> SUFFICES ASSUME UInv, Chained, Honest, NEW k \in Keys, ~Raced(k)
             PROVE  LET live == On(Apps \ Undone, k)
                    IN  rows[k] = IF live = {} THEN 0 ELSE log[Newest(live)].after[k]
  BY DEF UndoneStaysUndone, Honest
<1>1. Len(log) \in Nat
  BY LogFacts DEF UInv
<1>2. On(Apps \ Undone, k) = Live(log, Undone, k, Len(log) + 1)
  BY <1>1 DEF On, Apps, KeysOf, Live
<1>3. rows[k] = Left(log, Undone, k, Len(log) + 1)
  BY DEF Chained
<1> QED
  BY <1>2, <1>3 DEF Left

\* While calls are clean_only and reverse transactions of the application, what
\* has been undone stays undone, for any number of concurrent and repeated
\* calls, cut-short calls and lost markers: but for the race that Raced tells,
\* each row is as the last transaction that was not undone left it.
THEOREM UndoneForGood == USpec => []UndoneStaysUndone
<1>1. UInit => Chained
  BY FirstChained
<1>2. UInv /\ Chained /\ [UNext]_uvars => Chained'
  BY UStepChains, AskedIsStep, ServedIsStep DEF UNext
<1> QED
  BY <1>1, <1>2, UndoInvariant, ChainedImplies, PTL DEF USpec
=============================================================================
