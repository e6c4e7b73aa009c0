------------------------- MODULE BulkImport_proofs -------------------------
(***************************************************************************)
(* Proofs about BulkImport, for every set of threads, payload and version  *)
(* of Terraform.  Who holds the lock is who is inside the with statement   *)
(* (LockInv); what is committed is what whole changes have made of the     *)
(* versions (WholeInv).                                                    *)
(***************************************************************************)
EXTENDS BulkImport, FiniteSetTheorems, TLAPS

Inside == {"switch", "run", "hung"}
PC     == {"next", "extract", "lock", "switch", "run", "finish", "answered", "raised", "hung"}

Shape ==
    /\ pc \in [Thread -> PC]
    /\ at \in [Thread -> Nat]
    /\ part \in [Thread -> Nat]

Exclusive ==
    /\ holder \subseteq Thread
    /\ \A t \in Thread : t \in holder <=> pc[t] \in Inside
    /\ \A t, u \in holder : t = u

LockInv == Shape /\ Exclusive /\ RightTerraform

-----------------------------------------------------------------------------
\* What every step leaves alone: the threads other than its own.
Only(t) ==
    \A u \in Thread \ {t} : pc'[u] = pc[u] /\ at'[u] = at[u] /\ part'[u] = part[u]

\* The steps that end a change keep the shape, and are those of one thread.
LEMMA NextChangeShape ==
    ASSUME Shape, NEW t \in Thread, NEW result, NextChange(t, result)
    PROVE  Shape' /\ Only(t) /\ pc'[t] = "next"
  BY DEF Shape, Only, NextChange, Goes, PC

LEMMA RaisesShape ==
    ASSUME Shape, NEW t \in Thread, Raises(t)
    PROVE  Shape' /\ Only(t) /\ pc'[t] = "raised"
  BY DEF Shape, Only, Raises, Goes, PC

\* A step of a thread that neither takes, nor gives back, nor uses the lock.
LEMMA OutsideLock ==
    ASSUME LockInv, NEW t \in Thread, Shape', Only(t),
           pc[t] \notin Inside, pc'[t] \notin Inside,
           UNCHANGED <<holder, binary, payload>>
    PROVE  LockInv'
  <1>1. Exclusive'
    BY DEF LockInv, Exclusive, Only
  <1>2. RightTerraform'
    <2> SUFFICES ASSUME NEW u \in Thread, pc'[u] \in {"run", "hung"}
                 PROVE  binary' = Requested(u)'
      BY DEF RightTerraform
    <2>1. u # t
      BY DEF Inside
    <2>2. pc[u] \in {"run", "hung"} /\ Requested(u)' = Requested(u)
      BY <2>1 DEF Only, Requested, Change
    <2> QED BY <2>2 DEF LockInv, RightTerraform
  <1> QED BY <1>1, <1>2 DEF LockInv

\* A step by which the thread that holds the lock gives it back.
LEMMA GivesBack ==
    ASSUME LockInv, NEW t \in Thread, Shape', Only(t),
           pc[t] \in Inside, pc'[t] \notin Inside, holder' = {}
    PROVE  LockInv'
  <1>1. \A u \in Thread \ {t} : pc[u] \notin Inside
    BY DEF LockInv, Exclusive
  <1>2. \A u \in Thread : pc'[u] \notin Inside
    BY <1>1 DEF Only
  <1> QED BY <1>2 DEF LockInv, Exclusive, RightTerraform, Inside

LEMMA AcquireLock ==
    ASSUME LockInv, NEW t \in Thread, Acquire(t)
    PROVE  LockInv'
  <1>1. Shape' /\ Only(t) /\ pc'[t] = "switch"
    BY DEF LockInv, Shape, Only, Acquire, Goes, PC
  <1>2. \A u \in Thread : pc[u] \notin Inside
    BY DEF LockInv, Exclusive, Acquire
  <1>3. holder' = {t}
    BY DEF Acquire
  <1>4. \A u \in Thread : pc'[u] \in Inside <=> u = t
    BY <1>1, <1>2 DEF Only, Inside
  <1>5. \A u \in Thread : pc'[u] \notin {"run", "hung"}
    BY <1>1, <1>4 DEF Inside
  <1> QED BY <1>1, <1>3, <1>4, <1>5 DEF LockInv, Exclusive, RightTerraform

LEMMA SwitchTerraform ==
    ASSUME LockInv, NEW t \in Thread, Switch(t)
    PROVE  LockInv'
  <1>1. Shape' /\ Only(t) /\ pc'[t] = "run"
    BY DEF LockInv, Shape, Only, Switch, Goes, PC
  <1>2. pc[t] \in Inside /\ UNCHANGED <<holder, at, part, payload>> /\ binary' = Requested(t)
    BY DEF Switch, Inside, config
  <1>3. \A u \in Thread : pc[u] \in Inside <=> u = t
    BY <1>2 DEF LockInv, Exclusive
  <1>4. \A u \in Thread : pc'[u] \in Inside <=> u = t
    BY <1>1, <1>3 DEF Only, Inside
  <1>5. Requested(t)' = Requested(t)
    BY <1>2 DEF Requested, Change
  <1>6. Exclusive'
    BY <1>2, <1>3, <1>4 DEF LockInv, Exclusive
  <1>7. \A u \in Thread : pc'[u] \in {"run", "hung"} => u = t
    BY <1>4 DEF Inside
  <1>8. RightTerraform'
    BY <1>2, <1>5, <1>7 DEF RightTerraform
  <1> QED BY <1>1, <1>6, <1>8 DEF LockInv

LEMMA HangTerraform ==
    ASSUME LockInv, NEW t \in Thread, Hang(t)
    PROVE  LockInv'
  <1>1. Shape' /\ Only(t) /\ pc'[t] = "hung" /\ pc[t] = "run"
    BY DEF LockInv, Shape, Only, Hang, Goes, PC
  <1>2. UNCHANGED <<holder, binary, at, part, payload>>
    BY DEF Hang, config
  <1>3. Exclusive'
    BY <1>1, <1>2 DEF LockInv, Exclusive, Only, Inside
  <1>4. \A u \in Thread : pc'[u] \in {"run", "hung"} => pc[u] \in {"run", "hung"}
    BY <1>1 DEF Only
  <1>5. \A u \in Thread : Requested(u)' = Requested(u)
    BY <1>2 DEF Requested, Change
  <1>6. RightTerraform'
    BY <1>2, <1>4, <1>5 DEF LockInv, RightTerraform
  <1> QED BY <1>1, <1>3, <1>6 DEF LockInv

\* One step of one thread.
LEMMA LockStep ==
    ASSUME LockInv, NEW t \in Thread, Step(t)
    PROVE  LockInv'
  <1> USE DEF LockInv
  <1>1. CASE Skip(t)
    BY <1>1, NextChangeShape, OutsideLock DEF Skip, More, Inside, config
  <1>2. CASE BeginTag(t)
    <2>1. Shape' /\ Only(t) /\ pc[t] = "next" /\ pc'[t] = "extract"
      BY <1>2 DEF BeginTag, More, Shape, Only, Goes, PC
    <2> QED BY <1>2, <2>1, OutsideLock DEF BeginTag, Inside, config
  <1>3. CASE ReindexRefused(t)
    BY <1>3, NextChangeShape, OutsideLock DEF ReindexRefused, More, Inside, config
  <1>4. CASE DatabaseLocked(t)
    BY <1>4, RaisesShape, OutsideLock DEF DatabaseLocked, More, Inside, config
  <1>5. CASE Extract(t)
    <2>1. Shape' /\ Only(t) /\ pc[t] = "extract" /\ pc'[t] = "lock"
      BY <1>5 DEF Extract, Shape, Only, Goes, PC
    <2> QED BY <1>5, <2>1, OutsideLock DEF Extract, Inside, config
  <1>6. CASE ExtractionFails(t)
    BY <1>6, NextChangeShape, OutsideLock DEF ExtractionFails, TagFails, Inside, config
  <1>7. CASE ExtractionRaises(t)
    BY <1>7, RaisesShape, OutsideLock DEF ExtractionRaises, Inside, config
  <1>8. CASE Acquire(t)
    BY <1>8, AcquireLock
  <1>9. CASE GivesUp(t)
    BY <1>9, NextChangeShape, OutsideLock DEF GivesUp, TagFails, Inside, config
  <1>10. CASE Switch(t)
    BY <1>10, SwitchTerraform
  <1>11. CASE SwitchFails(t)
    BY <1>11, NextChangeShape, GivesBack DEF SwitchFails, TagFails, Inside
  <1>12. CASE Run(t)
    <2>1. pc[t] = "run" /\ holder' = {} /\ at' = at
      BY <1>12 DEF Run
    <2>2. \/ Goes(t, "extract") /\ part' = [part EXCEPT ![t] = @ + 1]
          \/ Goes(t, "finish") /\ part' = part
      BY <1>12 DEF Run
    <2>3. Shape' /\ Only(t) /\ pc'[t] \in {"extract", "finish"}
      BY <2>1, <2>2 DEF Shape, Only, Goes, PC
    <2> QED BY <2>1, <2>3, GivesBack DEF Inside
  <1>13. CASE LockedRaises(t)
    BY <1>13, RaisesShape, GivesBack DEF LockedRaises, Inside
  <1>14. CASE Hang(t)
    BY <1>14, HangTerraform
  <1>15. CASE FinishTag(t)
    BY <1>15, NextChangeShape, OutsideLock DEF FinishTag, Inside, config
  <1>16. CASE Answer(t)
    <2>1. Shape' /\ Only(t) /\ pc[t] = "next" /\ pc'[t] = "answered"
      BY <1>16 DEF Answer, Shape, Only, Goes, PC
    <2> QED BY <1>16, <2>1, OutsideLock DEF Answer, Inside, config
  <1> QED BY <1>1, <1>2, <1>3, <1>4, <1>5, <1>6, <1>7, <1>8, <1>9, <1>10, <1>11, <1>12,
             <1>13, <1>14, <1>15, <1>16 DEF Step

LEMMA LockInit == Init => LockInv
  BY DEF Init, LockInv, Shape, Exclusive, RightTerraform, PC, Inside

LEMMA LockInductive == LockInv /\ [Next]_importVars => LockInv'
  <1> SUFFICES ASSUME LockInv, [Next]_importVars PROVE LockInv'
    OBVIOUS
  <1>1. CASE Next
    BY <1>1, LockStep DEF Next
  <1>2. CASE UNCHANGED importVars
    BY <1>2 DEF importVars, LockInv, Shape, Exclusive, RightTerraform, Requested, Change
  <1> QED BY <1>1, <1>2

LEMMA LockAlways == Spec => []LockInv
  BY LockInit, LockInductive, PTL DEF Spec

\* However many threads extract modules, each module and submodule is analysed
\* by the Terraform it wants (_switch_terraform_versions).
THEOREM TerraformIsRight == Spec => []RightTerraform
  <1>1. LockInv => RightTerraform
    BY DEF LockInv
  <1> QED BY <1>1, LockAlways, PTL

\* A step is that of one thread.
LEMMA StepIsOfOne ==
    ASSUME Shape, NEW t \in Thread, Step(t)
    PROVE  Only(t)
  <1> USE DEF Only, Shape, Goes
  <1>1. CASE Skip(t) \/ BeginTag(t) \/ ReindexRefused(t) \/ Extract(t)
    BY <1>1 DEF Skip, BeginTag, ReindexRefused, Extract, NextChange
  <1>2. CASE DatabaseLocked(t) \/ ExtractionRaises(t) \/ LockedRaises(t)
    BY <1>2 DEF DatabaseLocked, ExtractionRaises, LockedRaises, Raises
  <1>3. CASE ExtractionFails(t) \/ GivesUp(t) \/ SwitchFails(t)
    BY <1>3 DEF ExtractionFails, GivesUp, SwitchFails, TagFails, NextChange
  <1>4. CASE Acquire(t) \/ Switch(t) \/ Hang(t) \/ FinishTag(t) \/ Answer(t)
    BY <1>4 DEF Acquire, Switch, Hang, FinishTag, Answer, NextChange
  <1>5. CASE Run(t)
    <2>1. at' = at
      BY <1>5 DEF Run
    <2>2. \/ Goes(t, "extract") /\ part' = [part EXCEPT ![t] = @ + 1]
          \/ Goes(t, "finish") /\ part' = part
      BY <1>5 DEF Run
    <2> QED BY <2>1, <2>2
  <1> QED BY <1>1, <1>2, <1>3, <1>4, <1>5 DEF Step

\* Waiting in vain is for another thread.
Busy ==
    \A t \in Thread : pc[t] = "lock" /\ pc'[t] = "next" =>
        \E u \in Thread \ {t} : pc[u] \in {"switch", "run", "hung"}

LEMMA BusyStep ==
    ASSUME LockInv, Next
    PROVE  Busy
  <1> SUFFICES ASSUME NEW t \in Thread, pc[t] = "lock", pc'[t] = "next"
               PROVE  \E u \in Thread \ {t} : pc[u] \in {"switch", "run", "hung"}
    BY DEF Busy
  <1>1. PICK s \in Thread : Step(s)
    BY DEF Next
  <1>2. s = t
    <2>1. Only(s)
      BY <1>1, StepIsOfOne DEF LockInv
    <2> QED BY <2>1 DEF Only
  <1>3. Step(t)
    BY <1>1, <1>2
  <1>4. ~Acquire(t)
    BY <1>1 DEF Acquire, Goes, LockInv, Shape
  <1>5. GivesUp(t)
    BY <1>3, <1>4 DEF Step, Skip, More, BeginTag, ReindexRefused, DatabaseLocked, Extract,
       ExtractionFails, ExtractionRaises, Switch, SwitchFails, Run, LockedRaises, Hang,
       FinishTag, Answer
  <1>6. PICK u \in holder : TRUE
    BY <1>5 DEF GivesUp
  <1>7. u \in Thread /\ pc[u] \in Inside
    BY <1>6, <1>1 DEF LockInv, Exclusive
  <1> QED BY <1>7 DEF Inside

\* A tag fails for want of the lock only while another thread runs Terraform
\* (_switch_terraform_versions gives the lock back however it ends).
THEOREM LockIsGivenBack == Spec => OnlyBusyTerraformFails
  <1>1. LockInv /\ [Next]_importVars => [Busy]_importVars
    BY BusyStep
  <1> QED BY <1>1, LockAlways, PTL DEF Spec, OnlyBusyTerraformFails, Busy

-----------------------------------------------------------------------------
(* What changes have made of the versions: the last import of version v    *)
(* among the first n changes of a payload p with the outcome o counts.     *)

Tags(p, n, v) == p[n].version = v

Imports(p, o, n, v) == {m \in 1..n : o[m] = "success" /\ Tags(p, m, v)}

Latest(p, o, b, n, v) ==
    IF Imports(p, o, n, v) = {} THEN b[v]
    ELSE 1 + CHOOSE m \in Imports(p, o, n, v) : \A l \in Imports(p, o, n, v) : l <= m

Made(t, n, v) == Latest(payload[t], outcome[t], before, n, v)

LEMMA AfterIsLatest ==
    ASSUME NEW t, NEW n, NEW v
    PROVE  After(t, n, v) = Latest(payload[t], outcome[t], before, n, v)
  BY DEF After, Latest, Imports, Tags

Result == {"success", "failed", "skipped"}

\* Nothing was made by no change.
LEMMA LatestAtFirst ==
    ASSUME NEW p, NEW o, NEW b, NEW v
    PROVE  Latest(p, o, b, 0, v) = b[v]
  BY DEF Latest, Imports

LEMMA SameImports ==
    ASSUME NEW p, NEW o, NEW q, NEW b, NEW v, NEW n, NEW m,
           Imports(p, o, n, v) = Imports(p, q, m, v)
    PROVE  Latest(p, o, b, n, v) = Latest(p, q, b, m, v)
  BY DEF Latest

\* Another outcome does not change what the earlier ones have made.
LEMMA LatestStays ==
    ASSUME NEW p, NEW o \in Seq(Result), NEW r \in Result, NEW b, NEW v,
           NEW n \in 0..Len(o)
    PROVE  Latest(p, Append(o, r), b, n, v) = Latest(p, o, b, n, v)
  <1>1. \A m \in 1..n : Append(o, r)[m] = o[m]
    OBVIOUS
  <1>2. Imports(p, Append(o, r), n, v) = Imports(p, o, n, v)
    BY <1>1 DEF Imports
  <1> QED BY <1>2, SameImports

\* A success makes the version that of its change ...
LEMMA LatestImported ==
    ASSUME NEW p, NEW o \in Seq(Result), NEW r \in Result, NEW b, NEW v,
           r = "success", Tags(p, Len(o) + 1, v)
    PROVE  Latest(p, Append(o, r), b, Len(o) + 1, v) = Len(o) + 2
  <1> DEFINE n == Len(o) + 1
             I == Imports(p, Append(o, r), n, v)
  <1>1. n \in Nat /\ Append(o, r)[n] = "success"
    OBVIOUS
  <1>2. n \in I /\ I \subseteq 1..n
    BY <1>1 DEF Imports
  <1>3. \A m \in I : (\A l \in I : l <= m) <=> m = n
    BY <1>1, <1>2
  <1>4. (CHOOSE m \in I : \A l \in I : l <= m) = n
    BY <1>2, <1>3
  <1> QED BY <1>1, <1>2, <1>4 DEF Latest

\* ... and nothing else changes any.
LEMMA LatestOther ==
    ASSUME NEW p, NEW o \in Seq(Result), NEW r \in Result, NEW b, NEW v,
           r # "success" \/ ~Tags(p, Len(o) + 1, v)
    PROVE  Latest(p, Append(o, r), b, Len(o) + 1, v) = Latest(p, o, b, Len(o), v)
  <1> DEFINE n == Len(o)
  <1>1. n \in Nat /\ Append(o, r)[n + 1] = r /\ \A m \in 1..n : Append(o, r)[m] = o[m]
    OBVIOUS
  <1>2. n + 1 \notin Imports(p, Append(o, r), n + 1, v)
    BY <1>1 DEF Imports
  <1>3. Imports(p, Append(o, r), Len(o) + 1, v) = Imports(p, o, Len(o), v)
    BY <1>1, <1>2 DEF Imports
  <1> QED BY <1>3, SameImports

-----------------------------------------------------------------------------
(* The inductive invariant of the rows.                                    *)

Middle == {"extract", "lock", "switch", "run", "finish"}

Types ==
    /\ payload \in [Thread -> Payload] /\ before \in [Version -> Nat]
    /\ sqlite \in BOOLEAN /\ nested \in [Thread -> BOOLEAN]
    /\ rows \in [Thread -> [Version -> Nat]]
    /\ work \in [Thread -> [Version -> Nat]]
    /\ save \in [Thread -> [Version -> Nat]]
    /\ pc \in [Thread -> PC] /\ at \in [Thread -> Nat \ {0}]
    /\ outcome \in [Thread -> Seq(Result)]

\* Every change that was done with has its outcome.
Counted(t) == at[t] = Len(outcome[t]) + 1 /\ at[t] <= Len(payload[t]) + 1

\* What the transaction sees, between changes and within one.
WorkIsWhole(t) ==
    pc[t] = "next" => \A v \in Version : work[t][v] = Made(t, Len(outcome[t]), v)

WorkIsAhead(t) ==
    pc[t] \in Middle =>
        /\ at[t] \in DOMAIN payload[t] /\ Change(t).version \in Version
        /\ \A v \in Version : save[t][v] = Made(t, Len(outcome[t]), v)
        /\ work[t] = [save[t] EXCEPT ![Change(t).version] = 1 + at[t]]

\* What is committed before the answer and by it.
Committed(t, n) ==
    /\ ~sqlite => n = 0
    /\ \A m \in 1..n : outcome[t][m] # "failed"
    /\ \A v \in Version : rows[t][v] = Made(t, n, v)

RowsAreWhole(t) == pc[t] # "answered" => \E n \in 0..Len(outcome[t]) : Committed(t, n)

RowsAreTold(t) ==
    pc[t] = "answered" => \A v \in Version : rows[t][v] = Made(t, Len(payload[t]), v)

\* While no savepoint was rolled back, no change has failed.
NothingFailed(t) ==
    sqlite /\ ~nested[t] /\ pc[t] \in Middle \cup {"next"} =>
        \A m \in 1..Len(outcome[t]) : outcome[t][m] # "failed"

Whole(t) ==
    /\ Counted(t) /\ WorkIsWhole(t) /\ WorkIsAhead(t)
    /\ RowsAreWhole(t) /\ RowsAreTold(t) /\ NothingFailed(t)

WholeInv == Types /\ \A t \in Thread : Whole(t)

\* What a step of t does to the other threads.
Alone(t) ==
    /\ UNCHANGED config
    /\ \A u \in Thread \ {t} :
          /\ pc'[u] = pc[u] /\ at'[u] = at[u] /\ outcome'[u] = outcome[u]
          /\ rows'[u] = rows[u] /\ work'[u] = work[u] /\ save'[u] = save[u]
          /\ nested'[u] = nested[u]

LEMMA OthersStayWhole ==
    ASSUME NEW t \in Thread, Alone(t), NEW u \in Thread \ {t}, Whole(u)
    PROVE  Whole(u)'
  <1>1. /\ pc'[u] = pc[u] /\ at'[u] = at[u] /\ outcome'[u] = outcome[u]
        /\ rows'[u] = rows[u] /\ work'[u] = work[u] /\ save'[u] = save[u]
        /\ nested'[u] = nested[u]
        /\ sqlite' = sqlite /\ payload' = payload /\ before' = before
    BY DEF Alone, config
  <1>2. Counted(u)' /\ NothingFailed(u)'
    BY <1>1 DEF Whole, Counted, NothingFailed
  <1>3. WorkIsWhole(u)'
    BY <1>1 DEF Whole, WorkIsWhole, Made
  <1>4. WorkIsAhead(u)'
    BY <1>1 DEF Whole, WorkIsAhead, Made, Change
  <1>5. RowsAreWhole(u)' /\ RowsAreTold(u)'
    BY <1>1 DEF Whole, RowsAreWhole, Committed, RowsAreTold, Made
  <1> QED BY <1>2, <1>3, <1>4, <1>5 DEF Whole

\* The end of a change, whatever its outcome.  What it has made of the
\* versions is what the transaction sees, and what it has committed, if it has.
LEMMA ChangeIsDone ==
    ASSUME WholeInv, NEW t \in Thread, NEW r \in Result,
           pc[t] \in Middle \cup {"next"}, at[t] \in DOMAIN payload[t],
           NextChange(t, r), UNCHANGED config,
           \A v \in Version :
               work'[t][v] = IF r = "success" /\ Change(t).version = v
                             THEN 1 + at[t] ELSE Made(t, Len(outcome[t]), v),
           \/ rows'[t] = rows[t]
           \/ rows'[t] = work'[t] /\ sqlite /\ ~nested[t] /\ r # "failed",
           sqlite /\ ~nested'[t] => ~nested[t] /\ r # "failed"
    PROVE  Whole(t)'
  <1> DEFINE o == outcome[t]
  <1>0. Whole(t) /\ o \in Seq(Result)
    BY DEF WholeInv, Types
  <1>1. /\ pc'[t] = "next" /\ at'[t] = at[t] + 1 /\ outcome'[t] = Append(o, r)
        /\ sqlite' = sqlite /\ payload' = payload /\ before' = before
    BY DEF WholeInv, Types, NextChange, Goes, config
  <1>2. at[t] = Len(o) + 1 /\ Len(outcome'[t]) = Len(o) + 1 /\ Len(o) \in Nat
    BY <1>0, <1>1 DEF Whole, Counted
  <1>3. \A m \in 1..Len(o) : outcome'[t][m] = o[m]
    BY <1>0, <1>1
  <1>4. outcome'[t][Len(o) + 1] = r
    BY <1>0, <1>1
  <1>5. \A n \in 0..Len(o), v \in Version : Made(t, n, v)' = Made(t, n, v)
    BY <1>0, <1>1, LatestStays DEF Made
  <1>6. ASSUME NEW v \in Version PROVE work'[t][v] = Made(t, Len(outcome[t]), v)'
    <2>1. CASE r = "success" /\ Change(t).version = v
      <3>1. r = "success" /\ Tags(payload[t], Len(o) + 1, v)
        BY <1>2, <2>1 DEF Change, Tags
      <3>2. Latest(payload[t], Append(o, r), before, Len(o) + 1, v) = Len(o) + 2
        BY <1>0, <3>1, LatestImported
      <3> QED BY <1>1, <1>2, <2>1, <3>2 DEF Made
    <2>2. CASE ~(r = "success" /\ Change(t).version = v)
      <3>1. r # "success" \/ ~Tags(payload[t], Len(o) + 1, v)
        BY <1>2, <2>2 DEF Change, Tags
      <3>2. Latest(payload[t], Append(o, r), before, Len(o) + 1, v)
                = Latest(payload[t], o, before, Len(o), v)
        BY <1>0, <3>1, LatestOther
      <3> QED BY <1>1, <1>2, <2>2, <3>2 DEF Made
    <2> QED BY <2>1, <2>2
  <1>7. Counted(t)'
    <2>1. Len(payload[t]) \in Nat /\ DOMAIN payload[t] = 1..Len(payload[t])
      BY PayloadAssumption DEF WholeInv, Types
    <2> QED BY <1>1, <1>2, <2>1 DEF Counted
  <1>8. WorkIsWhole(t)' /\ WorkIsAhead(t)' /\ RowsAreTold(t)'
    BY <1>1, <1>6 DEF WorkIsWhole, WorkIsAhead, RowsAreTold, Middle
  <1>9. NothingFailed(t)'
    BY <1>0, <1>1, <1>2, <1>3, <1>4 DEF Whole, NothingFailed
  <1>10. RowsAreWhole(t)'
    <2>1. CASE rows'[t] = rows[t]
      <3>1. PICK n \in 0..Len(o) : Committed(t, n)
        BY <1>0 DEF Whole, RowsAreWhole, Middle
      <3>2. Committed(t, n)'
        BY <1>1, <1>2, <1>3, <1>5, <2>1, <3>1 DEF Committed
      <3> QED BY <1>2, <3>2 DEF RowsAreWhole
    <2>2. CASE rows'[t] = work'[t] /\ sqlite /\ ~nested[t] /\ r # "failed"
      <3>1. \A m \in 1..(Len(o) + 1) : outcome'[t][m] # "failed"
        BY <1>0, <1>2, <1>3, <1>4, <2>2 DEF Whole, NothingFailed
      <3>2. Committed(t, Len(outcome[t]))'
        BY <1>1, <1>2, <1>6, <2>2, <3>1 DEF Committed
      <3> QED BY <1>2, <3>2 DEF RowsAreWhole
    <2> QED BY <2>1, <2>2
  <1> QED BY <1>7, <1>8, <1>9, <1>10 DEF Whole

\* The step of one thread.
LEMMA WholeTogether ==
    ASSUME WholeInv, Types', NEW t \in Thread, Alone(t), Whole(t)'
    PROVE  WholeInv'
  <1>1. \A u \in Thread \ {t} : Whole(u)'
    BY OthersStayWhole DEF WholeInv
  <1> QED BY <1>1 DEF WholeInv

LEMMA ChangeTypes ==
    ASSUME WholeInv, NEW t \in Thread, at[t] \in DOMAIN payload[t]
    PROVE  Change(t).version \in Version \cup {None} /\ at[t] \in Nat
  <1> DEFINE S == [version : Version \cup {None}, parts : Seq(Terraform)]
  <1>1. payload[t] \in Seq(S)
    BY PayloadAssumption DEF WholeInv, Types
  <1>2. payload[t][at[t]] \in S
    <2> HIDE DEF S
    <2> QED BY <1>1
  <1> QED BY <1>2 DEF WholeInv, Types, Change

LEMMA NextChangeTypes ==
    ASSUME Types, NEW t \in Thread, NEW r \in Result, NextChange(t, r)
    PROVE  /\ pc' \in [Thread -> PC] /\ at' \in [Thread -> Nat \ {0}]
           /\ outcome' \in [Thread -> Seq(Result)]
           /\ \A u \in Thread \ {t} : /\ pc'[u] = pc[u] /\ at'[u] = at[u]
                                      /\ outcome'[u] = outcome[u]
  <1>1. at[t] + 1 \in Nat \ {0} /\ Append(outcome[t], r) \in Seq(Result)
    BY DEF Types
  <1> QED BY <1>1 DEF Types, NextChange, Goes, PC

LEMMA SkipIsWhole ==
    ASSUME WholeInv, NEW t \in Thread, Skip(t)
    PROVE  WholeInv'
  <1> DEFINE r == "skipped"
  <1>1. /\ pc[t] = "next" /\ at[t] \in DOMAIN payload[t] /\ NextChange(t, r) /\ r \in Result
        /\ UNCHANGED <<config, rows, work, save, nested>>
    BY DEF Skip, More, database, Result
  <1>2. Types' /\ Alone(t)
    BY <1>1, NextChangeTypes DEF WholeInv, Types, Alone, config
  <1>3. Whole(t)'
    <2>1. \A v \in Version : work'[t][v] = Made(t, Len(outcome[t]), v)
      BY <1>1 DEF WholeInv, Whole, WorkIsWhole
    <2> QED BY <1>1, <2>1, ChangeIsDone
  <1> QED BY <1>2, <1>3, WholeTogether

LEMMA RefusedIsWhole ==
    ASSUME WholeInv, NEW t \in Thread, ReindexRefused(t)
    PROVE  WholeInv'
  <1> DEFINE r == "failed"
  <1>1. /\ pc[t] = "next" /\ at[t] \in DOMAIN payload[t] /\ NextChange(t, r) /\ r \in Result
        /\ UNCHANGED <<config, rows, work, save>>
        /\ nested' = [nested EXCEPT ![t] = sqlite]
    BY DEF ReindexRefused, More, Result
  <1>2. Types' /\ Alone(t)
    BY <1>1, NextChangeTypes DEF WholeInv, Types, Alone, config
  <1>3. Whole(t)'
    <2>1. \A v \in Version : work'[t][v] = Made(t, Len(outcome[t]), v)
      BY <1>1 DEF WholeInv, Whole, WorkIsWhole
    <2>2. nested'[t] = sqlite
      BY <1>1 DEF WholeInv, Types
    <2> QED BY <1>1, <2>1, <2>2, ChangeIsDone
  <1> QED BY <1>2, <1>3, WholeTogether

\* An error of terrareg within a savepoint.
LEMMA FailureIsWhole ==
    ASSUME WholeInv, NEW t \in Thread, pc[t] \in Middle, TagFails(t), UNCHANGED config
    PROVE  WholeInv'
  <1> DEFINE r == "failed"
  <1>1. /\ NextChange(t, r) /\ r \in Result
        /\ work' = [work EXCEPT ![t] = save[t]]
        /\ nested' = [nested EXCEPT ![t] = sqlite]
        /\ UNCHANGED <<rows, save>>
    BY DEF TagFails, Result
  <1>2. Types' /\ Alone(t)
    BY <1>1, NextChangeTypes DEF WholeInv, Types, Alone, config
  <1>3. Whole(t)'
    <2>1. work'[t] = save[t] /\ nested'[t] = sqlite
      BY <1>1 DEF WholeInv, Types
    <2>2. /\ at[t] \in DOMAIN payload[t]
          /\ \A v \in Version : work'[t][v] = Made(t, Len(outcome[t]), v)
      BY <2>1 DEF WholeInv, Whole, WorkIsAhead
    <2> QED BY <1>1, <2>1, <2>2, ChangeIsDone
  <1> QED BY <1>2, <1>3, WholeTogether

LEMMA FinishIsWhole ==
    ASSUME WholeInv, NEW t \in Thread, FinishTag(t)
    PROVE  WholeInv'
  <1> DEFINE r == "success"
  <1>1. /\ pc[t] = "finish" /\ NextChange(t, r) /\ r \in Result
        /\ UNCHANGED <<config, work, save, nested>>
    BY DEF FinishTag, Result
  <1>2. \/ rows' = rows
        \/ rows' = [rows EXCEPT ![t] = work[t]] /\ sqlite /\ ~nested[t]
    BY DEF FinishTag
  <1>3. Types' /\ Alone(t)
    <2>1. rows' \in [Thread -> [Version -> Nat]] /\ \A u \in Thread \ {t} : rows'[u] = rows[u]
      BY <1>2 DEF WholeInv, Types
    <2> QED BY <1>1, <2>1, NextChangeTypes DEF WholeInv, Types, Alone, config
  <1>4. Whole(t)'
    <2>1. /\ at[t] \in DOMAIN payload[t]
          /\ save[t] \in [Version -> Nat]
          /\ \A v \in Version : save[t][v] = Made(t, Len(outcome[t]), v)
          /\ work[t] = [save[t] EXCEPT ![Change(t).version] = 1 + at[t]]
      BY <1>1 DEF WholeInv, Types, Whole, WorkIsAhead, Middle
    <2>2. \A v \in Version :
              work'[t][v] = IF r = "success" /\ Change(t).version = v
                            THEN 1 + at[t] ELSE Made(t, Len(outcome[t]), v)
      BY <1>1, <2>1
    <2>3. \/ rows'[t] = rows[t]
          \/ rows'[t] = work'[t] /\ sqlite /\ ~nested[t] /\ r # "failed"
      BY <1>1, <1>2 DEF WholeInv, Types
    <2>4. pc[t] \in Middle
      BY <1>1 DEF Middle
    <2> QED BY <1>1, <2>1, <2>2, <2>3, <2>4, ChangeIsDone
  <1> QED BY <1>3, <1>4, WholeTogether

LEMMA BeginIsWhole ==
    ASSUME WholeInv, NEW t \in Thread, BeginTag(t)
    PROVE  WholeInv'
  <1>1. /\ pc[t] = "next" /\ at[t] \in DOMAIN payload[t] /\ Change(t).version # None
        /\ pc' = [pc EXCEPT ![t] = "extract"]
        /\ save' = [save EXCEPT ![t] = work[t]]
        /\ work' = [work EXCEPT ![t][Change(t).version] = 1 + at[t]]
        /\ UNCHANGED <<config, rows, nested, at, outcome>>
    BY DEF BeginTag, More, Goes
  <1>2. Change(t).version \in Version
    BY <1>1, ChangeTypes
  <1>3. /\ save'[t] = work[t] /\ work'[t] = [work[t] EXCEPT ![Change(t).version] = 1 + at[t]]
        /\ pc'[t] = "extract"
    BY <1>1, <1>2 DEF WholeInv, Types
  <1>4. Types' /\ Alone(t)
    BY SMTT(30), <1>1, <1>2 DEF WholeInv, Types, Alone, config, PC
  <1>5. Whole(t)'
    <2>1. Counted(t)' /\ WorkIsWhole(t)' /\ RowsAreTold(t)' /\ NothingFailed(t)'
      BY <1>1, <1>3 DEF WholeInv, Whole, Counted, WorkIsWhole, RowsAreTold, NothingFailed, config,
         Middle
    <2>2. WorkIsAhead(t)'
      <3>1. Change(t)' = Change(t) /\ at'[t] \in DOMAIN payload'[t] /\ at' = at
        BY <1>1 DEF Change, config
      <3>2. \A v \in Version : save'[t][v] = Made(t, Len(outcome[t]), v)'
        BY <1>1, <1>3 DEF WholeInv, Whole, WorkIsWhole, Made, config
      <3> QED BY <1>2, <1>3, <3>1, <3>2 DEF WorkIsAhead
    <2>3. RowsAreWhole(t)'
      BY <1>1 DEF WholeInv, Whole, RowsAreWhole, Committed, Made, config
    <2> QED BY <2>1, <2>2, <2>3 DEF Whole
  <1> QED BY <1>4, <1>5, WholeTogether

\* A step between begin and end of a change, and one that never ends.
LEMMA MoveIsWhole ==
    ASSUME WholeInv, NEW t \in Thread, pc[t] \in Middle, NEW to \in Middle \cup {"hung"},
           Goes(t, to), UNCHANGED <<config, rows, work, save, nested, at, outcome>>
    PROVE  WholeInv'
  <1>1. pc'[t] = to
    BY DEF Goes, WholeInv, Types
  <1>2. Types' /\ Alone(t)
    BY DEF WholeInv, Types, Alone, config, Goes, Middle, PC
  <1>3. Counted(t)' /\ WorkIsWhole(t)' /\ RowsAreTold(t)' /\ NothingFailed(t)'
    BY <1>1 DEF WholeInv, Whole, Counted, WorkIsWhole, RowsAreTold, NothingFailed, config, Middle
  <1>4. WorkIsAhead(t)'
    BY <1>1 DEF WholeInv, Whole, WorkIsAhead, Made, Change, config
  <1>5. RowsAreWhole(t)'
    BY <1>1 DEF WholeInv, Whole, RowsAreWhole, Committed, Made, config, Middle
  <1> QED BY <1>2, <1>3, <1>4, <1>5, WholeTogether DEF Whole

LEMMA RaiseIsWhole ==
    ASSUME WholeInv, NEW t \in Thread, pc[t] # "answered", Raises(t), UNCHANGED config
    PROVE  WholeInv'
  <1>1. pc'[t] = "raised"
    BY DEF Raises, Goes, WholeInv, Types
  <1>2. Types' /\ Alone(t)
    BY DEF WholeInv, Types, Alone, config, Raises, Goes, PC
  <1>3. /\ Counted(t)' /\ WorkIsWhole(t)' /\ WorkIsAhead(t)' /\ RowsAreTold(t)'
        /\ NothingFailed(t)'
    BY <1>1 DEF WholeInv, Whole, Counted, WorkIsWhole, WorkIsAhead, RowsAreTold, NothingFailed,
       config, Middle, Raises
  <1>4. RowsAreWhole(t)'
    BY <1>1 DEF WholeInv, Whole, RowsAreWhole, Committed, Made, config, Raises
  <1> QED BY <1>2, <1>3, <1>4, WholeTogether DEF Whole

LEMMA AnswerIsWhole ==
    ASSUME WholeInv, NEW t \in Thread, Answer(t)
    PROVE  WholeInv'
  <1>1. /\ pc[t] = "next" /\ at[t] \notin DOMAIN payload[t]
        /\ rows' = [rows EXCEPT ![t] = work[t]] /\ pc' = [pc EXCEPT ![t] = "answered"]
        /\ UNCHANGED <<config, work, save, nested, at, outcome>>
    BY DEF Answer, Goes
  <1>2. pc'[t] = "answered" /\ rows'[t] = work[t]
    BY <1>1 DEF WholeInv, Types
  <1>3. Types' /\ Alone(t)
    BY <1>1 DEF WholeInv, Types, Alone, config, PC
  <1>4. Len(outcome[t]) = Len(payload[t])
    <2>1. DOMAIN payload[t] = 1..Len(payload[t]) /\ Len(payload[t]) \in Nat
      BY PayloadAssumption DEF WholeInv, Types
    <2>2. Len(outcome[t]) \in Nat /\ at[t] \in Nat \ {0}
      BY DEF WholeInv, Types
    <2> QED BY <1>1, <2>1, <2>2 DEF WholeInv, Whole, Counted
  <1>5. Counted(t)' /\ WorkIsWhole(t)' /\ WorkIsAhead(t)' /\ RowsAreWhole(t)' /\ NothingFailed(t)'
    BY <1>1, <1>2 DEF WholeInv, Whole, Counted, WorkIsWhole, WorkIsAhead, RowsAreWhole,
       NothingFailed, config, Middle
  <1>6. RowsAreTold(t)'
    BY <1>1, <1>2, <1>4 DEF WholeInv, Whole, WorkIsWhole, RowsAreTold, Made, config
  <1> QED BY <1>3, <1>5, <1>6, WholeTogether DEF Whole

LEMMA WholeStep ==
    ASSUME WholeInv, NEW t \in Thread, Step(t)
    PROVE  WholeInv'
  <1>1. CASE Skip(t)
    BY <1>1, SkipIsWhole
  <1>2. CASE BeginTag(t)
    BY <1>2, BeginIsWhole
  <1>3. CASE ReindexRefused(t)
    BY <1>3, RefusedIsWhole
  <1>4. CASE DatabaseLocked(t) \/ ExtractionRaises(t) \/ LockedRaises(t)
    <2>1. Raises(t) /\ UNCHANGED config /\ pc[t] # "answered"
      BY <1>4 DEF DatabaseLocked, More, ExtractionRaises, LockedRaises
    <2> QED BY <2>1, RaiseIsWhole
  <1>5. CASE ExtractionFails(t) \/ GivesUp(t) \/ SwitchFails(t)
    <2>1. TagFails(t) /\ UNCHANGED config /\ pc[t] \in Middle
      BY <1>5 DEF ExtractionFails, GivesUp, SwitchFails, Middle
    <2> QED BY <2>1, FailureIsWhole
  <1>6. CASE Extract(t) \/ Acquire(t) \/ Switch(t) \/ Hang(t) \/ Run(t)
    <2>1. /\ pc[t] \in Middle
          /\ UNCHANGED <<config, rows, work, save, nested, at, outcome>>
      BY <1>6 DEF Extract, Acquire, Switch, Hang, Run, Middle, database
    <2>2. \E to \in Middle \cup {"hung"} : Goes(t, to)
      BY <1>6 DEF Extract, Acquire, Switch, Hang, Run, Middle
    <2> QED BY <2>1, <2>2, MoveIsWhole
  <1>7. CASE FinishTag(t)
    BY <1>7, FinishIsWhole
  <1>8. CASE Answer(t)
    BY <1>8, AnswerIsWhole
  <1> QED BY <1>1, <1>2, <1>3, <1>4, <1>5, <1>6, <1>7, <1>8 DEF Step

LEMMA WholeInit == Init => WholeInv
  <1> SUFFICES ASSUME Init PROVE WholeInv
    OBVIOUS
  <1>1. Types
    <2>1. OnSqlite \subseteq BOOLEAN
      BY DatabaseAssumption
    <2>2. rows \in [Thread -> [Version -> Nat]]
      BY DEF Init
    <2> QED BY <2>1, <2>2 DEF Init, Types, PC
  <1>2. ASSUME NEW t \in Thread PROVE Whole(t)
    <2>1. /\ pc[t] = "next" /\ at[t] = 1 /\ outcome[t] = <<>> /\ nested[t] = FALSE
          /\ rows[t] = before /\ work[t] = before
      BY DEF Init
    <2>2. Len(payload[t]) \in Nat
      BY <1>1, PayloadAssumption DEF Types
    <2>3. \A v \in Version : Made(t, 0, v) = before[v]
      BY LatestAtFirst DEF Made
    <2>4. Counted(t) /\ WorkIsWhole(t) /\ WorkIsAhead(t) /\ RowsAreTold(t) /\ NothingFailed(t)
      BY <2>1, <2>2, <2>3 DEF Counted, WorkIsWhole, WorkIsAhead, RowsAreTold, NothingFailed, Middle
    <2>5. Committed(t, 0) /\ 0 \in 0..Len(outcome[t])
      BY <2>1, <2>3 DEF Committed
    <2> QED BY <2>4, <2>5 DEF Whole, RowsAreWhole
  <1> QED BY <1>1, <1>2 DEF WholeInv

LEMMA WholeInductive == WholeInv /\ [Next]_importVars => WholeInv'
  <1> SUFFICES ASSUME WholeInv, [Next]_importVars PROVE WholeInv'
    OBVIOUS
  <1>1. CASE Next
    BY <1>1, WholeStep DEF Next
  <1>2. CASE UNCHANGED importVars
    <2>1. /\ UNCHANGED <<sqlite, payload, before, rows, work, save, nested, pc, at, outcome>>
      BY <1>2 DEF importVars
    <2>2. Types'
      BY <2>1 DEF WholeInv, Types
    <2>3. ASSUME NEW t \in Thread PROVE Whole(t)'
      <3>1. Counted(t)' /\ WorkIsWhole(t)' /\ WorkIsAhead(t)'
        BY <2>1 DEF WholeInv, Whole, Counted, WorkIsWhole, WorkIsAhead, Made, Change
      <3>2. RowsAreWhole(t)' /\ RowsAreTold(t)' /\ NothingFailed(t)'
        BY <2>1 DEF WholeInv, Whole, RowsAreWhole, Committed, RowsAreTold, NothingFailed, Made
      <3> QED BY <3>1, <3>2 DEF Whole
    <2> QED BY <2>2, <2>3 DEF WholeInv
  <1> QED BY <1>1, <1>2

LEMMA WholeAlways == Spec => []WholeInv
  BY WholeInit, WholeInductive, PTL DEF Spec

LEMMA WholeTells == WholeInv => ResponseTellsRows /\ OnlyWholeTags
  <1>1. WholeInv => ResponseTellsRows
    BY AfterIsLatest DEF WholeInv, Whole, RowsAreTold, Made, ResponseTellsRows
  <1>2. WholeInv => OnlyWholeTags
    BY AfterIsLatest DEF WholeInv, Whole, RowsAreWhole, Committed, Made, OnlyWholeTags
  <1> QED BY <1>1, <1>2

\* Whatever tags a hook tells of, and however often one of them, the versions
\* are in the end as its response tells (_post, savepoints).
THEOREM ResponseIsTrue == Spec => []ResponseTellsRows
  BY WholeTells, WholeAlways, PTL

\* Nothing but whole tags is committed before a hook is answered, wherever it
\* is interrupted.
THEOREM TagsAreWhole == Spec => []OnlyWholeTags
  BY WholeTells, WholeAlways, PTL

-----------------------------------------------------------------------------
(* Types: what versions may be, who may write, and which part is analysed.  *)

\* What is told of version v is none, what was there, or one of the changes.
Bounded(t) ==
    \A v \in Version : /\ rows[t][v] \in 0..(1 + Len(payload[t]))
                       /\ work[t][v] \in 0..(1 + Len(payload[t]))
                       /\ save[t][v] \in 0..(1 + Len(payload[t]))

HasPart(t) ==
    /\ pc[t] = "next" => part[t] = 1
    /\ pc[t] \in Middle => part[t] \in DOMAIN Change(t).parts

BoundInv ==
    /\ prohibit \in BOOLEAN
    /\ binary \in Terraform \cup {None}
    /\ writer = {} \/ \E u \in Thread : writer = {u}
    /\ \A t \in Thread : Bounded(t) /\ HasPart(t)

LEMMA ChangeHasParts ==
    ASSUME WholeInv, NEW t \in Thread, at[t] \in DOMAIN payload[t]
    PROVE  Change(t).parts \in Seq(Terraform) /\ 1 \in DOMAIN Change(t).parts
  <1> DEFINE S == [version : Version \cup {None}, parts : Seq(Terraform)]
  <1>1. payload[t] \in Seq(S) /\ payload[t][at[t]].parts # <<>>
    BY PayloadAssumption DEF WholeInv, Types
  <1>2. payload[t][at[t]] \in S
    <2> HIDE DEF S
    <2> QED BY <1>1
  <1>3. Change(t).parts \in Seq(Terraform) /\ Change(t).parts # <<>>
    BY <1>1, <1>2 DEF Change
  <1>4. \A s \in Seq(Terraform) : s # <<>> => 1 \in DOMAIN s
    OBVIOUS
  <1> QED BY <1>3, <1>4

\* What a step makes of the versions, and of the write lock.
LEMMA StepWrites ==
    ASSUME WholeInv, NEW t \in Thread, Step(t)
    PROVE  /\ UNCHANGED config /\ Alone(t)
           /\ rows'[t] \in {rows[t], work[t]}
           /\ save'[t] \in {save[t], work[t]}
           /\ \/ work'[t] \in {work[t], save[t], rows[t]}
              \/ /\ at[t] \in DOMAIN payload[t]
                 /\ work'[t] = [work[t] EXCEPT ![Change(t).version] = 1 + at[t]]
           /\ writer' \in {writer, writer \ {t}, {t}, {}}
  <1> USE DEF WholeInv, Types, Alone, config, Goes
  <1>1. CASE Skip(t)
    BY <1>1 DEF Skip, NextChange, database
  <1>2. CASE BeginTag(t)
    BY <1>2 DEF BeginTag, More
  <1>3. CASE ReindexRefused(t)
    BY <1>3 DEF ReindexRefused, NextChange
  <1>4. CASE DatabaseLocked(t) \/ ExtractionRaises(t) \/ LockedRaises(t)
    BY <1>4 DEF DatabaseLocked, ExtractionRaises, LockedRaises, Raises
  <1>5. CASE ExtractionFails(t) \/ GivesUp(t) \/ SwitchFails(t)
    BY <1>5 DEF ExtractionFails, GivesUp, SwitchFails, TagFails, NextChange
  <1>6. CASE Extract(t) \/ Acquire(t) \/ Switch(t) \/ Hang(t)
    BY <1>6 DEF Extract, Acquire, Switch, Hang, database
  <1>7. CASE Run(t)
    <2>1. UNCHANGED <<config, database, at, outcome>>
      BY <1>7 DEF Run
    <2>2. \A u \in Thread \ {t} : pc'[u] = pc[u]
      BY <1>7 DEF Run
    <2> QED BY <2>1, <2>2 DEF database
  <1>8. CASE FinishTag(t)
    BY <1>8 DEF FinishTag, NextChange
  <1>9. CASE Answer(t)
    BY <1>9 DEF Answer
  <1> QED BY <1>1, <1>2, <1>3, <1>4, <1>5, <1>6, <1>7, <1>8, <1>9 DEF Step

\* Which part of a change is analysed, and by which Terraform.
LEMMA StepParts ==
    ASSUME WholeInv, Shape, NEW t \in Thread, HasPart(t), Step(t)
    PROVE  /\ HasPart(t)'
           /\ \/ binary' = binary
              \/ pc[t] \in Middle /\ binary' = Requested(t)
  <1> USE DEF Shape, Goes, HasPart, Middle
  <1>0. payload' = payload
    BY StepWrites DEF config
  <1>1. ASSUME NEW r, NextChange(t, r), binary' = binary
        PROVE  HasPart(t)' /\ binary' = binary
    BY <1>1 DEF NextChange
  <1>2. CASE Skip(t) \/ ReindexRefused(t) \/ FinishTag(t)
    BY <1>1, <1>2 DEF Skip, ReindexRefused, FinishTag
  <1>3. CASE ExtractionFails(t) \/ GivesUp(t) \/ SwitchFails(t)
    BY <1>1, <1>3 DEF ExtractionFails, GivesUp, SwitchFails, TagFails
  <1>4. CASE DatabaseLocked(t) \/ ExtractionRaises(t) \/ LockedRaises(t)
    BY <1>4 DEF DatabaseLocked, ExtractionRaises, LockedRaises, Raises
  <1>5. CASE BeginTag(t)
    <2>1. 1 \in DOMAIN Change(t).parts
      BY <1>5, ChangeHasParts DEF BeginTag, More
    <2> QED BY <1>0, <1>5, <2>1 DEF BeginTag, More, Change
  <1>6. CASE Extract(t) \/ Acquire(t) \/ Switch(t)
    BY <1>0, <1>6 DEF Extract, Acquire, Switch, Change
  <1>7. CASE Run(t)
    <2>1. at[t] \in DOMAIN payload[t]
      BY <1>7 DEF Run, WholeInv, Whole, WorkIsAhead
    <2>2. Change(t).parts \in Seq(Terraform)
      BY <2>1, ChangeHasParts
    <2>3. DOMAIN Change(t).parts = 1..Len(Change(t).parts) /\ Len(Change(t).parts) \in Nat
      BY <2>2
    <2>4. Change(t)' = Change(t) /\ binary' = binary /\ part[t] \in DOMAIN Change(t).parts
      BY <1>0, <1>7 DEF Run, Change
    <2>5. CASE part[t] < Len(Change(t).parts)
      <3>1. part'[t] = part[t] + 1 /\ pc'[t] = "extract"
        BY <1>7, <2>5 DEF Run
      <3> QED BY <2>3, <2>4, <2>5, <3>1
    <2>6. CASE ~(part[t] < Len(Change(t).parts))
      <3>1. part'[t] = part[t] /\ pc'[t] = "finish"
        BY <1>7, <2>6 DEF Run
      <3> QED BY <2>4, <3>1
    <2> QED BY <2>5, <2>6
  <1>8. CASE Hang(t) \/ Answer(t)
    BY <1>8 DEF Hang, Answer
  <1> QED BY <1>2, <1>3, <1>4, <1>5, <1>6, <1>7, <1>8 DEF Step

LEMMA BoundStep ==
    ASSUME WholeInv, Shape, BoundInv, NEW t \in Thread, Step(t)
    PROVE  BoundInv'
  <1>1. /\ UNCHANGED config /\ Alone(t)
        /\ rows'[t] \in {rows[t], work[t]}
        /\ save'[t] \in {save[t], work[t]}
        /\ \/ work'[t] \in {work[t], save[t], rows[t]}
           \/ /\ at[t] \in DOMAIN payload[t]
              /\ work'[t] = [work[t] EXCEPT ![Change(t).version] = 1 + at[t]]
        /\ writer' \in {writer, writer \ {t}, {t}, {}}
    BY StepWrites
  <1>2. Len(payload[t]) \in Nat /\ DOMAIN payload[t] = 1..Len(payload[t])
    BY PayloadAssumption DEF WholeInv, Types
  <1>3. Bounded(t)'
    <2> SUFFICES ASSUME NEW v \in Version
                 PROVE  /\ rows'[t][v] \in 0..(1 + Len(payload[t]))
                        /\ work'[t][v] \in 0..(1 + Len(payload[t]))
                        /\ save'[t][v] \in 0..(1 + Len(payload[t]))
      BY <1>1 DEF Bounded, config
    <2>1. /\ rows[t][v] \in 0..(1 + Len(payload[t]))
          /\ work[t][v] \in 0..(1 + Len(payload[t]))
          /\ save[t][v] \in 0..(1 + Len(payload[t]))
      BY DEF BoundInv, Bounded
    <2>2. rows'[t][v] \in {rows[t][v], work[t][v]} /\ save'[t][v] \in {save[t][v], work[t][v]}
      BY <1>1
    <2>3. \/ work'[t][v] \in {work[t][v], save[t][v], rows[t][v]}
          \/ at[t] \in DOMAIN payload[t] /\ work'[t][v] = 1 + at[t]
      BY <1>1 DEF WholeInv, Types
    <2> QED BY SMTT(30), <1>2, <2>1, <2>2, <2>3
  <1>4. \A u \in Thread \ {t} : Bounded(u)'
    BY <1>1 DEF Alone, config, BoundInv, Bounded
  <1>5. \A u \in Thread \ {t} : HasPart(u)'
    BY <1>1, StepIsOfOne DEF Only, config, BoundInv, HasPart, Change
  <1>6. /\ HasPart(t)'
        /\ (binary' = binary \/ (pc[t] \in Middle /\ binary' = Requested(t)))
    BY StepParts DEF BoundInv
  <1>7. binary' \in Terraform \cup {None}
    <2>1. CASE binary' = binary
      BY <2>1 DEF BoundInv
    <2>2. CASE pc[t] \in Middle /\ binary' = Requested(t)
      <3>1. at[t] \in DOMAIN payload[t] /\ part[t] \in DOMAIN Change(t).parts
        BY <2>2 DEF BoundInv, HasPart, WholeInv, Whole, WorkIsAhead
      <3>2. Change(t).parts \in Seq(Terraform)
        BY <3>1, ChangeHasParts
      <3>3. \A s \in Seq(Terraform) : \A n \in DOMAIN s : s[n] \in Terraform
        OBVIOUS
      <3> QED BY <2>2, <3>1, <3>2, <3>3 DEF Requested
    <2> QED BY <1>6, <2>1, <2>2
  <1>8. writer' = {} \/ \E u \in Thread : writer' = {u}
    BY <1>1 DEF BoundInv
  <1>9. prohibit' \in BOOLEAN
    BY <1>1 DEF BoundInv, config
  <1> QED BY <1>3, <1>4, <1>5, <1>6, <1>7, <1>8, <1>9 DEF BoundInv

LEMMA BoundInit == Init => BoundInv
  <1> SUFFICES ASSUME Init PROVE BoundInv
    OBVIOUS
  <1>1. ASSUME NEW t \in Thread PROVE Bounded(t) /\ HasPart(t)
    <2>1. Len(payload[t]) \in Nat
      BY PayloadAssumption DEF Init
    <2>2. \A v \in Version : before[v] \in {0, 1}
      BY DEF Init
    <2> QED BY <2>1, <2>2 DEF Init, Bounded, HasPart, Middle
  <1> QED BY <1>1, ProhibitAssumption DEF Init, BoundInv

LEMMA BoundInductive ==
    ASSUME WholeInv, Shape, BoundInv, [Next]_importVars
    PROVE  BoundInv'
  <1>1. CASE Next
    BY <1>1, BoundStep DEF Next
  <1>2. CASE UNCHANGED importVars
    BY <1>2 DEF importVars, BoundInv, Bounded, HasPart, Change
  <1> QED BY <1>1, <1>2

\* All of the inductive invariant, for specifications that have these steps.
ImportInv == LockInv /\ WholeInv /\ BoundInv

LEMMA ImportInit == Init => ImportInv
  BY LockInit, WholeInit, BoundInit DEF ImportInv

LEMMA ImportNext == ImportInv /\ [Next]_importVars => ImportInv'
  BY LockInductive, WholeInductive, BoundInductive DEF ImportInv, LockInv

LEMMA ImportTypes == ImportInv => TypeOK
  <1> SUFFICES ASSUME ImportInv PROVE TypeOK
    OBVIOUS
  <1>1. ASSUME NEW S \in SUBSET Thread, \A t, u \in S : t = u
        PROVE  Cardinality(S) <= 1
    <2>1. CASE S = {}
      BY <2>1, FS_EmptySet
    <2>2. CASE S # {}
      <3>1. PICK t \in S : S = {t}
        BY <1>1, <2>2
      <3> QED BY <3>1, FS_Singleton
    <2> QED BY <2>1, <2>2
  <1>2. Cardinality(writer) <= 1 /\ writer \subseteq Thread
    BY <1>1 DEF ImportInv, BoundInv
  <1>3. Cardinality(holder) <= 1 /\ holder \subseteq Thread
    BY <1>1 DEF ImportInv, LockInv, Exclusive
  <1>4. ASSUME NEW t \in Thread
        PROVE  /\ DOMAIN rows[t] = Version /\ DOMAIN work[t] = Version
               /\ \A v \in Version : work[t][v] \in 0..(1 + Len(payload[t]))
               /\ at[t] \in 1..(Len(payload[t]) + 1)
               /\ Len(outcome[t]) = at[t] - 1
    <2>1. Len(payload[t]) \in Nat
      BY PayloadAssumption DEF ImportInv, WholeInv, Types
    <2>2. Len(outcome[t]) \in Nat
      BY DEF ImportInv, WholeInv, Types
    <2>3. at[t] = Len(outcome[t]) + 1 /\ at[t] <= Len(payload[t]) + 1
      BY DEF ImportInv, WholeInv, Whole, Counted
    <2> QED BY <2>1, <2>2, <2>3 DEF ImportInv, WholeInv, Types, BoundInv, Bounded
  <1>5. pc \in [Thread -> {"next", "extract", "lock", "switch", "run", "finish"} \cup Ended]
    BY DEF ImportInv, WholeInv, Types, PC, Ended
  <1> QED BY <1>2, <1>3, <1>4, <1>5 DEF ImportInv, WholeInv, Types, BoundInv, TypeOK
=============================================================================
