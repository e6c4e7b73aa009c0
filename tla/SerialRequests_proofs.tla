------------------------ MODULE SerialRequests_proofs ------------------------
(***************************************************************************)
(* Proofs about SerialRequests, for every number of threads that take      *)
(* turns, every set of versions, row ids, downloads and contents, every    *)
(* choice of betas and every deployment.  SerialInv says of the request in *)
(* progress what its statements have made so far of the tables it found:   *)
(* so much must be known in the middle of a request for the tables it      *)
(* leaves to be those of one VersionIndex action.                          *)
(***************************************************************************)
EXTENDS SerialRequests, VersionRequests_proofs

-----------------------------------------------------------------------------
(* A request r found the tables S, and sees the tables V when it runs the  *)
(* statement named by the label next, in the deployment D.                 *)

Kept(S, v) == {x \in S.rows : x.version # v}

OldIds(S, v) == {x.id : x \in RowsFor(S, v)}

\* The downloads of version v go to the row new, or are forgotten.
Moved(S, v, new) ==
    [d \in Download |-> IF S.parentOf[d] \in OldIds(S, v) THEN new ELSE S.parentOf[d]]

Marked(S, v) == {IF x.version = v THEN [x EXCEPT !.published = TRUE] ELSE x : x \in S.rows}

\* The row that request r removes is still there, with whatever is left of its
\* extraction.
Stripped(S, V, r) ==
    /\ OldIds(S, r.v) = {r.row}
    /\ \E old \in RowsFor(S, r.v), c \in Content \cup {Nothing} :
          V.rows = Kept(S, r.v) \cup {[old EXCEPT !.content = c]}

\* What DeleteSubmodules and DeleteDetails of r leave of the rows R.
NoParts(R, r) == {IF x.id = r.row THEN [x EXCEPT !.content = Nothing] ELSE x : x \in R}

NoDetails(R, r) == {IF x.version = r.v /\ x.content = r.had
                    THEN [x EXCEPT !.content = Nothing] ELSE x : x \in R}

Removal == {"parts", "analytics", "erase", "audit", "files", "dropRow"}
Repoint == {"recalculate", "pk", "point"}
Rerank  == {"anyLatest", "isLatest", "pk", "point"}

Deletion(S, V, label, r) ==
    /\ label \in Removal \cup Repoint \cup {"commit"}
    /\ r.then = "commit"
    /\ OldIds(S, r.v) # {}
    /\ V.parentOf = IF label \in {"parts", "analytics"} THEN S.parentOf ELSE Moved(S, r.v, NoRow)
    /\ IF label \in Removal THEN Stripped(S, V, r) ELSE V.rows = Kept(S, r.v)

\* What an index request has found out about the version.
Found(D, S, r) ==
    /\ D.mode = "prohibit" => OldIds(S, r.v) = {}
    /\ r.publish <=> \/ D.auto
                     \/ D.mode = "auto-publish" /\ \E x \in RowsFor(S, r.v) : x.published

Replacement(D, S, V, label, r) ==
    /\ Found(D, S, r)
    /\ label \in (Removal \ {"analytics"}) \cup Repoint \cup {"insert"}
    /\ label # "insert" => r.then = "insert"
    /\ OldIds(S, r.v) = {r.old} \ {NoRow}
    /\ V.parentOf = S.parentOf
    /\ IF label \in Removal THEN Stripped(S, V, r) ELSE V.rows = Kept(S, r.v)

NewRow(label, r, new) ==
    [id |-> new, version |-> r.v,
     published |-> label \in Rerank \/ (label = "commit" /\ r.publish),
     content |-> IF label \in {"archive", "details"} THEN Nothing ELSE r.content]

Insertion(D, S, V, label, r) ==
    /\ Found(D, S, r)
    /\ label \in {"archive", "details", "submodules", "mark", "commit"} \cup Rerank
    /\ label \in {"mark"} \cup Rerank => r.publish
    /\ r.then = "commit"
    /\ \E new \in RowId :
          /\ \A x \in Kept(S, r.v) : x.id # new
          /\ V.parentOf = Moved(S, r.v, new)
          /\ V.rows = Kept(S, r.v) \cup {NewRow(label, r, new)}

Publication(S, V, label, r) ==
    /\ label \in {"mark", "commit"} \cup Rerank
    /\ r.then = "commit"
    /\ OldIds(S, r.v) # {}
    /\ V.parentOf = S.parentOf
    /\ V.rows = IF label = "mark" THEN S.rows ELSE Marked(S, r.v)

Recording(S, V, label, r) ==
    /\ label \in {"record", "commit"}
    /\ r.row \in Ids(S)
    /\ V.rows = S.rows
    /\ IF label = "record"
       THEN V.parentOf = S.parentOf
       ELSE \E d \in Download : /\ S.parentOf[d] = NoRow
                                /\ V.parentOf = [S.parentOf EXCEPT ![d] = r.row]

Stage(D, S, V, label, r) ==
    \/ r.kind \in {"delete", "hookDelete"} /\ Deletion(S, V, label, r)
    \/ r.kind = "index" /\ (Replacement(D, S, V, label, r) \/ Insertion(D, S, V, label, r))
    \/ r.kind = "publish" /\ Publication(S, V, label, r)
    \/ r.kind = "download" /\ Recording(S, V, label, r)

\* Where the pointer of V stands, if it was right when the request began.
Placed(V, label, r) ==
    CASE label \in Repoint -> TRUE
      [] label \in {"anyLatest", "isLatest"} ->
            Right(V) \/ (Top(V, r.v) /\ \E x \in Eligible(V) : x.version = r.v)
      [] OTHER -> Right(V)

\* What the request has read about the pointer's new place.
HasRead(V, label, r) ==
    /\ label = "isLatest" => Eligible(V) # {}
    /\ label = "pk" => Top(V, r.top) /\ \E x \in Eligible(V) : x.version = r.top
    /\ label = "point" => (Eligible(V) = {} /\ r.row = NoRow) \/ Target(V, r.row)

\* The tables between requests.
Distinct(T) == \A x, y \in T.rows : x.id = y.id \/ x.version = y.version => x = y

Owned(T) == \A d \in Download : T.parentOf[d] \in Ids(T) \cup {NoRow}

Clean == Distinct(settled) /\ Owned(settled) /\ (KillsOnlyTransactions => Right(settled))

Staged(t) ==
    /\ InTransaction(t) => db = settled
    /\ Stage(config, settled, View(t), pc[t], req[t])
    /\ KillsOnlyTransactions => Placed(View(t), pc[t], req[t])
    /\ HasRead(View(t), pc[t], req[t])

SerialInv ==
    /\ WholeInv
    /\ settled \in Tables /\ Clean
    /\ versionOf \in [RowId -> Version]
    /\ \A x \in settled.rows : versionOf[x.id] = x.version
    /\ Quiet => db = settled
    /\ \A t, u \in Thread : pc[t] # "idle" /\ pc[u] # "idle" => t = u
    /\ \A t \in Thread : /\ req[t].kind \in config.kinds \cup {"none"}
                         /\ pc[t] # "idle" => Staged(t)

-----------------------------------------------------------------------------
(* What a request leaves for the next one, at its end or when it dies.     *)

LEMMA KeptIds ==
    ASSUME NEW S \in Tables, Distinct(S), NEW v
    PROVE  /\ \A x \in S.rows : x.id \in OldIds(S, v) <=> x.version = v
           /\ Ids(S) \subseteq OldIds(S, v) \cup {x.id : x \in Kept(S, v)}
  BY DEF OldIds, RowsFor, Kept, Distinct, Ids

LEMMA OldRow ==
    ASSUME NEW S \in Tables, Distinct(S), NEW v, NEW old \in RowsFor(S, v)
    PROVE  /\ S.rows = Kept(S, v) \cup {old}
           /\ OldIds(S, v) = {old.id}
           /\ old.version = v /\ [old EXCEPT !.content = old.content] = old
           /\ \A x \in Kept(S, v) : x.id # old.id /\ x.version # v
           /\ \A c : SameShape(old, [old EXCEPT !.content = c])
  <1>1. old \in Row /\ \A x \in S.rows : x.version = v => x = old
    BY DEF RowsFor, Distinct, Tables
  <1>2. S.rows = Kept(S, v) \cup {old} /\ OldIds(S, v) = {old.id}
    BY <1>1 DEF Kept, OldIds, RowsFor
  <1>3. [old EXCEPT !.content = old.content] = old
        /\ \A c : SameShape(old, [old EXCEPT !.content = c])
    BY <1>1 DEF Row, SameShape
  <1> QED BY <1>1, <1>2, <1>3 DEF Kept, RowsFor, Distinct

\* The row that is removed, as it was found and as it is now.
LEMMA StrippedRow ==
    ASSUME NEW S \in Tables, Distinct(S), NEW r, NEW V, Stripped(S, V, r)
    PROVE  \E old \in RowsFor(S, r.v), lost \in Row :
              /\ S.rows = Kept(S, r.v) \cup {old} /\ V.rows = Kept(S, r.v) \cup {lost}
              /\ old.id = r.row /\ old.version = r.v /\ SameShape(old, lost)
              /\ \E c \in Content \cup {Nothing} : lost = [old EXCEPT !.content = c]
              /\ \A x \in Kept(S, r.v) : x.id # r.row /\ x.version # r.v
  <1>1. PICK old \in RowsFor(S, r.v), c \in Content \cup {Nothing} :
          V.rows = Kept(S, r.v) \cup {[old EXCEPT !.content = c]}
    BY DEF Stripped
  <1>2. SameShape(old, [old EXCEPT !.content = c]) /\ [old EXCEPT !.content = c] \in Row
    <2>1. old \in Row
      BY DEF Tables, RowsFor
    <2> QED BY <2>1, OldRow DEF Row
  <1>3. /\ S.rows = Kept(S, r.v) \cup {old} /\ old.version = r.v /\ old.id = r.row
        /\ \A x \in Kept(S, r.v) : x.id # r.row /\ x.version # r.v
    <2>1. OldIds(S, r.v) = {old.id} /\ OldIds(S, r.v) = {r.row}
      BY OldRow DEF Stripped
    <2> QED BY <2>1, OldRow
  <1> QED BY <1>1, <1>2, <1>3

LEMMA StrippedRows ==
    ASSUME NEW S \in Tables, Distinct(S), NEW r, NEW V, Stripped(S, V, r)
    PROVE  /\ \A x \in S.rows : \E y \in V.rows : SameShape(x, y)
           /\ \A y \in V.rows : \E x \in S.rows : SameShape(x, y)
           /\ Ids(V) = Ids(S)
           /\ Distinct(V)
  <1>1. PICK old \in RowsFor(S, r.v), lost \in Row :
          /\ S.rows = Kept(S, r.v) \cup {old} /\ V.rows = Kept(S, r.v) \cup {lost}
          /\ old.id = r.row /\ old.version = r.v /\ SameShape(old, lost)
          /\ \A x \in Kept(S, r.v) : x.id # r.row /\ x.version # r.v
    BY StrippedRow
  <1>2. /\ \A x \in S.rows : \E y \in V.rows : SameShape(x, y)
        /\ \A y \in V.rows : \E x \in S.rows : SameShape(x, y)
    BY <1>1 DEF SameShape
  <1>3. Ids(V) = Ids(S)
    BY <1>2 DEF Ids, SameShape
  <1>4. Distinct(V)
    BY <1>1 DEF Distinct, SameShape, Kept
  <1> QED BY <1>2, <1>3, <1>4

\* What the statements of a delete find, leave and remove of the row.
LEMMA StripsFirst ==
    ASSUME NEW S \in Tables, Distinct(S), NEW r, OldIds(S, r.v) = {r.row}
    PROVE  Stripped(S, S, r)
  <1>1. PICK old \in RowsFor(S, r.v) : old.content \in Content \cup {Nothing}
    BY DEF OldIds, Tables, RowsFor, Row
  <1>2. S.rows = Kept(S, r.v) \cup {old} /\ [old EXCEPT !.content = old.content] = old
    BY OldRow
  <1>3. S.rows = Kept(S, r.v) \cup {[old EXCEPT !.content = old.content]}
    BY <1>2
  <1> QED BY <1>1, <1>3 DEF Stripped

LEMMA StripsMore ==
    ASSUME NEW S \in Tables, Distinct(S), NEW r, NEW V, Stripped(S, V, r), NEW T,
           T.rows \in {NoParts(V.rows, r), NoDetails(V.rows, r)}
    PROVE  Stripped(S, T, r)
  <1>1. PICK old \in RowsFor(S, r.v), lost \in Row :
          /\ V.rows = Kept(S, r.v) \cup {lost}
          /\ old.id = r.row /\ old.version = r.v /\ SameShape(old, lost)
          /\ \E c \in Content \cup {Nothing} : lost = [old EXCEPT !.content = c]
          /\ \A x \in Kept(S, r.v) : x.id # r.row /\ x.version # r.v
    BY StrippedRow
  <1>2. lost.id = r.row /\ lost.version = r.v
    BY <1>1 DEF SameShape
  <1>3. [lost EXCEPT !.content = Nothing] = [old EXCEPT !.content = Nothing]
    BY <1>1 DEF Tables, Row, RowsFor
  <1>4. \/ T.rows = Kept(S, r.v) \cup {[lost EXCEPT !.content = Nothing]}
        \/ T.rows = Kept(S, r.v) \cup {lost}
    <2> DEFINE emptied == [lost EXCEPT !.content = Nothing]
               K == Kept(S, r.v)
    <2>1. NoParts(K \cup {lost}, r) = K \cup {emptied}
      BY <1>1, <1>2 DEF NoParts
    <2>2. NoDetails(K \cup {lost}, r) = K \cup {IF lost.content = r.had THEN emptied ELSE lost}
      BY <1>1, <1>2 DEF NoDetails
    <2> QED BY <1>1, <2>1, <2>2
  <1>5. \E d \in Content \cup {Nothing} : T.rows = Kept(S, r.v) \cup {[old EXCEPT !.content = d]}
    BY <1>1, <1>3, <1>4
  <1> QED BY <1>5 DEF Stripped

LEMMA StrippedIsDropped ==
    ASSUME NEW S \in Tables, Distinct(S), NEW r, NEW V, Stripped(S, V, r)
    PROVE  {x \in V.rows : x.id # r.row} = Kept(S, r.v)
  <1>1. PICK old \in RowsFor(S, r.v), lost \in Row :
          /\ V.rows = Kept(S, r.v) \cup {lost} /\ old.id = r.row /\ SameShape(old, lost)
          /\ \A x \in Kept(S, r.v) : x.id # r.row
    BY StrippedRow
  <1> QED BY <1>1 DEF SameShape

LEMMA DeletionIsClean ==
    ASSUME NEW S \in Tables, Distinct(S), Owned(S), NEW V \in Tables, NEW label, NEW r,
           Deletion(S, V, label, r)
    PROVE  Distinct(V) /\ Owned(V)
  <1>1. Stripped(S, V, r) \/ (V.rows = Kept(S, r.v) /\ V.parentOf = Moved(S, r.v, NoRow))
    BY DEF Deletion, Removal
  <1>2. Distinct(V)
    BY <1>1, StrippedRows DEF Distinct, Kept
  <1>3. \A d \in Download : V.parentOf[d] = NoRow \/ V.parentOf[d] = S.parentOf[d]
    BY DEF Deletion, Moved
  <1>4. CASE Stripped(S, V, r)
    BY <1>2, <1>3, <1>4, StrippedRows DEF Owned
  <1>5. CASE V.rows = Kept(S, r.v) /\ V.parentOf = Moved(S, r.v, NoRow)
    <2>1. ASSUME NEW d \in Download PROVE V.parentOf[d] \in Ids(V) \cup {NoRow}
      <3>1. CASE S.parentOf[d] \in OldIds(S, r.v)
        BY <1>5, <3>1 DEF Moved
      <3>2. CASE S.parentOf[d] \notin OldIds(S, r.v)
        <4>1. V.parentOf[d] = S.parentOf[d]
          BY <1>5, <3>2 DEF Moved
        <4> QED BY <1>5, <3>2, <4>1, KeptIds DEF Owned, Ids
      <3> QED BY <3>1, <3>2
    <2> QED BY <1>2, <2>1 DEF Owned
  <1> QED BY <1>1, <1>4, <1>5

LEMMA InsertionIsClean ==
    ASSUME NEW S \in Tables, Distinct(S), Owned(S), NEW V \in Tables, NEW D, NEW label, NEW r,
           Insertion(D, S, V, label, r)
    PROVE  Distinct(V) /\ Owned(V)
  <1>1. PICK new \in RowId :
          /\ \A x \in Kept(S, r.v) : x.id # new
          /\ V.parentOf = Moved(S, r.v, new)
          /\ V.rows = Kept(S, r.v) \cup {NewRow(label, r, new)}
    BY DEF Insertion
  <1>2. NewRow(label, r, new).id = new /\ NewRow(label, r, new).version = r.v
    BY DEF NewRow
  <1>3. Distinct(V)
    BY <1>1, <1>2 DEF Distinct, Kept
  <1>4. ASSUME NEW d \in Download PROVE V.parentOf[d] \in Ids(V) \cup {NoRow}
    <2>1. CASE S.parentOf[d] \in OldIds(S, r.v)
      BY <1>1, <1>2, <2>1 DEF Moved, Ids
    <2>2. CASE S.parentOf[d] \notin OldIds(S, r.v)
      <3>1. V.parentOf[d] = S.parentOf[d]
        BY <1>1, <2>2 DEF Moved
      <3> QED BY <1>1, <2>2, <3>1, KeptIds DEF Owned, Ids
    <2> QED BY <2>1, <2>2
  <1> QED BY <1>3, <1>4 DEF Owned

LEMMA PublicationIsClean ==
    ASSUME NEW S \in Tables, Distinct(S), Owned(S), NEW V \in Tables, NEW label, NEW r,
           Publication(S, V, label, r)
    PROVE  Distinct(V) /\ Owned(V)
  <1> DEFINE g(x) == IF x.version = r.v THEN [x EXCEPT !.published = TRUE] ELSE x
  <1>1. V.parentOf = S.parentOf /\ (V.rows = S.rows \/ V.rows = {g(x) : x \in S.rows})
    BY DEF Publication, Marked
  <1>2. CASE V.rows = S.rows
    BY <1>1, <1>2 DEF Distinct, Owned, Ids
  <1>3. CASE V.rows = {g(x) : x \in S.rows}
    <2>1. \A x \in S.rows : g(x).id = x.id /\ g(x).version = x.version
      BY DEF Tables, Row
    <2>2. \A x \in S.rows : g(x) \in V.rows
      BY <1>3
    <2>3. \A y \in V.rows : \E x \in S.rows : y = g(x)
      BY <1>3
    <2> HIDE DEF g
    <2>4. Distinct(V)
      BY <2>1, <2>3 DEF Distinct
    <2>5. Ids(S) \subseteq Ids(V)
      BY <2>1, <2>2 DEF Ids
    <2> QED BY <1>1, <2>4, <2>5 DEF Owned
  <1> QED BY <1>1, <1>2, <1>3

LEMMA RecordingIsClean ==
    ASSUME NEW S \in Tables, Distinct(S), Owned(S), NEW V \in Tables, NEW label, NEW r,
           Recording(S, V, label, r)
    PROVE  Distinct(V) /\ Owned(V)
  <1>1. V.rows = S.rows /\ r.row \in Ids(S)
    BY DEF Recording
  <1>2. \A d \in Download : V.parentOf[d] = S.parentOf[d] \/ V.parentOf[d] = r.row
    <2>1. CASE label = "record"
      BY <2>1 DEF Recording
    <2>2. CASE label # "record"
      <3>1. PICK e \in Download : V.parentOf = [S.parentOf EXCEPT ![e] = r.row]
        BY <2>2 DEF Recording
      <3> QED BY <3>1 DEF Tables
    <2> QED BY <2>1, <2>2
  <1> QED BY <1>1, <1>2 DEF Distinct, Owned, Ids

LEMMA StageIsClean ==
    ASSUME NEW S \in Tables, Distinct(S), Owned(S), NEW V \in Tables, NEW D, NEW label, NEW r,
           Stage(D, S, V, label, r), label = "commit" \/ r.kind # "index"
    PROVE  Distinct(V) /\ Owned(V)
  <1>1. ~Replacement(D, S, V, label, r) \/ r.kind # "index"
    BY DEF Replacement, Removal, Repoint
  <1> QED BY <1>1, DeletionIsClean, InsertionIsClean, PublicationIsClean, RecordingIsClean DEF Stage

LEMMA StageIsDistinct ==
    ASSUME NEW S \in Tables, Distinct(S), Owned(S), NEW V \in Tables, NEW D, NEW label, NEW r,
           Stage(D, S, V, label, r)
    PROVE  Distinct(V)
  <1>1. CASE Replacement(D, S, V, label, r)
    BY <1>1, StrippedRows DEF Replacement, Distinct, Kept
  <1> QED BY <1>1, DeletionIsClean, InsertionIsClean, PublicationIsClean, RecordingIsClean DEF Stage

-----------------------------------------------------------------------------
(* The threads: one serves a request, or none does.                        *)

LEMMA LockIsOurs ==
    ASSUME SerialInv, NEW t \in Thread, pc[t] # "idle"
    PROVE  /\ holder \in {NoThread, t} /\ (holder = t => InTransaction(t))
           /\ \A u \in Thread \ {t} : pc[u] = "idle"
           /\ View(t) \in Tables /\ settled \in Tables /\ req[t] \in Request
           /\ ~InTransaction(t) => View(t) = db
           /\ Staged(t)
  <1>1. WholeInv /\ \A u \in Thread : pc[u] # "idle" => u = t
    BY DEF SerialInv
  <1>2. \A u \in Thread : holder = u => pc[u] # "idle" /\ InTransaction(u)
    BY <1>1 DEF WholeInv, Serves
  <1>3. holder \in Thread \cup {NoThread} /\ req[t] \in Request
    BY <1>1 DEF WholeInv, TypeOK
  <1>4. View(t) \in Tables
    BY <1>1, ViewType DEF WholeInv, TypeOK, StoreType
  <1> QED BY <1>1, <1>2, <1>3, <1>4 DEF SerialInv, View

\* A statement after which the request goes on.
LEMMA GoesOn ==
    ASSUME SerialInv, WholeInv', UNCHANGED <<config, settled, versionOf>>,
           NEW t \in Thread, pc[t] # "idle",
           NEW label \in Labels \ {"idle"}, NEW r, Moves(t, label, r), r.kind = req[t].kind,
           NEW T, Write(t, T) \/ (NoWrite /\ T = View(t)),
           Stage(config, settled, T, label, r),
           KillsOnlyTransactions => Placed(T, label, r),
           HasRead(T, label, r)
    PROVE  SerialInv'
  <1>1. /\ pc'[t] = label /\ req'[t] = r
        /\ \A u \in Thread \ {t} : pc'[u] = pc[u] /\ req'[u] = req[u]
    BY MovesFrame DEF SerialInv, WholeInv
  <1>2. \A u \in Thread \ {t} : pc'[u] = "idle"
    BY <1>1, LockIsOurs
  <1>3. /\ holder \in {NoThread, t} /\ (holder = t => InTransaction(t))
        /\ InTransaction(t) => db = settled
        /\ ~InTransaction(t) => View(t) = db
    BY LockIsOurs DEF Staged
  <1>4. InTransaction(t)' <=> InTransaction(t)
    BY <1>1 DEF InTransaction
  <1>5. View(t)' = T /\ (InTransaction(t) => db' = db)
    <2>1. CASE Write(t, T) /\ InTransaction(t)
      BY <2>1 DEF Write, View
    <2>2. CASE Write(t, T) /\ ~InTransaction(t)
      BY <1>3, <2>2, RequestsAssumption DEF Write, View
    <2>3. CASE NoWrite /\ T = View(t)
      BY <2>3 DEF NoWrite, View
    <2> QED BY <2>1, <2>2, <2>3
  <1>6. KillsOnlyTransactions' <=> KillsOnlyTransactions
    BY DEF KillsOnlyTransactions
  <1>7. Staged(t)'
    BY <1>1, <1>3, <1>4, <1>5, <1>6 DEF Staged
  <1>8. Clean'
    BY <1>6 DEF SerialInv, Clean
  <1>9. \A u \in Thread : req'[u].kind \in config'.kinds \cup {"none"}
    BY <1>1 DEF SerialInv
  <1>10. ~Quiet'
    BY <1>1 DEF Quiet
  <1>11. settled' \in Tables /\ versionOf' \in [RowId -> Version]
         /\ \A x \in settled'.rows : versionOf'[x.id] = x.version
    BY DEF SerialInv
  <1>12. \A u, w \in Thread : pc'[u] # "idle" /\ pc'[w] # "idle" => u = w
    BY <1>2
  <1>13. \A u \in Thread : pc'[u] # "idle" => Staged(u)'
    BY <1>2, <1>7
  <1> QED BY <1>8, <1>9, <1>10, <1>11, <1>12, <1>13 DEF SerialInv

-----------------------------------------------------------------------------
(* ModuleVersion.delete                                                    *)

\* The pointer's place is a matter of the rows and the pointer.
LEMMA SameRows ==
    ASSUME NEW V, NEW T, T.rows = V.rows
    PROVE  /\ Eligible(T) = Eligible(V)
           /\ \A v : Top(T, v) <=> Top(V, v)
           /\ T.latest = V.latest => (Right(T) <=> Right(V))
  BY DEF Eligible, Top, Right, Target

\* Whatever a statement takes of the extraction, the pointer stays right.
LEMMA StripKeepsPointer ==
    ASSUME NEW V \in Tables, NEW T, T.latest = V.latest, NEW r,
           T.rows \in {NoParts(V.rows, r), NoDetails(V.rows, r)}
    PROVE  Right(V) => Right(T)
  <1>1. \A x \in V.rows : SameShape(x, [x EXCEPT !.content = Nothing]) /\ SameShape(x, x)
    BY DEF Tables, Row, SameShape
  <1>2. /\ \A x \in V.rows : \E y \in T.rows : SameShape(x, y)
        /\ \A y \in T.rows : \E x \in V.rows : SameShape(x, y)
    BY <1>1 DEF NoParts, NoDetails
  <1> QED BY <1>2, ContentIsApart

LEMMA RemovalStage ==
    ASSUME NEW D, NEW S, NEW V, NEW r, NEW label \in Removal \cup {"recalculate"},
           Stage(D, S, V, label, r)
    PROVE  \/ r.kind \in {"delete", "hookDelete"} /\ Deletion(S, V, label, r)
           \/ r.kind = "index" /\ Replacement(D, S, V, label, r)
  BY DEF Stage, Removal, Insertion, Publication, Recording, Rerank

LEMMA DeleteIsStaged ==
    ASSUME SerialInv, WholeInv', UNCHANGED <<config, settled, versionOf>>, NEW t \in Thread,
           \/ DeleteSubmodules(t) \/ DeleteAnalytics(t) \/ DeleteDetails(t)
           \/ CreateAuditEvent(t) \/ DeleteFiles(t) \/ DropRow(t) \/ Recalculate(t)
    PROVE  SerialInv'
  <1> DEFINE V == View(t)
             S == settled
  <1>1. /\ V \in Tables /\ req[t] \in Request /\ req \in [Thread -> Request] /\ pc[t] # "idle"
        /\ S \in Tables /\ Distinct(S)
    BY LockIsOurs DEF DeleteSubmodules, DeleteAnalytics, DeleteDetails, CreateAuditEvent,
                      DeleteFiles, DropRow, Recalculate, SerialInv, WholeInv, TypeOK, Clean
  <1>2. Stage(config, S, V, pc[t], req[t]) /\ (KillsOnlyTransactions => Placed(V, pc[t], req[t]))
    BY <1>1, LockIsOurs DEF Staged
  <1>3. \/ req[t].kind \in {"delete", "hookDelete"} /\ Deletion(S, V, pc[t], req[t])
        \/ req[t].kind = "index" /\ Replacement(config, S, V, pc[t], req[t])
    BY <1>2, RemovalStage DEF DeleteSubmodules, DeleteAnalytics, DeleteDetails, CreateAuditEvent,
                              DeleteFiles, DropRow, Recalculate, Removal
  <1>4. \A label : Goto(t, label) /\ UNCHANGED req => Moves(t, label, req[t])
    BY SameRequest DEF SerialInv, WholeInv
  <1>10. CASE DeleteSubmodules(t)
    <2> DEFINE R == NoParts(V.rows, req[t])
               T == [V EXCEPT !.rows = R]
    <2>1. PICK label \in {"erase", "analytics"} :
            /\ NoWrite \/ Write(t, T)
            /\ Moves(t, label, req[t]) /\ pc[t] = "parts"
            /\ label = IF req[t].then = "insert" THEN "erase" ELSE "analytics"
      BY <1>1, <1>4, <1>10 DEF DeleteSubmodules, Tables, NoParts
    <2>2. T.rows = R /\ T.parentOf = V.parentOf /\ T.latest = V.latest
      BY <1>1 DEF Tables
    <2> HIDE DEF T
    <2>3. Stripped(S, V, req[t]) /\ Stripped(S, T, req[t])
      <3>1. Stripped(S, V, req[t])
        BY <1>3, <2>1 DEF Deletion, Replacement, Removal
      <3> QED BY <1>1, <2>2, <3>1, StripsMore
    <2> HIDE DEF R
    <2>4. ASSUME NEW U, U.parentOf = V.parentOf, Stripped(S, U, req[t])
          PROVE  Stage(config, S, U, label, req[t])
      BY <1>3, <2>1, <2>4 DEF Stage, Deletion, Replacement, Removal
    <2>5. KillsOnlyTransactions => Placed(V, label, req[t])
      BY <1>2, <2>1 DEF Placed, Repoint
    <2>6. KillsOnlyTransactions => Placed(T, label, req[t])
      <3>1. Right(V) => Right(T)
        BY <1>1, <2>2, StripKeepsPointer DEF R
      <3> QED BY <1>2, <2>1, <3>1 DEF Placed, Repoint
    <2>7. CASE Write(t, T)
      BY <1>1, <2>1, <2>2, <2>3, <2>4, <2>6, <2>7, GoesOn DEF HasRead, Labels
    <2>8. CASE NoWrite
      BY <1>1, <2>1, <2>3, <2>4, <2>5, <2>8, GoesOn DEF HasRead, Labels
    <2> QED BY <2>1, <2>7, <2>8
  <1>5. CASE DeleteAnalytics(t)
    <2> DEFINE f == [d \in Download |-> IF V.parentOf[d] = req[t].row THEN NoRow ELSE V.parentOf[d]]
               T == [V EXCEPT !.parentOf = f]
    <2>1. Write(t, T) /\ Moves(t, "erase", req[t]) /\ pc[t] = "analytics"
      BY <1>1, <1>4, <1>5 DEF DeleteAnalytics, Tables
    <2>2. T.rows = V.rows /\ T.latest = V.latest /\ T.parentOf = f
      BY <1>1 DEF Tables
    <2>3. req[t].kind \in {"delete", "hookDelete"} /\ Deletion(S, V, "analytics", req[t])
      BY <1>3, <2>1 DEF Replacement, Repoint, Removal
    <2>4. f = Moved(S, req[t].v, NoRow)
      BY <2>3 DEF Deletion, Stripped, Moved, Removal
    <2> HIDE DEF T, f
    <2>5. Stage(config, S, T, "erase", req[t])
      BY <2>2, <2>3, <2>4 DEF Stage, Deletion, Stripped, Removal
    <2>6. KillsOnlyTransactions => Placed(T, "erase", req[t])
      BY <1>2, <2>1, <2>2, SameRows DEF Placed, Repoint
    <2> QED BY <1>1, <2>1, <2>5, <2>6, GoesOn DEF HasRead, Labels
  <1>11. CASE DeleteDetails(t)
    <2> DEFINE R == NoDetails(V.rows, req[t])
               T == [V EXCEPT !.rows = R]
               r == [req[t] EXCEPT !.had = Nothing]
    <2>1. /\ NoWrite \/ Write(t, T)
          /\ Goto(t, "audit") /\ req' = [req EXCEPT ![t] = r] /\ pc[t] = "erase"
      BY <1>1, <1>11 DEF DeleteDetails, Tables, NoDetails
    <2>2. T.rows = R /\ T.parentOf = V.parentOf /\ T.latest = V.latest
      BY <1>1 DEF Tables
    <2>3. /\ r.kind = req[t].kind /\ r.v = req[t].v /\ r.row = req[t].row /\ r.old = req[t].old
          /\ r.publish = req[t].publish /\ r.then = req[t].then
      BY <1>1 DEF Request
    <2> HIDE DEF T
    <2>4. Stripped(S, V, req[t]) /\ Stripped(S, T, req[t])
      <3>1. Stripped(S, V, req[t])
        BY <1>3, <2>1 DEF Deletion, Replacement, Removal
      <3> QED BY <1>1, <2>2, <3>1, StripsMore
    <2> HIDE DEF R, r
    <2>5. Moves(t, "audit", r)
      BY <2>1 DEF Moves, Goto
    <2>6. ASSUME NEW U, U.parentOf = V.parentOf, Stripped(S, U, req[t])
          PROVE  Stage(config, S, U, "audit", r)
      BY <1>3, <2>1, <2>3, <2>6 DEF Stage, Deletion, Replacement, Found, Stripped, Removal
    <2>7. KillsOnlyTransactions => Placed(V, "audit", r)
      BY <1>2, <2>1 DEF Placed, Repoint
    <2>8. KillsOnlyTransactions => Placed(T, "audit", r)
      <3>1. Right(V) => Right(T)
        BY <1>1, <2>2, StripKeepsPointer DEF R
      <3>2. KillsOnlyTransactions => Right(V)
        BY <1>2, <2>1 DEF Placed, Repoint
      <3> QED BY <3>1, <3>2 DEF Placed, Repoint
    <2>9. CASE Write(t, T)
      BY <1>1, <2>2, <2>3, <2>4, <2>5, <2>6, <2>8, <2>9, GoesOn DEF HasRead, Labels
    <2>10. CASE NoWrite
      BY <1>1, <2>3, <2>4, <2>5, <2>6, <2>7, <2>10, GoesOn DEF HasRead, Labels
    <2> QED BY <2>1, <2>9, <2>10
  <1>6. CASE CreateAuditEvent(t)
    <2>1. Write(t, V) /\ Moves(t, "files", req[t]) /\ pc[t] = "audit"
      BY <1>4, <1>6 DEF CreateAuditEvent
    <2>2. Stage(config, S, V, "files", req[t])
      BY <1>3, <2>1 DEF Stage, Deletion, Replacement, Removal
    <2>3. KillsOnlyTransactions => Placed(V, "files", req[t])
      BY <1>2, <2>1 DEF Placed, Repoint
    <2> QED BY <1>1, <2>1, <2>2, <2>3, GoesOn DEF HasRead, Labels
  <1>7. CASE DeleteFiles(t)
    <2>1. NoWrite /\ Moves(t, "dropRow", req[t]) /\ pc[t] = "files"
      BY <1>4, <1>7 DEF DeleteFiles
    <2>2. Stage(config, S, V, "dropRow", req[t])
      BY <1>3, <2>1 DEF Stage, Deletion, Replacement, Removal
    <2>3. KillsOnlyTransactions => Placed(V, "dropRow", req[t])
      BY <1>2, <2>1 DEF Placed, Repoint
    <2> QED BY <1>1, <2>1, <2>2, <2>3, GoesOn DEF HasRead, Labels
  <1>8. CASE DropRow(t)
    <2> DEFINE R == {x \in V.rows : x.id # req[t].row}
               T == [V EXCEPT !.rows = R]
    <2>1. Write(t, T) /\ Moves(t, "recalculate", req[t]) /\ pc[t] = "dropRow"
      BY <1>1, <1>4, <1>8 DEF DropRow, Tables
    <2>2. T.rows = R /\ T.parentOf = V.parentOf
      BY <1>1 DEF Tables
    <2>3. Stripped(S, V, req[t])
      BY <1>3, <2>1 DEF Deletion, Replacement, Removal
    <2>4. R = Kept(S, req[t].v)
      BY <1>1, <2>3, StrippedIsDropped
    <2> HIDE DEF T, R
    <2>5. Stage(config, S, T, "recalculate", req[t])
      BY <1>3, <2>1, <2>2, <2>4 DEF Stage, Deletion, Replacement, Removal, Repoint
    <2>6. Placed(T, "recalculate", req[t])
      BY DEF Placed, Repoint
    <2> QED BY <1>1, <2>1, <2>5, <2>6, GoesOn DEF HasRead, Labels
  <1>9. CASE Recalculate(t)
    <2> DEFINE r == [req[t] EXCEPT !.top = HighestVersion(V), !.row = NoRow]
    <2>1. req' = [req EXCEPT ![t] = r]
      BY <1>1, <1>9 DEF Recalculate
    <2>2. /\ r.kind = req[t].kind /\ r.v = req[t].v /\ r.then = req[t].then /\ r.old = req[t].old
          /\ r.publish = req[t].publish /\ r.row = NoRow /\ r.top = HighestVersion(V)
      BY <1>1 DEF Request
    <2> HIDE DEF r
    <2>3. PICK label \in {"point", "pk"} :
            /\ NoWrite /\ Moves(t, label, r) /\ pc[t] = "recalculate"
            /\ label = IF HighestVersion(V) = 0 THEN "point" ELSE "pk"
      BY <1>9, <2>1 DEF Recalculate, Moves, Goto
    <2>4. Stage(config, S, V, label, r)
      BY <1>3, <2>2, <2>3 DEF Stage, Deletion, Replacement, Found, Removal, Repoint
    <2>5. HasRead(V, label, r)
      BY <1>1, <2>2, <2>3, HighestIsEligible, HighestIsTop DEF HasRead
    <2>6. Placed(V, label, r)
      BY DEF Placed, Repoint
    <2> QED BY <1>1, <2>2, <2>3, <2>4, <2>5, <2>6, GoesOn DEF Labels
  <1> QED BY <1>5, <1>6, <1>7, <1>8, <1>9, <1>10, <1>11

-----------------------------------------------------------------------------
(* Indexing and extraction                                                 *)

LEMMA ExtractionStage ==
    ASSUME NEW D, NEW S, NEW V, NEW r, NEW label \in {"archive", "details", "submodules"},
           Stage(D, S, V, label, r)
    PROVE  /\ r.kind = "index" /\ Found(D, S, r) /\ r.then = "commit"
           /\ \E new \in RowId :
                 /\ \A x \in Kept(S, r.v) : x.id # new
                 /\ V.parentOf = Moved(S, r.v, new)
                 /\ V.rows = Kept(S, r.v) \cup {NewRow(label, r, new)}
  BY DEF Stage, Deletion, Replacement, Insertion, Publication, Recording, Removal, Repoint, Rerank

\* Two tables that differ in a row that neither has published.
LEMMA UnpublishedRow ==
    ASSUME NEW K, NEW V, NEW T, NEW x, NEW y, ~x.published, ~y.published,
           V.rows = K \/ V.rows = K \cup {x}, T.rows = K \cup {y}, T.latest = V.latest
    PROVE  Right(V) => Right(T)
  <1>1. Eligible(T) = Eligible(V)
    BY DEF Eligible
  <1> QED BY <1>1 DEF Right, Target, Top

LEMMA IndexIsStaged ==
    ASSUME SerialInv, WholeInv', UNCHANGED <<config, settled, versionOf>>, NEW t \in Thread,
           InsertRow(t) \/ GenerateArchive(t) \/ InsertDetails(t) \/ ScanSubmodules(t)
    PROVE  SerialInv'
  <1> DEFINE V == View(t)
             S == settled
             v == req[t].v
  <1>1. /\ V \in Tables /\ req[t] \in Request /\ req \in [Thread -> Request] /\ pc[t] # "idle"
        /\ S \in Tables /\ Distinct(S)
    BY LockIsOurs DEF InsertRow, GenerateArchive, InsertDetails, ScanSubmodules,
                      SerialInv, WholeInv, TypeOK, Clean
  <1>2. /\ Stage(config, S, V, pc[t], req[t])
        /\ KillsOnlyTransactions => Placed(V, pc[t], req[t])
    BY <1>1, LockIsOurs DEF Staged
  <1>3. pc[t] \in {"insert", "archive", "details", "submodules"} /\ (KillsOnlyTransactions => Right(V))
    BY <1>2 DEF InsertRow, GenerateArchive, InsertDetails, ScanSubmodules, Placed, Repoint
  <1>4. \A label : Goto(t, label) /\ UNCHANGED req => Moves(t, label, req[t])
    BY SameRequest DEF SerialInv, WholeInv
  <1>5. CASE InsertRow(t)
    <2> DEFINE r == [req[t] EXCEPT !.then = "commit"]
    <2>1. req' = [req EXCEPT ![t] = r] /\ pc[t] = "insert"
      BY <1>1, <1>5 DEF InsertRow
    <2>2. /\ r.kind = req[t].kind /\ r.v = v /\ r.publish = req[t].publish
          /\ r.content = req[t].content /\ r.then = "commit"
      BY <1>1 DEF Request
    <2> HIDE DEF r
    <2>3. Moves(t, "archive", r)
      BY <1>5, <2>1 DEF InsertRow, Moves, Goto
    <2>4. req[t].kind = "index" /\ Replacement(config, S, V, "insert", req[t])
      BY <1>2, <2>1
         DEF Stage, Deletion, Insertion, Publication, Recording, Removal, Repoint, Rerank
    <2>5. V.rows = Kept(S, v) /\ V.parentOf = S.parentOf /\ OldIds(S, v) = {req[t].old} \ {NoRow}
      BY <2>4 DEF Replacement, Removal
    <2>6. PICK new \in RowId \ Ids(V) :
            LET row == [id |-> new, version |-> v, published |-> FALSE, content |-> Nothing]
                U   == [V EXCEPT !.rows = @ \cup {row}]
            IN  \E x \in RowsFor(U, v) :
                   Write(t, [U EXCEPT !.parentOf =
                               [d \in Download |-> IF req[t].old # NoRow /\ @[d] = req[t].old
                                                   THEN x.id ELSE @[d]]])
      BY <1>5 DEF InsertRow
    <2> DEFINE row == [id |-> new, version |-> v, published |-> FALSE, content |-> Nothing]
               U   == [V EXCEPT !.rows = @ \cup {row}]
    <2>7. U.rows = V.rows \cup {row} /\ U.parentOf = V.parentOf /\ U.latest = V.latest
      BY <1>1 DEF Tables
    <2>8. row = NewRow("archive", r, new) /\ ~row.published /\ row.id = new
      BY <2>2 DEF NewRow, Rerank
    <2>9. \A x \in RowsFor(U, v) : x = row
      BY <2>5, <2>7 DEF RowsFor, Kept
    <2> DEFINE f == [d \in Download |-> IF req[t].old # NoRow /\ V.parentOf[d] = req[t].old
                                        THEN new ELSE V.parentOf[d]]
               T == [U EXCEPT !.parentOf = f]
    <2>10. Write(t, T)
      BY <2>6, <2>7, <2>8, <2>9
    <2>11. T.rows = V.rows \cup {row} /\ T.parentOf = f /\ T.latest = V.latest
      BY <1>1, <2>7 DEF Tables
    <2>12. f = Moved(S, v, new)
      BY <2>5 DEF Moved
    <2>13. \A x \in Kept(S, v) : x.id # new
      BY <2>5, <2>6 DEF Ids
    <2> HIDE DEF T, f, row
    <2>14. Found(config, S, r)
      BY <2>2, <2>4 DEF Replacement, Found
    <2>15. Insertion(config, S, T, "archive", r)
      BY <2>2, <2>5, <2>8, <2>11, <2>12, <2>13, <2>14 DEF Insertion, Rerank
    <2>16. KillsOnlyTransactions => Placed(T, "archive", r)
      BY <1>3, <2>8, <2>11, UnpublishedRow DEF Placed, Repoint
    <2> QED BY <1>1, <2>2, <2>3, <2>4, <2>10, <2>15, <2>16, GoesOn DEF Stage, HasRead, Labels
  <1>6. CASE GenerateArchive(t)
    <2>1. NoWrite /\ Moves(t, "details", req[t]) /\ pc[t] = "archive"
      BY <1>4, <1>6 DEF GenerateArchive
    <2>2. \A new : NewRow("details", req[t], new) = NewRow("archive", req[t], new)
      BY DEF NewRow, Rerank
    <2>3. Stage(config, S, V, "details", req[t])
      BY <1>2, <2>1, <2>2, ExtractionStage DEF Stage, Insertion, Rerank
    <2>4. KillsOnlyTransactions => Placed(V, "details", req[t])
      BY <1>3 DEF Placed, Repoint
    <2> QED BY <1>1, <2>1, <2>3, <2>4, GoesOn DEF HasRead, Labels
  <1>7. CASE InsertDetails(t)
    <2> DEFINE g(x) == IF x.version = v
                       THEN [x EXCEPT !.published = FALSE, !.content = req[t].content] ELSE x
               R == {g(x) : x \in V.rows}
               T == [V EXCEPT !.rows = R]
    <2>1. /\ Write(t, T) /\ Moves(t, "submodules", req[t]) /\ pc[t] = "details"
          /\ T.rows = R /\ T.parentOf = V.parentOf /\ T.latest = V.latest
      BY <1>1, <1>4, <1>7 DEF InsertDetails, Tables
    <2>2. PICK new \in RowId :
            /\ \A x \in Kept(S, v) : x.id # new
            /\ V.parentOf = Moved(S, v, new)
            /\ V.rows = Kept(S, v) \cup {NewRow("details", req[t], new)}
      <3>1. Stage(config, S, V, "details", req[t])
        BY <1>2, <2>1
      <3> HIDE DEF T, R, g
      <3> QED BY <3>1, ExtractionStage
    <2> DEFINE old == NewRow("details", req[t], new)
               row == NewRow("submodules", req[t], new)
    <2>3. g(old) = row /\ ~old.published /\ ~row.published
      BY DEF NewRow, Rerank
    <2>4. \A x \in Kept(S, v) : g(x) = x
      BY DEF Kept
    <2>5. R = Kept(S, v) \cup {row}
      <3>1. \A y \in R : \E x \in V.rows : y = g(x)
        OBVIOUS
      <3>2. \A x \in V.rows : g(x) \in R
        OBVIOUS
      <3> HIDE DEF g, R, old, row
      <3> QED BY <2>2, <2>3, <2>4, <3>1, <3>2 DEF old
    <2> HIDE DEF T, R, g
    <2>6. Insertion(config, S, T, "submodules", req[t])
      <3>1. Found(config, S, req[t]) /\ req[t].then = "commit"
        BY <1>2, <2>1, ExtractionStage
      <3> QED BY <2>1, <2>2, <2>5, <3>1 DEF Insertion, Rerank
    <2>7. KillsOnlyTransactions => Placed(T, "submodules", req[t])
      <3> HIDE DEF old, row
      <3>1. V.rows = Kept(S, v) \cup {old}
        BY <2>2 DEF old
      <3> QED BY <1>3, <2>1, <2>3, <2>5, <3>1, UnpublishedRow DEF Placed, Repoint
    <2>8. req[t].kind = "index"
      BY <1>2, <2>1, ExtractionStage
    <2> QED BY <1>1, <2>1, <2>6, <2>7, <2>8, GoesOn DEF Stage, HasRead, Labels
  <1>8. CASE ScanSubmodules(t)
    <2>1. PICK label \in {"mark", "commit"} :
            /\ NoWrite /\ Moves(t, label, req[t]) /\ pc[t] = "submodules"
            /\ label = IF req[t].publish THEN "mark" ELSE "commit"
      BY <1>4, <1>8 DEF ScanSubmodules
    <2>2. \A new : NewRow(label, req[t], new) = NewRow("submodules", req[t], new)
      BY <2>1 DEF NewRow, Rerank
    <2>3. Insertion(config, S, V, label, req[t]) /\ req[t].kind = "index"
      BY <1>2, <2>1, <2>2, ExtractionStage DEF Insertion, Rerank
    <2>4. KillsOnlyTransactions => Placed(V, label, req[t])
      BY <1>3 DEF Placed, Repoint
    <2> QED BY <1>1, <2>1, <2>3, <2>4, GoesOn DEF Stage, HasRead, Labels
  <1> QED BY <1>5, <1>6, <1>7, <1>8

-----------------------------------------------------------------------------
(* ModuleVersion.publish, the pointer, and downloads                       *)

\* Publishing version v leaves the pointer right, or v is what it must name.
LEMMA PublishMovesPointer ==
    ASSUME NEW V \in Tables, NEW T, NEW v \in Version, RowsFor(V, v) # {}, Right(V),
           T.rows = {IF x.version = v THEN [x EXCEPT !.published = TRUE] ELSE x : x \in V.rows},
           T.latest = V.latest
    PROVE  Right(T) \/ (Top(T, v) /\ \E x \in Eligible(T) : x.version = v)
  <1> DEFINE g(x) == IF x.version = v THEN [x EXCEPT !.published = TRUE] ELSE x
  <1>1. \A x \in V.rows : /\ g(x).id = x.id /\ g(x).version = x.version
                          /\ g(x).published <=> (x.published \/ x.version = v)
                          /\ g(x) \in T.rows
    BY DEF Tables, Row
  <1>2. \A y \in T.rows : \E x \in V.rows : y = g(x)
    OBVIOUS
  <1> HIDE DEF g
  <1>3. \A y \in Eligible(T) : y.version = v \/ \E x \in Eligible(V) : x.version = y.version
    <2> SUFFICES ASSUME NEW y \in Eligible(T), y.version # v
                 PROVE  \E x \in Eligible(V) : x.version = y.version
      OBVIOUS
    <2>1. y \in T.rows /\ y.published /\ y.version \notin Beta
      BY DEF Eligible
    <2>2. PICK x \in V.rows : y = g(x)
      BY <1>2, <2>1
    <2>3. x.version = y.version /\ x.published
      BY <1>1, <2>1, <2>2
    <2> QED BY <2>1, <2>3 DEF Eligible
  <1>4. \A x \in Eligible(V) : g(x) \in Eligible(T) /\ g(x).id = x.id /\ g(x).version = x.version
    BY <1>1 DEF Eligible
  <1>5. v \in Nat /\ \A x \in V.rows : x.version \in Nat
    BY RequestsAssumption DEF Tables, Row, Version
  <1>6. CASE v \in Beta
    <2>1. \A y \in Eligible(T) : \E x \in Eligible(V) : x.version = y.version
      BY <1>3, <1>6 DEF Eligible
    <2>2. CASE Eligible(V) = {} /\ V.latest = NoRow
      BY <2>1, <2>2 DEF Right
    <2>3. CASE Target(V, V.latest)
      <3>1. PICK x \in Eligible(V) : x.id = V.latest /\ Top(V, x.version)
        BY <2>3 DEF Target
      <3>2. Top(T, x.version)
        BY <2>1, <3>1 DEF Top
      <3> QED BY <1>4, <3>1, <3>2 DEF Right, Target
    <2> QED BY <2>2, <2>3 DEF Right
  <1>7. CASE v \notin Beta /\ Top(V, v)
    <2>1. PICK x \in V.rows : x.version = v
      BY DEF RowsFor
    <2>2. g(x) \in Eligible(T) /\ g(x).version = v
      BY <1>1, <1>7, <2>1 DEF Eligible
    <2>3. Top(T, v)
      BY <1>3, <1>5, <1>7 DEF Top
    <2> QED BY <2>2, <2>3
  <1>8. CASE ~Top(V, v)
    <2>1. PICK y \in Eligible(V) : ~(y.version <= v)
      BY <1>8 DEF Top
    <2>2. PICK z \in Eligible(V) : z.id = V.latest /\ Top(V, z.version)
      BY <2>1 DEF Right, Target
    <2>3. y.version <= z.version /\ y.version \in Nat /\ z.version \in Nat
      BY <1>5, <2>1, <2>2 DEF Top, Eligible
    <2>4. Top(T, z.version)
      BY <1>3, <1>5, <2>1, <2>2, <2>3 DEF Top
    <2> QED BY <1>4, <2>2, <2>4 DEF Right, Target
  <1> QED BY <1>6, <1>7, <1>8

\* A request that has changed in what it has read only.
Alike(q, r) ==
    /\ q.kind = r.kind /\ q.v = r.v /\ q.content = r.content
    /\ q.old = r.old /\ q.publish = r.publish /\ q.then = r.then

LEMMA RerankGoesOn ==
    ASSUME NEW D, NEW S, NEW V, NEW r, NEW q, Alike(q, r),
           NEW label \in Rerank, NEW next \in Rerank,
           label \in {"anyLatest", "isLatest"} \/ next \in Repoint,
           Stage(D, S, V, label, r)
    PROVE  Stage(D, S, V, next, q)
  <1>1. \A new : NewRow(next, q, new) = NewRow(label, r, new)
    BY DEF NewRow, Alike, Rerank
  <1>2. Found(D, S, r) => Found(D, S, q)
    BY DEF Found, Alike
  <1>3. CASE Insertion(D, S, V, label, r)
    <2>1. Insertion(D, S, V, next, q)
      BY <1>1, <1>2, <1>3 DEF Insertion, Alike, Rerank
    <2> QED BY <1>3, <2>1 DEF Stage, Alike, Deletion, Replacement, Publication, Recording, Rerank,
                               Removal, Repoint
  <1>4. CASE ~Insertion(D, S, V, label, r)
    BY <1>2, <1>4 DEF Stage, Alike, Deletion, Replacement, Publication, Recording, Rerank,
                       Removal, Repoint
  <1> QED BY <1>3, <1>4

LEMMA RerankEnds ==
    ASSUME NEW D, NEW S, NEW V, NEW r, NEW q, Alike(q, r), NEW label \in Rerank,
           Stage(D, S, V, label, r),
           label \in {"anyLatest", "isLatest"} \/ r.then = "commit"
    PROVE  Stage(D, S, V, "commit", q)
  <1>1. \A new : Insertion(D, S, V, label, r) => NewRow("commit", q, new) = NewRow(label, r, new)
    BY DEF NewRow, Alike, Rerank, Insertion
  <1>2. Found(D, S, r) => Found(D, S, q)
    BY DEF Found, Alike
  <1>3. CASE Insertion(D, S, V, label, r) /\ r.kind = "index"
    <2>1. Insertion(D, S, V, "commit", q)
      BY <1>1, <1>2, <1>3 DEF Insertion, Alike, Rerank
    <2> QED BY <1>3, <2>1 DEF Stage, Alike
  <1>4. CASE ~(Insertion(D, S, V, label, r) /\ r.kind = "index")
    BY <1>4 DEF Stage, Alike, Deletion, Replacement, Publication, Recording, Rerank,
                       Removal, Repoint
  <1> QED BY <1>3, <1>4

LEMMA MarkStage ==
    ASSUME NEW D, NEW S, NEW V \in Tables, NEW T, NEW r, Stage(D, S, V, "mark", r),
           T.rows = {IF x.version = r.v THEN [x EXCEPT !.published = TRUE] ELSE x : x \in V.rows},
           T.parentOf = V.parentOf
    PROVE  Stage(D, S, T, "anyLatest", r) /\ RowsFor(V, r.v) # {}
  <1> DEFINE g(x) == IF x.version = r.v THEN [x EXCEPT !.published = TRUE] ELSE x
  <1>1. \/ r.kind = "publish" /\ Publication(S, V, "mark", r)
        \/ r.kind = "index" /\ Insertion(D, S, V, "mark", r)
    BY DEF Stage, Deletion, Replacement, Recording, Removal, Repoint
  <1>2. CASE r.kind = "publish" /\ Publication(S, V, "mark", r)
    <2>1. Publication(S, T, "anyLatest", r)
      BY <1>2 DEF Publication, Marked, Rerank
    <2> QED BY <1>2, <2>1 DEF Stage, Publication, OldIds, RowsFor
  <1>3. CASE r.kind = "index" /\ Insertion(D, S, V, "mark", r)
    <2>1. PICK new \in RowId :
            /\ \A x \in Kept(S, r.v) : x.id # new
            /\ V.parentOf = Moved(S, r.v, new)
            /\ V.rows = Kept(S, r.v) \cup {NewRow("mark", r, new)}
      BY <1>3 DEF Insertion
    <2> DEFINE old == NewRow("mark", r, new)
               row == NewRow("anyLatest", r, new)
    <2>2. g(old) = row /\ old.version = r.v
      BY DEF NewRow, Rerank
    <2>3. \A x \in Kept(S, r.v) : g(x) = x
      BY DEF Kept
    <2>4. /\ \A y \in T.rows : \E x \in V.rows : y = g(x)
          /\ \A x \in V.rows : g(x) \in T.rows
      OBVIOUS
    <2>5. T.rows = Kept(S, r.v) \cup {row} /\ old \in V.rows
      <3> HIDE DEF g, old, row
      <3> QED BY <2>1, <2>2, <2>3, <2>4 DEF old
    <2>6. Insertion(D, S, T, "anyLatest", r)
      BY <1>3, <2>1, <2>5 DEF Insertion, Rerank
    <2> QED BY <1>3, <2>2, <2>5, <2>6 DEF Stage, RowsFor
  <1> QED BY <1>1, <1>2, <1>3

LEMMA PublishIsStaged ==
    ASSUME SerialInv, WholeInv', UNCHANGED <<config, settled, versionOf>>, NEW t \in Thread,
           \/ MarkPublished(t) \/ AnyLatest(t) \/ (IsLatest(t) /\ ~Abandon(t))
           \/ (ReadPk(t) /\ ~Abandon(t)) \/ PointLatest(t)
    PROVE  SerialInv'
  <1> DEFINE V == View(t)
             S == settled
             v == req[t].v
  <1>1. /\ V \in Tables /\ req[t] \in Request /\ req \in [Thread -> Request] /\ pc[t] # "idle"
        /\ S \in Tables /\ Distinct(S) /\ Owned(S) /\ v \in Version
    BY LockIsOurs DEF MarkPublished, AnyLatest, IsLatest, ReadPk, PointLatest,
                      SerialInv, WholeInv, TypeOK, Clean, Request
  <1>2. /\ Stage(config, S, V, pc[t], req[t]) /\ HasRead(V, pc[t], req[t])
        /\ KillsOnlyTransactions => Placed(V, pc[t], req[t])
    BY <1>1, LockIsOurs DEF Staged
  <1>3. \A label : Goto(t, label) /\ UNCHANGED req => Moves(t, label, req[t])
    BY SameRequest DEF SerialInv, WholeInv
  <1>4. Alike(req[t], req[t])
    BY DEF Alike
  <1>5. CASE MarkPublished(t)
    <2> DEFINE R == {IF x.version = v THEN [x EXCEPT !.published = TRUE] ELSE x : x \in V.rows}
               T == [V EXCEPT !.rows = R]
    <2>1. Write(t, T) /\ Moves(t, "anyLatest", req[t]) /\ pc[t] = "mark"
      BY <1>1, <1>3, <1>5 DEF MarkPublished, Tables
    <2>2. T.rows = R /\ T.parentOf = V.parentOf /\ T.latest = V.latest
      BY <1>1 DEF Tables
    <2>3. Stage(config, S, V, "mark", req[t])
      BY <1>2, <2>1
    <2> HIDE DEF T
    <2>4. Stage(config, S, T, "anyLatest", req[t]) /\ RowsFor(V, v) # {}
      BY <1>1, <2>2, <2>3, MarkStage
    <2>5. KillsOnlyTransactions => Placed(T, "anyLatest", req[t])
      <3>1. KillsOnlyTransactions => Right(V)
        BY <1>2, <2>1 DEF Placed, Repoint
      <3> QED BY <1>1, <2>2, <2>4, <3>1, PublishMovesPointer DEF Placed, Repoint
    <2> QED BY <1>1, <2>1, <2>4, <2>5, GoesOn DEF HasRead, Labels
  <1>6. CASE AnyLatest(t)
    <2>1. PICK label \in {"commit", "isLatest"} :
            /\ NoWrite /\ Moves(t, label, req[t]) /\ pc[t] = "anyLatest"
            /\ label = IF HighestVersion(V) = 0 THEN "commit" ELSE "isLatest"
      BY <1>3, <1>6 DEF AnyLatest
    <2>2. label = "commit" <=> Eligible(V) = {}
      BY <1>1, <2>1, HighestIsEligible
    <2>3. Stage(config, S, V, "anyLatest", req[t])
      BY <1>2, <2>1
    <2>4. Stage(config, S, V, label, req[t])
      BY <1>4, <2>3, RerankGoesOn, RerankEnds DEF Rerank
    <2>5. KillsOnlyTransactions => Placed(V, label, req[t])
      BY <1>2, <2>1, <2>2 DEF Placed, Repoint
    <2> QED BY <1>1, <2>1, <2>2, <2>4, <2>5, GoesOn DEF HasRead, Labels
  <1>7. CASE IsLatest(t) /\ ~Abandon(t)
    <2> DEFINE r == [req[t] EXCEPT !.top = HighestVersion(V)]
    <2>1. req' = [req EXCEPT ![t] = r]
      BY <1>1, <1>7 DEF IsLatest
    <2>2. Alike(r, req[t]) /\ r.top = HighestVersion(V)
      BY <1>1 DEF Request, Alike
    <2> HIDE DEF r
    <2>3. PICK label \in {"pk", "commit"} :
            /\ NoWrite /\ Moves(t, label, r) /\ pc[t] = "isLatest"
            /\ label = IF HighestVersion(V) = v THEN "pk" ELSE "commit"
      BY <1>7, <2>1 DEF IsLatest, Moves, Goto
    <2>4. Eligible(V) # {} /\ Top(V, r.top) /\ \E x \in Eligible(V) : x.version = r.top
      BY <1>1, <1>2, <2>2, <2>3, HighestIsTop DEF HasRead
    <2>5. Stage(config, S, V, "isLatest", req[t])
      BY <1>2, <2>3
    <2>6. Stage(config, S, V, label, r)
      BY <2>2, <2>5, RerankGoesOn, RerankEnds DEF Rerank, Repoint
    <2>7. KillsOnlyTransactions => Placed(V, label, r)
      <3>1. KillsOnlyTransactions =>
               Right(V) \/ (Top(V, v) /\ \E x \in Eligible(V) : x.version = v)
        BY <1>2, <2>3 DEF Placed, Repoint
      <3>2. (Top(V, v) /\ \E x \in Eligible(V) : x.version = v) => HighestVersion(V) = v
        BY <1>1, HighestIsTop
      <3> QED BY <2>3, <3>1, <3>2 DEF Placed, Repoint
    <2>8. r.kind = req[t].kind
      BY <2>2 DEF Alike
    <2> QED BY <1>1, <2>3, <2>4, <2>6, <2>7, <2>8, GoesOn DEF HasRead, Labels
  <1>8. CASE ReadPk(t) /\ ~Abandon(t)
    <2>1. PICK x \in RowsFor(V, req[t].top) :
            req' = [req EXCEPT ![t].row = x.id] /\ Goto(t, "point") /\ NoWrite /\ pc[t] = "pk"
      BY <1>8 DEF ReadPk
    <2> DEFINE r == [req[t] EXCEPT !.row = x.id]
    <2>2. req' = [req EXCEPT ![t] = r]
      BY <1>1, <2>1
    <2>3. Alike(r, req[t]) /\ r.row = x.id
      BY <1>1 DEF Request, Alike
    <2> HIDE DEF r
    <2>4. Moves(t, "point", r)
      BY <2>1, <2>2 DEF Moves, Goto
    <2>5. Stage(config, S, V, "pk", req[t])
      BY <1>2, <2>1
    <2>6. Stage(config, S, V, "point", r)
      BY <2>3, <2>5, RerankGoesOn DEF Rerank, Repoint
    <2>7. PICK y \in Eligible(V) : y.version = req[t].top /\ Top(V, req[t].top)
      BY <1>2, <2>1 DEF HasRead
    <2>8. HasRead(V, "point", r)
      <3>1. x = y
        BY <1>1, <2>1, <2>5, <2>7, StageIsDistinct DEF Distinct, RowsFor, Eligible
      <3> QED BY <2>3, <2>7, <3>1 DEF HasRead, Target
    <2>9. Placed(V, "point", r) /\ r.kind = req[t].kind
      BY <2>3 DEF Placed, Repoint, Alike
    <2> QED BY <1>1, <2>1, <2>4, <2>6, <2>8, <2>9, GoesOn DEF Labels
  <1>9. CASE PointLatest(t)
    <2> DEFINE T == [V EXCEPT !.latest = req[t].row]
    <2>1. /\ Write(t, T) /\ Moves(t, req[t].then, req[t]) /\ pc[t] = "point"
          /\ T.rows = V.rows /\ T.parentOf = V.parentOf /\ T.latest = req[t].row
      BY <1>1, <1>3, <1>9 DEF PointLatest, Tables
    <2> HIDE DEF T
    <2>2. Stage(config, S, V, "point", req[t])
      BY <1>2, <2>1
    <2>3. req[t].then \in {"insert", "commit"}
      BY <1>1 DEF Request
    <2>4. Stage(config, S, V, req[t].then, req[t])
      <3>1. CASE req[t].then = "commit"
        BY <1>4, <2>2, <3>1, RerankEnds DEF Rerank
      <3>2. CASE req[t].then = "insert"
        BY <2>2, <3>2 DEF Stage, Deletion, Replacement, Insertion, Publication, Recording,
                          Removal, Repoint
      <3> QED BY <2>3, <3>1, <3>2
    <2>5. Stage(config, S, T, req[t].then, req[t])
      BY <2>1, <2>4 DEF Stage, Deletion, Replacement, Insertion, Publication, Recording, Stripped
    <2>6. Right(T)
      BY <1>2, <2>1 DEF HasRead, Right, Target, Top, Eligible
    <2>7. Placed(T, req[t].then, req[t]) /\ HasRead(T, req[t].then, req[t])
      BY <2>3, <2>6 DEF Placed, Repoint, HasRead
    <2> QED BY <1>1, <2>1, <2>3, <2>5, <2>7, GoesOn DEF Labels
  <1> QED BY <1>5, <1>6, <1>7, <1>8, <1>9

LEMMA DownloadIsStaged ==
    ASSUME SerialInv, WholeInv', UNCHANGED <<config, settled, versionOf>>, NEW t \in Thread,
           NEW d \in Download, RecordDownload(t, d)
    PROVE  SerialInv'
  <1> DEFINE V == View(t)
             S == settled
             T == [V EXCEPT !.parentOf[d] = req[t].row]
  <1>1. /\ V \in Tables /\ pc[t] = "record" /\ pc[t] # "idle" /\ S \in Tables /\ Staged(t)
        /\ ~InTransaction(t) => V = db
    BY LockIsOurs DEF RecordDownload
  <1>2. req[t].kind = "download" /\ Recording(S, V, "record", req[t])
    BY <1>1 DEF Staged, Stage, Deletion, Replacement, Insertion, Publication, Removal, Repoint, Rerank
  <1>3. Write(t, T) /\ Moves(t, "commit", req[t]) /\ db.parentOf[d] = NoRow
    BY SameRequest DEF RecordDownload, SerialInv, WholeInv
  <1>4. /\ T.rows = V.rows /\ T.latest = V.latest
        /\ T.parentOf = [V.parentOf EXCEPT ![d] = req[t].row]
    BY <1>1 DEF Tables
  <1> HIDE DEF T
  <1>5. V = db
    BY <1>1, <1>2 DEF InTransaction
  <1>6. Stage(config, S, T, "commit", req[t])
    BY <1>2, <1>3, <1>4, <1>5 DEF Stage, Recording
  <1>7. KillsOnlyTransactions => Placed(T, "commit", req[t])
    BY <1>1, <1>4, SameRows DEF Staged, Placed, Repoint
  <1> QED BY <1>1, <1>3, <1>6, <1>7, GoesOn DEF HasRead, Labels

-----------------------------------------------------------------------------
(* The beginning and the end of a request                                  *)

LEMMA StartIsStaged ==
    ASSUME SerialInv, WholeInv', UNCHANGED <<config, settled, versionOf>>, Quiet,
           NEW t \in Thread, NEW r, NEW label \in {"parts", "insert", "mark", "record"},
           Start(t, r, label), Stage(config, db, db, label, r)
    PROVE  SerialInv'
  <1>1. Moves(t, label, r) /\ UNCHANGED <<db, holder, work>> /\ r.kind \in config.kinds
    BY DEF Start, Moves, Goto, NoWrite
  <1>2. /\ pc'[t] = label /\ req'[t] = r
        /\ \A u \in Thread \ {t} : pc'[u] = pc[u] /\ req'[u] = req[u]
    BY <1>1, MovesFrame DEF SerialInv, WholeInv
  <1>3. \A u \in Thread \ {t} : pc'[u] = "idle"
    BY <1>2 DEF Quiet
  <1>4. settled = db /\ holder # t
    BY DEF SerialInv, Quiet, WholeInv, Serves
  <1>5. View(t)' = settled'
    BY <1>1, <1>4 DEF View
  <1>6. KillsOnlyTransactions' <=> KillsOnlyTransactions
    BY DEF KillsOnlyTransactions
  <1>7. Clean'
    BY <1>6 DEF SerialInv, Clean
  <1>8. KillsOnlyTransactions => Placed(settled, label, r)
    BY DEF SerialInv, Clean, Placed, Repoint
  <1>9. Staged(t)'
    BY <1>1, <1>2, <1>4, <1>5, <1>6, <1>8 DEF Staged, HasRead
  <1>10. \A u \in Thread : req'[u].kind \in config'.kinds \cup {"none"}
    BY <1>1, <1>2 DEF SerialInv
  <1>11. ~Quiet'
    BY <1>2 DEF Quiet
  <1>12. settled' \in Tables /\ versionOf' \in [RowId -> Version]
         /\ \A x \in settled'.rows : versionOf'[x.id] = x.version
    BY DEF SerialInv
  <1>13. \A u, w \in Thread : pc'[u] # "idle" /\ pc'[w] # "idle" => u = w
    BY <1>3
  <1>14. \A u \in Thread : pc'[u] # "idle" => Staged(u)'
    BY <1>3, <1>9
  <1> QED BY <1>7, <1>10, <1>11, <1>12, <1>13, <1>14 DEF SerialInv

LEMMA ArriveIsStaged ==
    ASSUME SerialInv, WholeInv', UNCHANGED <<config, settled, versionOf>>, Quiet,
           NEW t \in Thread, Arrive(t)
    PROVE  SerialInv'
  <1>1. db \in Tables /\ Distinct(db) /\ NoRow \notin RowId
    BY RequestsAssumption DEF SerialInv, WholeInv, TypeOK, Clean
  <1>2. \A v : \A x \in RowsFor(db, v) :
          /\ x.id \in RowId /\ x.version = v /\ OldIds(db, v) = {x.id}
          /\ \A y \in RowsFor(db, v) : y = x
    BY <1>1 DEF RowsFor, OldIds, Distinct, Tables, Row
  <1>3. ASSUME NEW v \in Version, NEW c \in Content, StartIndex(t, v, c) PROVE SerialInv'
    <2> DEFINE r0 == [NoRequest EXCEPT !.kind = "index", !.v = v, !.content = c]
    <2>1. CASE RowsFor(db, v) = {} /\ Start(t, [r0 EXCEPT !.publish = config.auto], "insert")
      <3> DEFINE r == [r0 EXCEPT !.publish = config.auto]
      <3>1. r.kind = "index" /\ r.v = v /\ r.publish = config.auto /\ r.old = NoRow
        BY DEF NoRequest
      <3>2. Start(t, r, "insert")
        BY <2>1
      <3> HIDE DEF r
      <3>3. OldIds(db, v) = {} /\ Kept(db, v) = db.rows
        BY <2>1 DEF OldIds, Kept, RowsFor
      <3>4. Found(config, db, r)
        BY <2>1, <3>1, <3>3 DEF Found
      <3>5. Replacement(config, db, db, "insert", r)
        BY <3>1, <3>3, <3>4 DEF Replacement, Removal
      <3> QED BY <3>1, <3>2, <3>5, StartIsStaged DEF Stage
    <2>2. ASSUME config.mode # "prohibit", NEW x \in RowsFor(db, v),
                 Start(t, [r0 EXCEPT !.old = x.id, !.row = x.id, !.had = x.content,
                                     !.then = "insert",
                                     !.publish = \/ config.auto
                                                 \/ config.mode = "auto-publish" /\ x.published],
                       "parts")
          PROVE  SerialInv'
      <3> DEFINE publish == \/ config.auto
                            \/ config.mode = "auto-publish" /\ x.published
                 r == [r0 EXCEPT !.old = x.id, !.row = x.id, !.had = x.content,
                                 !.then = "insert", !.publish = publish]
      <3>1. /\ r.kind = "index" /\ r.v = v /\ r.publish = publish
            /\ r.old = x.id /\ r.row = x.id /\ r.then = "insert"
        <4> HIDE DEF publish
        <4> QED BY DEF NoRequest
      <3>2. Start(t, r, "parts")
        BY <2>2
      <3> HIDE DEF r
      <3>3. OldIds(db, v) = {x.id} /\ x.id # NoRow /\ \A y \in RowsFor(db, v) : y = x
        BY <1>1, <1>2
      <3>4. Found(config, db, r)
        BY <2>2, <3>1, <3>3 DEF Found
      <3>5. Stripped(db, db, r)
        BY <1>1, <3>1, <3>3, StripsFirst
      <3>6. Replacement(config, db, db, "parts", r)
        BY <3>1, <3>3, <3>4, <3>5 DEF Replacement, Removal
      <3> QED BY <3>1, <3>2, <3>6, StartIsStaged DEF Stage
    <2> QED BY <1>3, <2>1, <2>2 DEF StartIndex
  <1>4. ASSUME NEW v \in Version, StartPublish(t, v) PROVE SerialInv'
    <2> DEFINE r == [NoRequest EXCEPT !.kind = "publish", !.v = v]
    <2>1. r.kind = "publish" /\ r.v = v /\ r.then = "commit"
      BY DEF NoRequest
    <2>2. Start(t, r, "mark") /\ RowsFor(db, v) # {}
      BY <1>4 DEF StartPublish
    <2> HIDE DEF r
    <2>3. Publication(db, db, "mark", r)
      BY <2>1, <2>2 DEF Publication, OldIds
    <2> QED BY <2>1, <2>2, <2>3, StartIsStaged DEF Stage
  <1>5. ASSUME NEW v \in Version, NEW kind \in {"delete", "hookDelete"}, StartDelete(t, v, kind)
        PROVE  SerialInv'
    <2>1. PICK x \in RowsFor(db, v) :
            Start(t, [NoRequest EXCEPT !.kind = kind, !.v = v, !.row = x.id, !.had = x.content],
                  "parts")
      BY <1>5 DEF StartDelete
    <2> DEFINE r == [NoRequest EXCEPT !.kind = kind, !.v = v, !.row = x.id, !.had = x.content]
    <2>2. r.kind = kind /\ r.v = v /\ r.then = "commit" /\ r.row = x.id
      BY DEF NoRequest
    <2>3. Start(t, r, "parts")
      BY <2>1
    <2> HIDE DEF r
    <2>4. OldIds(db, v) = {x.id} /\ Stripped(db, db, r)
      BY <1>1, <1>2, <2>2, StripsFirst
    <2>5. Deletion(db, db, "parts", r)
      BY <2>2, <2>4 DEF Deletion, Removal
    <2> QED BY <2>2, <2>3, <2>5, StartIsStaged DEF Stage
  <1>6. ASSUME NEW v \in Version, StartDownload(t, v) PROVE SerialInv'
    <2>1. PICK x \in RowsFor(db, v) :
            Start(t, [NoRequest EXCEPT !.kind = "download", !.v = v, !.row = x.id], "record")
      BY <1>6 DEF StartDownload
    <2> DEFINE r == [NoRequest EXCEPT !.kind = "download", !.v = v, !.row = x.id]
    <2>2. r.kind = "download" /\ r.row = x.id
      BY DEF NoRequest
    <2>3. Start(t, r, "record")
      BY <2>1
    <2> HIDE DEF r
    <2>4. Recording(db, db, "record", r)
      BY <2>2 DEF Recording, Ids, RowsFor
    <2> QED BY <2>2, <2>3, <2>4, StartIsStaged DEF Stage
  <1> QED BY <1>3, <1>4, <1>5, <1>6 DEF Arrive

\* When no request is left in progress, its tables become those found next.
Settles ==
    /\ settled' = db'
    /\ versionOf' = [i \in RowId |-> IF \E x \in db'.rows : x.id = i
                                     THEN (CHOOSE x \in db'.rows : x.id = i).version
                                     ELSE versionOf[i]]

LEMMA EndIsClean ==
    ASSUME SerialInv, WholeInv', UNCHANGED config, Quiet', Settles,
           \A t \in Thread : req'[t] = req[t] \/ req'[t] = NoRequest,
           Distinct(db'), Owned(db'), KillsOnlyTransactions => Right(db')
    PROVE  SerialInv'
  <1>1. db' \in Tables
    BY DEF WholeInv, TypeOK
  <1>2. \A x \in db'.rows : x.id \in RowId /\ x.version \in Version
                            /\ (CHOOSE y \in db'.rows : y.id = x.id) = x
    BY <1>1 DEF Tables, Row, Distinct
  <1>3. \A x \in db'.rows : versionOf'[x.id] = x.version
    BY <1>2 DEF Settles
  <1>4. versionOf' \in [RowId -> Version]
    <2>1. \A i \in RowId : versionOf[i] \in Version
      BY DEF SerialInv
    <2>2. \A i \in RowId : (\E x \in db'.rows : x.id = i)
                              => (CHOOSE x \in db'.rows : x.id = i).version \in Version
      BY <1>2
    <2> QED BY <2>1, <2>2 DEF Settles
  <1>5. KillsOnlyTransactions' <=> KillsOnlyTransactions
    BY DEF KillsOnlyTransactions
  <1>6. Clean'
    BY <1>5 DEF Clean, Settles
  <1>7. \A t \in Thread : req'[t].kind \in config'.kinds \cup {"none"}
    BY DEF SerialInv, NoRequest
  <1>8. \A t \in Thread : pc'[t] = "idle"
    BY DEF Quiet
  <1>9. settled' = db'
    BY DEF Settles
  <1> QED BY <1>1, <1>3, <1>4, <1>6, <1>7, <1>8, <1>9 DEF SerialInv

\* What is committed at any time.
LEMMA CommittedIsClean ==
    ASSUME SerialInv
    PROVE  /\ Distinct(db) /\ Owned(db)
           /\ KillsOnlyTransactions /\ (config.kill \/ Quiet) => Right(db)
           /\ config.kinds \subseteq {"index", "hookDelete", "download"} => Right(db)
  <1>1. Distinct(settled) /\ Owned(settled) /\ (KillsOnlyTransactions => Right(settled))
    BY DEF SerialInv, Clean
  <1>2. config.kinds \subseteq {"index", "hookDelete", "download"} => KillsOnlyTransactions
    BY DEF KillsOnlyTransactions
  <1>3. CASE db = settled
    BY <1>1, <1>2, <1>3
  <1>4. CASE db # settled
    <2>1. PICK t \in Thread : pc[t] # "idle"
      BY <1>4 DEF SerialInv, Quiet
    <2>2. ~InTransaction(t) /\ View(t) = db /\ db \in Tables /\ settled \in Tables /\ Staged(t)
      BY <1>4, <2>1, LockIsOurs DEF Staged
    <2>3. Stage(config, settled, db, pc[t], req[t]) /\ req[t].kind # "index"
      BY <2>2 DEF Staged, InTransaction
    <2>4. Distinct(db) /\ Owned(db)
      BY <1>1, <2>2, <2>3, StageIsClean
    <2>5. ASSUME config.kinds \subseteq {"index", "hookDelete", "download"} PROVE Right(db)
      <3>1. req[t].kind = "download"
        BY <2>2, <2>3, <2>5 DEF SerialInv, InTransaction, Stage
      <3>2. Placed(db, pc[t], req[t]) /\ pc[t] \in {"record", "commit"}
        BY <1>2, <2>2, <2>3, <2>5, <3>1 DEF Staged, Stage, Recording
      <3> QED BY <3>2 DEF Placed, Repoint
    <2>6. KillsOnlyTransactions /\ config.kill
             => config.kinds \subseteq {"index", "hookDelete", "download"}
      BY DEF KillsOnlyTransactions
    <2>7. ~Quiet
      BY <2>1 DEF Quiet
    <2> QED BY <2>4, <2>5, <2>6, <2>7
  <1> QED BY <1>3, <1>4

\* The tables a request commits with its last statement.
LEMMA FinishLeaves ==
    ASSUME SerialInv, NEW t \in Thread, Finish(t)
    PROVE  /\ db' = View(t) /\ Quiet' /\ req' = [req EXCEPT ![t] = NoRequest]
           /\ Stage(config, settled, View(t), "commit", req[t])
           /\ KillsOnlyTransactions => Right(View(t))
           /\ Distinct(View(t)) /\ Owned(View(t))
  <1>1. pc[t] = "commit" /\ pc' = [pc EXCEPT ![t] = "idle"] /\ req' = [req EXCEPT ![t] = NoRequest]
    BY DEF Finish, Goto
  <1>2. \A u \in Thread \ {t} : pc[u] = "idle"
    BY <1>1, LockIsOurs
  <1>3. pc \in [Thread -> Labels]
    BY DEF SerialInv, WholeInv, TypeOK
  <1>4. Quiet'
    BY <1>1, <1>2, <1>3 DEF Quiet
  <1>5. db' = View(t)
    BY DEF Finish, NoWrite, View
  <1>6. View(t) \in Tables /\ settled \in Tables /\ Staged(t)
    BY <1>1, LockIsOurs
  <1>7. /\ Stage(config, settled, View(t), "commit", req[t])
        /\ KillsOnlyTransactions => Placed(View(t), "commit", req[t])
    BY <1>1, <1>6 DEF Staged
  <1>8. Distinct(View(t)) /\ Owned(View(t))
    BY <1>6, <1>7, StageIsClean DEF SerialInv, Clean
  <1> QED BY <1>1, <1>4, <1>5, <1>7, <1>8 DEF Placed, Repoint

\* A request that fails does so in a transaction, which it leaves no trace of.
LEMMA AbandonLeaves ==
    ASSUME SerialInv, NEW t \in Thread, Abandon(t),
           ExtractionFails(t) \/ IsLatest(t) \/ ReadPk(t) \/ LockTimeout(t)
    PROVE  db = settled /\ db' = db /\ req' = [req EXCEPT ![t] = NoRequest] /\ Quiet'
  <1>1. pc[t] # "idle" /\ pc' = [pc EXCEPT ![t] = "idle"] /\ UNCHANGED db
        /\ req' = [req EXCEPT ![t] = NoRequest]
    BY DEF ExtractionFails, IsLatest, ReadPk, LockTimeout, Abandon, Goto
  <1>2. /\ \A u \in Thread \ {t} : pc[u] = "idle"
        /\ holder \in {NoThread, t} /\ View(t) \in Tables /\ Staged(t)
    BY <1>1, LockIsOurs
  <1>3. pc \in [Thread -> Labels]
    BY DEF SerialInv, WholeInv, TypeOK
  <1>4. Quiet'
    BY <1>1, <1>2, <1>3 DEF Quiet
  <1>5. CASE ExtractionFails(t)
    <2>1. req[t].kind = "index"
      BY <1>2, <1>5, ExtractionStage DEF ExtractionFails, Staged
    <2> QED BY <1>1, <1>2, <1>4, <2>1 DEF Staged, InTransaction
  <1>6. ~(IsLatest(t) /\ Abandon(t))
    <2>1. ASSUME IsLatest(t), Abandon(t) PROVE FALSE
      <3>1. pc[t] = "isLatest"
        BY <2>1 DEF IsLatest
      <3>2. HighestVersion(View(t)) # 0
        BY <1>2, <3>1, HighestIsEligible DEF Staged, HasRead
      <3>3. Goto(t, IF HighestVersion(View(t)) = req[t].v THEN "pk" ELSE "commit")
        BY <2>1, <3>2 DEF IsLatest
      <3> QED BY <1>1, <1>3, <3>3 DEF Goto
    <2> QED BY <2>1
  <1>7. ~(ReadPk(t) /\ Abandon(t))
    <2>1. ASSUME ReadPk(t), Abandon(t) PROVE FALSE
      <3>1. pc[t] = "pk"
        BY <2>1 DEF ReadPk
      <3>2. RowsFor(View(t), req[t].top) # {}
        BY <1>2, <3>1 DEF Staged, HasRead, Eligible, RowsFor
      <3>3. Goto(t, "point")
        BY <2>1, <3>2 DEF ReadPk
      <3> QED BY <1>1, <1>3, <3>3 DEF Goto
    <2> QED BY <2>1
  <1>8. ~LockTimeout(t)
    BY <1>2 DEF LockTimeout
  <1> QED BY <1>1, <1>4, <1>5, <1>6, <1>7, <1>8

\* The other statements of a request leave it in progress.
Working(t) ==
    \/ DeleteSubmodules(t) \/ DeleteAnalytics(t) \/ DeleteDetails(t) \/ CreateAuditEvent(t)
    \/ DeleteFiles(t) \/ DropRow(t) \/ Recalculate(t)
    \/ InsertRow(t) \/ GenerateArchive(t) \/ InsertDetails(t) \/ ScanSubmodules(t)
    \/ MarkPublished(t) \/ AnyLatest(t) \/ (IsLatest(t) /\ ~Abandon(t))
    \/ (ReadPk(t) /\ ~Abandon(t)) \/ PointLatest(t)
    \/ \E d \in Download : RecordDownload(t, d)

LEMMA WorkingGoesOn ==
    ASSUME TypeOK, NEW t \in Thread, Working(t)
    PROVE  ~Quiet' /\ pc[t] # "idle"
  <1>1. req[t].then # "idle" /\ pc \in [Thread -> Labels]
    BY DEF TypeOK, Request
  <1>2. \E label \in Labels \ {"idle"} : Goto(t, label)
    BY <1>1 DEF Working, DeleteSubmodules, DeleteAnalytics, DeleteDetails,
                CreateAuditEvent, DeleteFiles, DropRow, Recalculate,
                InsertRow, GenerateArchive, InsertDetails, ScanSubmodules, MarkPublished, AnyLatest,
                IsLatest, ReadPk, PointLatest, RecordDownload, Labels, TypeOK, Request
  <1>3. pc'[t] # "idle"
    BY <1>1, <1>2 DEF Goto
  <1> QED BY <1>3 DEF Quiet, Working, DeleteSubmodules, DeleteAnalytics, DeleteDetails,
                      CreateAuditEvent, DeleteFiles, DropRow,
                      Recalculate, InsertRow, GenerateArchive, InsertDetails, ScanSubmodules,
                      MarkPublished, AnyLatest, IsLatest, ReadPk, PointLatest, RecordDownload

LEMMA StepSplits ==
    ASSUME NEW t \in Thread, Step(t)
    PROVE  /\ UNCHANGED config
           /\ \/ Working(t) \/ Finish(t)
              \/ Abandon(t) /\ (ExtractionFails(t) \/ IsLatest(t) \/ ReadPk(t) \/ LockTimeout(t))
  BY DEF Step, Working, ExtractionFails, LockTimeout

LEMMA SerialStep ==
    ASSUME SerialNext
    PROVE  IF Quiet' THEN Settles ELSE UNCHANGED <<settled, versionOf>>
  BY DEF SerialNext, Settles

LEMMA ArriveGoesOn ==
    ASSUME TypeOK, NEW t \in Thread, Arrive(t)
    PROVE  pc[t] = "idle" /\ pc'[t] # "idle" /\ ~Quiet'
  <1>1. ASSUME NEW r, NEW label, Start(t, r, label), label # "idle"
        PROVE  pc[t] = "idle" /\ pc'[t] # "idle" /\ ~Quiet'
    BY <1>1 DEF Start, Goto, TypeOK, Quiet
  <1>2. ASSUME NEW v \in Version, NEW c \in Content, StartIndex(t, v, c)
        PROVE  pc[t] = "idle" /\ pc'[t] # "idle" /\ ~Quiet'
    BY <1>1, <1>2 DEF StartIndex
  <1>3. ASSUME NEW v \in Version,
               \/ StartPublish(t, v) \/ StartDownload(t, v)
               \/ \E kind \in {"delete", "hookDelete"} : StartDelete(t, v, kind)
        PROVE  pc[t] = "idle" /\ pc'[t] # "idle" /\ ~Quiet'
    BY <1>1, <1>3 DEF StartPublish, StartDelete, StartDownload
  <1> QED BY <1>2, <1>3 DEF Arrive

LEMMA SerialInitHolds == SerialInit => SerialInv
  <1> SUFFICES ASSUME SerialInit PROVE SerialInv
    OBVIOUS
  <1>1. WholeInv
    BY WholeInit DEF SerialInit
  <1>2. db.rows = {} /\ settled = db /\ versionOf \in [RowId -> Version]
        /\ pc = [t \in Thread |-> "idle"] /\ req = [t \in Thread |-> NoRequest]
    BY DEF SerialInit, Init
  <1>3. db.latest = NoRow /\ db.parentOf = [d \in Download |-> NoRow]
    <2>1. PICK R \in SUBSET Version, P \in SUBSET Version, c \in Content :
            /\ P \subseteq R
            /\ db = [rows |-> {[id |-> i, version |-> i, published |-> i \in P, content |-> c] : i \in R},
                     latest |-> IF P \subseteq Beta THEN NoRow
                                ELSE CHOOSE i \in P \ Beta : \A j \in P \ Beta : j <= i,
                     parentOf |-> [d \in Download |-> NoRow]]
      <3>1. Init
        BY DEF SerialInit
      <3> QED BY <3>1 DEF Init
    <2>2. P = {}
      BY <1>2, <2>1
    <2> QED BY <2>1, <2>2
  <1>4. Clean
    BY <1>2, <1>3 DEF Clean, Distinct, Owned, Right, Eligible
  <1>5. \A t \in Thread : pc[t] = "idle" /\ req[t].kind = "none"
    BY <1>2 DEF NoRequest
  <1> QED BY <1>1, <1>2, <1>4, <1>5 DEF SerialInv, WholeInv, TypeOK

LEMMA SerialInvNext == SerialInv /\ [SerialNext]_SerialVars => SerialInv'
  <1> SUFFICES ASSUME SerialInv, [SerialNext]_SerialVars PROVE SerialInv'
    OBVIOUS
  <1>1. WholeInv /\ TypeOK /\ WholeInv'
    BY WholeNext DEF SerialInv, WholeInv, SerialNext, SerialVars
  <1>2. ASSUME NEW t \in Thread, Arrive(t), SerialNext PROVE SerialInv'
    <2>1. Quiet /\ UNCHANGED <<settled, versionOf>> /\ UNCHANGED config
      BY <1>1, <1>2, ArriveGoesOn, SerialStep DEF SerialNext, TakesTurns, Arrive
    <2> QED BY <1>1, <1>2, <2>1, ArriveIsStaged
  <1>3. ASSUME NEW t \in Thread, Step(t), SerialNext PROVE SerialInv'
    <2>1. UNCHANGED config
      BY <1>3, StepSplits
    <2>2. CASE Working(t)
      <3>1. UNCHANGED <<settled, versionOf>>
        BY <1>1, <1>3, <2>2, WorkingGoesOn, SerialStep
      <3> QED BY <1>1, <2>1, <2>2, <3>1, DeleteIsStaged, IndexIsStaged, PublishIsStaged,
                 DownloadIsStaged DEF Working
    <2>3. CASE Finish(t)
      <3>1. /\ db' = View(t) /\ Quiet' /\ req' = [req EXCEPT ![t] = NoRequest]
            /\ KillsOnlyTransactions => Right(View(t))
            /\ Distinct(View(t)) /\ Owned(View(t))
        BY <2>3, FinishLeaves
      <3>2. \A u \in Thread : req'[u] = req[u] \/ req'[u] = NoRequest
        BY <1>1, <3>1 DEF TypeOK
      <3> QED BY <1>1, <1>3, <2>1, <3>1, <3>2, EndIsClean, SerialStep
    <2>4. CASE Abandon(t) /\ (ExtractionFails(t) \/ IsLatest(t) \/ ReadPk(t) \/ LockTimeout(t))
      <3>1. db = settled /\ db' = db /\ req' = [req EXCEPT ![t] = NoRequest] /\ Quiet'
        BY <2>4, AbandonLeaves
      <3>2. \A u \in Thread : req'[u] = req[u] \/ req'[u] = NoRequest
        BY <1>1, <3>1 DEF TypeOK
      <3>3. Distinct(db') /\ Owned(db') /\ (KillsOnlyTransactions => Right(db'))
        BY <3>1 DEF SerialInv, Clean
      <3> QED BY <1>1, <1>3, <2>1, <3>1, <3>2, <3>3, EndIsClean, SerialStep
    <2> QED BY <1>3, <2>2, <2>3, <2>4, StepSplits
  <1>4. CASE Crash /\ SerialNext
    <2>1. /\ config.kill /\ UNCHANGED <<db, config>> /\ Quiet'
          /\ \A u \in Thread : req'[u] = NoRequest
      BY <1>4 DEF Crash, Quiet
    <2>2. Distinct(db') /\ Owned(db') /\ (KillsOnlyTransactions => Right(db'))
      BY <2>1, CommittedIsClean
    <2> QED BY <1>1, <1>4, <2>1, <2>2, EndIsClean, SerialStep
  <1>5. CASE UNCHANGED SerialVars
    BY <1>1, <1>5 DEF SerialVars, vars, SerialInv, Clean, Quiet, Staged, View, InTransaction,
                      KillsOnlyTransactions
  <1> QED BY <1>2, <1>3, <1>4, <1>5 DEF SerialNext, Next

LEMMA SerialInvariance == SerialSpec => []SerialInv
  <1> QED BY SerialInitHolds, SerialInvNext, PTL DEF SerialSpec

-----------------------------------------------------------------------------
(* What requests that take turns keep                                      *)

\* A version has one row, in the middle of requests too and whatever kills
\* them: indexing deletes the row it replaces and inserts the new one in one
\* transaction, and nothing else inserts.
THEOREM OneRowWhenAlone == SerialSpec => []OneRowPerVersion
  <1>1. SerialInv => OneRowPerVersion
    BY CommittedIsClean DEF Distinct, OneRowPerVersion
  <1> QED BY <1>1, SerialInvariance, PTL

\* Every recorded download has a row, in every deployment, although analytics
\* has no foreign key: a delete that dies half way has already forgotten the
\* downloads of the row it was about to drop.
THEOREM DownloadsHaveRowsWhenAlone == SerialSpec => []DownloadsHaveRows
  <1>1. SerialInv => DownloadsHaveRows
    BY CommittedIsClean DEF Owned, DownloadsHaveRows
  <1> QED BY <1>1, SerialInvariance, PTL

\* Where only transactions change the rows, what is committed always names the
\* right latest version: in every re-index mode, and with kills anywhere.
THEOREM LatestRightWhenAlone == SerialSpec => []TransactionsKeepLatestRight
  <1>1. SerialInv => TransactionsKeepLatestRight
    BY CommittedIsClean, RightIsRight
       DEF SerialInv, WholeInv, TypeOK, TransactionsKeepLatestRight
  <1> QED BY <1>1, SerialInvariance, PTL

\* The same of the requests that commit statement by statement, publish and
\* delete, once they have ended, if the server is not killed in one.
THEOREM LatestRightAfterRequests ==
    SerialSpec => [](KillsOnlyTransactions => LatestIsRightWhenQuiet)
  <1>1. SerialInv => (KillsOnlyTransactions => LatestIsRightWhenQuiet)
    BY CommittedIsClean, RightIsRight DEF SerialInv, WholeInv, TypeOK, LatestIsRightWhenQuiet
  <1> QED BY <1>1, SerialInvariance, PTL

-----------------------------------------------------------------------------
(* The archives, where no version is indexed again.                        *)

FirstUploads == config.kinds \subseteq {"index", "publish"} /\ config.mode = "prohibit"

ArchivesFit == \A x \in settled.rows : archive[x.version] = x.content

\* From "archive" on, the file store has what the request is extracting.
Archived(t) ==
    /\ req[t].kind = "index" /\ req[t].then = "commit"
    /\ pc[t] \in {"details", "submodules", "mark", "commit"} \cup Rerank
    => archive[req[t].v] = req[t].content

FirstInv == SerialInv /\ (FirstUploads => ArchivesFit /\ \A t \in Thread : Archived(t))

LEMMA FirstKinds ==
    ASSUME SerialInv, FirstUploads, NEW t \in Thread, pc[t] # "idle"
    PROVE  /\ Stage(config, settled, View(t), pc[t], req[t])
           /\ \/ req[t].kind = "publish" /\ Publication(settled, View(t), pc[t], req[t])
              \/ /\ req[t].kind = "index" /\ RowsFor(settled, req[t].v) = {}
                 /\ \/ Replacement(config, settled, View(t), pc[t], req[t])
                    \/ Insertion(config, settled, View(t), pc[t], req[t])
           /\ pc[t] \notin Removal
  <1>1. Stage(config, settled, View(t), pc[t], req[t])
    BY LockIsOurs DEF Staged
  <1>2. req[t].kind \in {"index", "publish", "none"}
    BY DEF SerialInv, FirstUploads
  <1>3. /\ Replacement(config, settled, View(t), pc[t], req[t]) => OldIds(settled, req[t].v) = {}
        /\ Insertion(config, settled, View(t), pc[t], req[t]) => OldIds(settled, req[t].v) = {}
    BY DEF FirstUploads, Replacement, Insertion, Found
  <1>4. OldIds(settled, req[t].v) = {} => RowsFor(settled, req[t].v) = {}
    BY DEF OldIds
  <1>5. \/ req[t].kind = "publish" /\ Publication(settled, View(t), pc[t], req[t])
        \/ /\ req[t].kind = "index"
           /\ \/ Replacement(config, settled, View(t), pc[t], req[t])
              \/ Insertion(config, settled, View(t), pc[t], req[t])
    BY <1>1, <1>2 DEF Stage
  <1>6. pc[t] \notin Removal
    <2>1. Stripped(settled, View(t), req[t]) => OldIds(settled, req[t].v) # {}
      BY DEF Stripped
    <2> QED BY <1>3, <1>5, <2>1 DEF Replacement, Insertion, Publication, Removal, Rerank
  <1> QED BY <1>1, <1>3, <1>4, <1>5, <1>6

LEMMA FirstWorking ==
    ASSUME FirstInv, FirstUploads, UNCHANGED <<config, settled>>, NEW t \in Thread, Working(t)
    PROVE  ArchivesFit' /\ Archived(t)'
  <1>1. SerialInv /\ WholeInv /\ TypeOK /\ ArchivesFit /\ Archived(t) /\ pc[t] # "idle"
    BY WorkingGoesOn DEF FirstInv, SerialInv, WholeInv
  <1>2. /\ pc \in [Thread -> Labels] /\ req \in [Thread -> Request]
        /\ archive \in [Version -> Content \cup {Nothing}]
        /\ settled.rows \subseteq Row /\ req[t].v \in Version
    BY <1>1 DEF TypeOK, SerialInv, Tables, Request
  <1>3. pc[t] \notin Removal
    BY <1>1, FirstKinds
  <1>4. \A x, y : LET r == [req[t] EXCEPT !.top = x, !.row = y]
                  IN  r.kind = req[t].kind /\ r.then = req[t].then
    BY <1>2 DEF Request
  <1>5. /\ \A x : LET r == [req[t] EXCEPT !.top = x]
                  IN  /\ r.kind = req[t].kind /\ r.then = req[t].then
                      /\ r.v = req[t].v /\ r.content = req[t].content
        /\ \A x : LET r == [req[t] EXCEPT !.row = x]
                  IN  /\ r.kind = req[t].kind /\ r.then = req[t].then
                      /\ r.v = req[t].v /\ r.content = req[t].content
    BY <1>2 DEF Request
  <1>6. CASE GenerateArchive(t)
    <2>1. archive' = [archive EXCEPT ![req[t].v] = req[t].content] /\ UNCHANGED req
          /\ pc[t] = "archive"
      BY <1>6 DEF GenerateArchive
    <2>2. req[t].kind = "index" /\ RowsFor(settled, req[t].v) = {}
      BY <1>1, <2>1, FirstKinds DEF Publication, Rerank
    <2>3. \A x \in settled.rows : x.version # req[t].v /\ x.version \in Version
      BY <1>2, <2>2 DEF RowsFor, Row
    <2> QED BY <1>1, <1>2, <2>1, <2>3 DEF ArchivesFit, Archived
  <1>7. CASE ~GenerateArchive(t)
    <2>1. UNCHANGED archive
      BY <1>3, <1>7 DEF Working, DeleteSubmodules, DeleteAnalytics, DeleteDetails,
                        CreateAuditEvent, DeleteFiles, DropRow, Recalculate,
                InsertRow, InsertDetails, ScanSubmodules, MarkPublished, AnyLatest,
                IsLatest, ReadPk, PointLatest, RecordDownload, Removal
    <2>2. ArchivesFit'
      BY <1>1, <2>1 DEF ArchivesFit
    <2>3. CASE Recalculate(t) \/ InsertRow(t)
      <3>1. pc[t] = "recalculate" /\ req[t].kind = "index" => req[t].then = "insert"
        BY <1>1, FirstKinds DEF Publication, Insertion, Replacement, Rerank
      <3>2. pc'[t] = "archive" \/ (req'[t].then = req[t].then /\ req'[t].kind = req[t].kind)
        <4>1. CASE Recalculate(t)
          <5>1. req'[t] = [req[t] EXCEPT !.top = HighestVersion(View(t)), !.row = NoRow]
            BY <1>2, <4>1 DEF Recalculate
          <5> QED BY <1>4, <5>1
        <4>2. CASE InsertRow(t)
          BY <1>2, <4>2 DEF InsertRow, Goto
        <4> QED BY <2>3, <4>1, <4>2
      <3>3. pc[t] = "recalculate" \/ pc'[t] = "archive"
        BY <1>2, <2>3 DEF Recalculate, InsertRow, Goto
      <3> QED BY <3>1, <3>2, <3>3, <2>2 DEF Archived, Rerank
    <2>4. CASE ~(Recalculate(t) \/ InsertRow(t))
      <3>1. /\ req'[t].kind = req[t].kind /\ req'[t].v = req[t].v /\ req'[t].then = req[t].then
            /\ req'[t].content = req[t].content
        <4>1. \/ UNCHANGED req
              \/ \E x : req' = [req EXCEPT ![t].top = x]
              \/ \E x : req' = [req EXCEPT ![t].row = x]
          BY <1>3, <1>7, <2>4
             DEF Working, DeleteSubmodules, DeleteAnalytics, DeleteDetails,
                 CreateAuditEvent, DeleteFiles, DropRow,
                 InsertDetails, ScanSubmodules, MarkPublished, AnyLatest,
                 IsLatest, ReadPk, PointLatest, RecordDownload, Removal
        <4>2. \/ req'[t] = req[t]
              \/ \E x : req'[t] = [req[t] EXCEPT !.top = x]
              \/ \E x : req'[t] = [req[t] EXCEPT !.row = x]
          BY <1>2, <4>1
        <4> QED BY ZenonT(60), <1>5, <4>2
      <3>2. pc[t] \in {"details", "submodules", "mark", "record"} \cup Rerank
        BY <1>3, <1>7, <2>4
           DEF Working, DeleteSubmodules, DeleteAnalytics, DeleteDetails,
               CreateAuditEvent, DeleteFiles, DropRow,
               InsertDetails, ScanSubmodules, MarkPublished, AnyLatest,
               IsLatest, ReadPk, PointLatest, RecordDownload, Removal, Rerank
      <3>3. pc[t] # "record"
        BY <1>1, FirstKinds DEF Publication, Insertion, Replacement, Rerank, Removal, Repoint
      <3> QED BY <1>1, <2>1, <2>2, <3>1, <3>2, <3>3 DEF Archived
    <2> QED BY <2>3, <2>4
  <1> QED BY <1>6, <1>7

LEMMA FirstCommitted ==
    ASSUME FirstInv, FirstUploads
    PROVE  \A x \in db.rows : archive[x.version] = x.content
  <1>1. CASE db = settled
    BY <1>1 DEF FirstInv, ArchivesFit
  <1>2. CASE db # settled
    <2>1. PICK t \in Thread : pc[t] # "idle"
      BY <1>2 DEF FirstInv, SerialInv, Quiet
    <2>2. ~InTransaction(t) /\ View(t) = db /\ settled \in Tables
      BY <1>2, <2>1, LockIsOurs DEF FirstInv, Staged
    <2>3. Publication(settled, db, pc[t], req[t])
      BY <2>1, <2>2, FirstKinds DEF FirstInv, InTransaction
    <2>4. ASSUME NEW x \in db.rows
          PROVE  \E y \in settled.rows : x.version = y.version /\ x.content = y.content
      <3> DEFINE g(y) == IF y.version = req[t].v THEN [y EXCEPT !.published = TRUE] ELSE y
      <3>1. \A y \in settled.rows : g(y).version = y.version /\ g(y).content = y.content
        BY <2>2 DEF Tables, Row
      <3>2. x \in settled.rows \/ \E y \in settled.rows : x = g(y)
        BY <2>3 DEF Publication, Marked
      <3> HIDE DEF g
      <3> QED BY <3>1, <3>2
    <2> QED BY <2>4 DEF FirstInv, ArchivesFit
  <1> QED BY <1>1, <1>2

LEMMA FirstFinish ==
    ASSUME FirstInv, FirstUploads, NEW t \in Thread, Finish(t)
    PROVE  \A x \in db'.rows : archive'[x.version] = x.content
  <1>1. pc[t] = "commit" /\ pc[t] # "idle" /\ UNCHANGED archive /\ db' = View(t) /\ SerialInv
    BY FinishLeaves DEF Finish, FirstInv
  <1>2. CASE req[t].kind # "index"
    <2>1. ~InTransaction(t)
      BY <1>1, <1>2, FirstKinds DEF InTransaction
    <2>2. View(t) = db
      BY <1>1, <2>1, LockIsOurs
    <2> QED BY <1>1, <2>2, FirstCommitted
  <1>3. CASE req[t].kind = "index"
    <2>1. Insertion(config, settled, View(t), "commit", req[t])
      BY <1>1, <1>3, FirstKinds DEF Replacement, Removal, Repoint
    <2>2. archive[req[t].v] = req[t].content
      BY <1>1, <1>3, <2>1 DEF FirstInv, Archived, Insertion
    <2>3. \A x \in View(t).rows : \/ x \in settled.rows
                                  \/ x.version = req[t].v /\ x.content = req[t].content
      BY <2>1 DEF Insertion, Kept, NewRow
    <2> QED BY <1>1, <2>2, <2>3 DEF FirstInv, ArchivesFit
  <1> QED BY <1>2, <1>3

LEMMA FirstNext == FirstInv /\ [SerialNext]_SerialVars => FirstInv'
  <1> SUFFICES ASSUME FirstInv, [SerialNext]_SerialVars PROVE FirstInv'
    OBVIOUS
  <1>1. SerialInv /\ TypeOK /\ SerialInv'
    BY SerialInvNext DEF FirstInv, SerialInv, WholeInv
  <1>2. UNCHANGED config
    BY DEF SerialNext, SerialVars, vars, Next, Arrive, Step, Crash
  <1>3. FirstUploads' <=> FirstUploads
    BY <1>2 DEF FirstUploads
  <1> SUFFICES ASSUME FirstUploads PROVE ArchivesFit' /\ \A t \in Thread : Archived(t)'
    BY <1>1, <1>3 DEF FirstInv
  <1>4. /\ pc \in [Thread -> Labels] /\ req \in [Thread -> Request]
        /\ \A t \in Thread : Archived(t)
    BY <1>1 DEF TypeOK, FirstInv
  <1>5. ASSUME SerialNext, Quiet', \A t \in Thread : req'[t] = req[t] \/ req'[t] = NoRequest,
               \A x \in db'.rows : archive'[x.version] = x.content
        PROVE  ArchivesFit' /\ \A t \in Thread : Archived(t)'
    BY <1>5, SerialStep DEF Settles, ArchivesFit, Archived, Quiet, Rerank
  <1>6. ASSUME NEW t \in Thread, Arrive(t), SerialNext
        PROVE  ArchivesFit' /\ \A u \in Thread : Archived(u)'
    <2>1. Quiet /\ UNCHANGED <<settled, versionOf, archive>>
      BY <1>1, <1>6, ArriveGoesOn, SerialStep
         DEF SerialNext, TakesTurns, Arrive, StartIndex, StartPublish, StartDelete, StartDownload, Start
    <2>2. Archived(t)'
      <3>1. ASSUME NEW r, NEW label \in {"insert", "parts", "record"}, Start(t, r, label)
            PROVE  Archived(t)'
        BY <1>4, <3>1 DEF Start, Goto, Archived, Rerank
      <3>2. ASSUME NEW v \in Version, NEW c \in Content, StartIndex(t, v, c) PROVE Archived(t)'
        BY <3>1, <3>2 DEF StartIndex
      <3>3. ASSUME NEW v \in Version, StartPublish(t, v) PROVE Archived(t)'
        <4> DEFINE r == [NoRequest EXCEPT !.kind = "publish", !.v = v]
        <4>1. r.kind = "publish" /\ req' = [req EXCEPT ![t] = r]
          BY <3>3 DEF StartPublish, Start, NoRequest
        <4> HIDE DEF r
        <4> QED BY <1>4, <4>1 DEF Archived
      <3>4. ASSUME NEW v \in Version,
                   \/ StartDownload(t, v)
                   \/ \E kind \in {"delete", "hookDelete"} : StartDelete(t, v, kind)
            PROVE  Archived(t)'
        BY <3>1, <3>4 DEF StartDelete, StartDownload
      <3> QED BY <1>6, <3>2, <3>3, <3>4 DEF Arrive
    <2>3. \A u \in Thread \ {t} : pc'[u] = "idle"
      <3>1. ASSUME NEW r, NEW label, Start(t, r, label)
            PROVE  \A u \in Thread \ {t} : pc'[u] = "idle"
        BY <1>4, <2>1, <3>1 DEF Start, Goto, Quiet
      <3> QED BY <1>6, <3>1 DEF Arrive, StartIndex, StartPublish, StartDelete, StartDownload
    <2> QED BY <2>1, <2>2, <2>3 DEF FirstInv, ArchivesFit, Archived, Rerank
  <1>7. ASSUME NEW t \in Thread, Step(t), SerialNext
        PROVE  ArchivesFit' /\ \A u \in Thread : Archived(u)'
    <2>1. CASE Working(t)
      <3>1. UNCHANGED <<config, settled>> /\ pc[t] # "idle"
        BY <1>1, <1>2, <1>7, <2>1, WorkingGoesOn, SerialStep
      <3>2. ArchivesFit' /\ Archived(t)'
        BY <2>1, <3>1, FirstWorking
      <3>3. \A u \in Thread \ {t} : pc[u] = "idle"
        BY <1>1, <3>1, LockIsOurs
      <3>4. \A u \in Thread \ {t} : pc'[u] = pc[u]
        BY <1>4, <2>1
           DEF Working, DeleteSubmodules, DeleteAnalytics, DeleteDetails,
               CreateAuditEvent, DeleteFiles, DropRow, Recalculate,
               InsertRow, GenerateArchive, InsertDetails, ScanSubmodules, MarkPublished, AnyLatest,
               IsLatest, ReadPk, PointLatest, RecordDownload, Goto
      <3> QED BY <3>2, <3>3, <3>4 DEF Archived, Rerank
    <2>2. CASE Finish(t)
      <3>1. Quiet' /\ req' = [req EXCEPT ![t] = NoRequest]
        BY <1>1, <2>2, FinishLeaves
      <3>2. \A u \in Thread : req'[u] = req[u] \/ req'[u] = NoRequest
        BY <1>4, <3>1
      <3> QED BY <1>5, <1>7, <2>2, <3>1, <3>2, FirstFinish
    <2>3. CASE Abandon(t) /\ (ExtractionFails(t) \/ IsLatest(t) \/ ReadPk(t) \/ LockTimeout(t))
      <3>1. Quiet' /\ req' = [req EXCEPT ![t] = NoRequest] /\ UNCHANGED <<db, archive>>
        BY <1>1, <2>3, AbandonLeaves DEF Abandon
      <3>2. \A u \in Thread : req'[u] = req[u] \/ req'[u] = NoRequest
        BY <1>4, <3>1
      <3> QED BY <1>5, <1>7, <3>1, <3>2, FirstCommitted
    <2> QED BY <1>7, <2>1, <2>2, <2>3, StepSplits
  <1>8. CASE Crash /\ SerialNext
    <2>1. Quiet' /\ UNCHANGED <<db, archive>> /\ \A u \in Thread : req'[u] = NoRequest
      BY <1>8 DEF Crash, Quiet
    <2> QED BY <1>5, <1>8, <2>1, FirstCommitted
  <1>9. CASE UNCHANGED SerialVars
    BY <1>9 DEF SerialVars, vars, FirstInv, ArchivesFit, Archived
  <1> QED BY <1>6, <1>7, <1>8, <1>9 DEF SerialNext, Next

\* Where re-indexing is prohibited and nothing is deleted, the archive of each
\* version is the one its row was extracted from, whatever fails or is killed
\* on the way: an upload that dies leaves files without a row, and the next
\* one of that version writes them again before it commits its row.
THEOREM FirstArchivesMatchWhenAlone == SerialSpec => []FirstArchivesMatch
  <1>1. SerialInit => FirstInv
    BY SerialInitHolds DEF SerialInit, FirstInv, ArchivesFit, Archived, Init, Rerank
  <1>2. FirstInv => FirstArchivesMatch
    BY DEF FirstInv, SerialInv, FirstUploads, ArchivesFit, FirstArchivesMatch, ArchivesMatch
  <1> QED BY <1>1, <1>2, FirstNext, PTL DEF SerialSpec

-----------------------------------------------------------------------------
(* The tables that a request leaves are those of one VersionIndex action.  *)

PublishedIds(T) == {x.id : x \in {y \in T.rows : y.published}}

\* V tells the versions of the rows of T, and P those that are published.
Reads(T, V, P) ==
    /\ V \in [RowId -> Version]
    /\ \A x \in T.rows : V[x.id] = x.version /\ (x.id \in P <=> x.published)

LEMMA RowIds ==
    ASSUME NEW T \in Tables, Distinct(T)
    PROVE  /\ \A x \in T.rows : x.id \in PublishedIds(T) <=> x.published
           /\ PublishedIds(T) \subseteq Ids(T) /\ Ids(T) \subseteq RowId
           /\ \A i \in Ids(T) : \E x \in T.rows : x.id = i
           /\ \A x \in T.rows : x.id \in Ids(T)
  BY DEF PublishedIds, Ids, Distinct, Tables, Row

\* A right pointer is the one that is calculated: no two rows tie.
LEMMA RightIsCalculated ==
    ASSUME NEW T \in Tables, Distinct(T), Right(T), NEW V, NEW P, Reads(T, V, P)
    PROVE  T.latest = Index!CalculateLatest(Ids(T), V, P)
  <1> DEFINE E == Index!Eligible(Ids(T), V, P)
  <1>1. /\ \A i \in E : \E x \in Eligible(T) : x.id = i /\ x.version = V[i]
        /\ \A x \in Eligible(T) : x.id \in E /\ V[x.id] = x.version
    BY DEF Index!Eligible, Eligible, Ids, Reads
  <1>2. CASE Eligible(T) = {}
    <2>1. E = {} /\ T.latest = NoRow
      BY <1>1, <1>2 DEF Right, Target
    <2> QED BY <2>1 DEF Index!CalculateLatest
  <1>3. CASE Eligible(T) # {}
    <2>1. PICK x \in Eligible(T) : x.id = T.latest /\ Top(T, x.version)
      BY <1>3 DEF Right, Target
    <2>2. x.id \in E /\ \A j \in E : V[j] <= V[x.id]
      BY <1>1, <2>1 DEF Top
    <2>3. ASSUME NEW i \in E, \A j \in E : V[j] <= V[i] PROVE i = x.id
      <3>1. PICK y \in Eligible(T) : y.id = i /\ y.version = V[i]
        BY <1>1
      <3>2. x.version <= y.version /\ y.version <= x.version
        BY <1>1, <2>1, <2>3, <3>1 DEF Top
      <3>3. x.version \in Nat /\ y.version \in Nat
        BY RequestsAssumption DEF Eligible, Tables, Row, Version
      <3> QED BY <3>1, <3>2, <3>3 DEF Distinct, Eligible
    <2>4. Index!CalculateLatest(Ids(T), V, P)
            = CHOOSE i \in E : \A j \in E : V[j] <= V[i]
      BY <2>2 DEF Index!CalculateLatest
    <2> HIDE DEF E
    <2> QED BY <2>1, <2>2, <2>3, <2>4
  <1> QED BY <1>2, <1>3

\* What the tables T that a request commits make of settled and versionOf.
LEMMA SettledReads ==
    ASSUME SerialInv, Settles, db' \in Tables, Distinct(db')
    PROVE  /\ Reads(settled, versionOf, PublishedIds(settled))
           /\ Reads(db', versionOf', PublishedIds(db'))
           /\ \A i \in RowId : i \notin Ids(db') => versionOf'[i] = versionOf[i]
           /\ versionOf' \in [RowId -> Version]
  <1>1. /\ settled \in Tables /\ Distinct(settled) /\ versionOf \in [RowId -> Version]
        /\ \A x \in settled.rows : versionOf[x.id] = x.version
    BY DEF SerialInv, Clean
  <1>2. Reads(settled, versionOf, PublishedIds(settled))
    BY <1>1, RowIds DEF Reads
  <1>3. \A x \in db'.rows : x.id \in RowId /\ x.version \in Version
                            /\ (CHOOSE y \in db'.rows : y.id = x.id) = x
    BY DEF Tables, Row, Distinct
  <1>4. \A x \in db'.rows : versionOf'[x.id] = x.version
    BY <1>3 DEF Settles
  <1>5. versionOf' \in [RowId -> Version]
    <2>1. \A i \in RowId : versionOf[i] \in Version
      BY <1>1
    <2>2. \A i \in RowId : (\E x \in db'.rows : x.id = i)
                              => (CHOOSE x \in db'.rows : x.id = i).version \in Version
      BY <1>3
    <2> QED BY <2>1, <2>2 DEF Settles
  <1>6. \A i \in RowId : i \notin Ids(db') => versionOf'[i] = versionOf[i]
    BY DEF Settles, Ids
  <1> QED BY <1>2, <1>4, <1>5, <1>6, RowIds DEF Reads

\* Rows that were there before keep their versions.
LEMMA SameVersions ==
    ASSUME SerialInv, Settles, db' \in Tables, Distinct(db'),
           \A x \in db'.rows : \E y \in settled.rows : x.id = y.id /\ x.version = y.version
    PROVE  versionOf' = versionOf
  <1>1. \A i \in RowId : versionOf'[i] = versionOf[i]
    BY SettledReads DEF Reads, Ids
  <1>2. versionOf \in [RowId -> Version] /\ versionOf' \in [RowId -> Version]
    BY SettledReads DEF SerialInv
  <1> QED BY <1>1, <1>2

LEMMA DeletionRefines ==
    ASSUME SerialInv, Settles, UNCHANGED config, db' \in Tables, Distinct(db'), Right(db'),
           NEW r, Deletion(settled, db', "commit", r)
    PROVE  \E i \in Ids(settled) : Index!Delete(i)
  <1> DEFINE S == settled
             T == db'
  <1>1. /\ S \in Tables /\ Distinct(S) /\ settled' = T
        /\ T.rows = Kept(S, r.v) /\ T.parentOf = Moved(S, r.v, NoRow) /\ OldIds(S, r.v) # {}
    BY DEF SerialInv, Clean, Settles, Deletion, Removal
  <1>2. PICK x \in S.rows : x.version = r.v /\ OldIds(S, r.v) = {x.id}
    BY <1>1 DEF OldIds, RowsFor, Distinct
  <1>3. Ids(T) = Ids(S) \ {x.id}
    BY <1>1, <1>2 DEF Ids, Kept, Distinct
  <1>4. PublishedIds(T) = PublishedIds(S) \ {x.id}
    BY <1>1, <1>2 DEF PublishedIds, Kept, Distinct
  <1>5. versionOf' = versionOf
    BY <1>1, SameVersions DEF Kept
  <1>6. T.latest = Index!CalculateLatest(Ids(T), versionOf', PublishedIds(T))
    BY SettledReads, RightIsCalculated
  <1>7. T.parentOf = [d \in Download |-> IF S.parentOf[d] = x.id THEN NoRow ELSE S.parentOf[d]]
    BY <1>1, <1>2 DEF Moved
  <1>8. Index!Delete(x.id)
    BY <1>1, <1>3, <1>4, <1>5, <1>6, <1>7 DEF Index!Delete, Index!settings, PublishedIds
  <1> QED BY <1>8 DEF Ids

LEMMA PublicationRefines ==
    ASSUME SerialInv, KillsOnlyTransactions, Settles, UNCHANGED config,
           db' \in Tables, Distinct(db'), Right(db'),
           NEW r, Publication(settled, db', "commit", r)
    PROVE  \E i \in Ids(settled) : Index!Publish(i)
  <1> DEFINE S == settled
             T == db'
             g(y) == IF y.version = r.v THEN [y EXCEPT !.published = TRUE] ELSE y
  <1>1. /\ S \in Tables /\ Distinct(S) /\ Right(S) /\ settled' = T
        /\ T.rows = {g(y) : y \in S.rows} /\ T.parentOf = S.parentOf /\ OldIds(S, r.v) # {}
    BY DEF SerialInv, Clean, Settles, Publication, Marked
  <1>2. PICK x \in S.rows : x.version = r.v /\ OldIds(S, r.v) = {x.id}
    BY <1>1 DEF OldIds, RowsFor, Distinct
  <1>3. \A y \in S.rows : /\ g(y).id = y.id /\ g(y).version = y.version
                          /\ g(y).published <=> (y.published \/ y.version = r.v)
    BY <1>1 DEF Tables, Row
  <1>4. /\ \A z \in T.rows : \E y \in S.rows : z = g(y)
        /\ \A y \in S.rows : g(y) \in T.rows
    BY <1>1
  <1> HIDE DEF g
  <1>5. Ids(T) = Ids(S)
    BY <1>3, <1>4 DEF Ids
  <1>6. versionOf' = versionOf
    BY <1>3, <1>4, SameVersions
  <1>7. Reads(S, versionOf, PublishedIds(S)) /\ Reads(T, versionOf, PublishedIds(T))
    BY <1>6, SettledReads
  <1>8. Index!RowsFor(versionOf[x.id]) = {x.id} /\ versionOf[x.id] = r.v
    BY <1>1, <1>2, <1>7 DEF Index!RowsFor, Reads, Ids, Distinct
  <1>9. PublishedIds(T) = PublishedIds(S) \cup {x.id}
    BY <1>1, <1>2, <1>3, <1>4 DEF PublishedIds, Distinct
  <1>10. T.latest = Index!CalculateLatest(Ids(S), versionOf, PublishedIds(T))
    BY <1>5, <1>7, RightIsCalculated
  <1>11. T.latest # NoRow /\ versionOf[T.latest] = r.v => T.latest = x.id
    BY <1>1, <1>2, <1>3, <1>4, <1>7 DEF Right, Target, Eligible, Reads, Distinct
  <1>12. ASSUME T.latest = NoRow \/ versionOf[T.latest] # r.v PROVE T.latest = S.latest
    <2> DEFINE K == [S EXCEPT !.latest = T.latest]
    <2>1. K \in Tables /\ K.rows = S.rows /\ K.latest = T.latest
      BY <1>1 DEF Tables
    <2> HIDE DEF K
    <2>2. Distinct(K) /\ Reads(K, versionOf, PublishedIds(S)) /\ Ids(K) = Ids(S)
      BY <1>1, <1>7, <2>1 DEF Distinct, Reads, Ids
    <2>3. \A y \in Eligible(S) : g(y) \in Eligible(T) /\ g(y).version = y.version /\ g(y).id = y.id
      BY <1>3, <1>4 DEF Eligible
    <2>4. Right(K)
      <3>1. CASE Eligible(T) = {} /\ T.latest = NoRow
        <4>1. Eligible(K) = {}
          BY <2>1, <2>3, <3>1 DEF Eligible
        <4> QED BY <2>1, <3>1, <4>1 DEF Right
      <3>2. CASE Target(T, T.latest)
        <4>1. PICK z \in Eligible(T) : z.id = T.latest /\ Top(T, z.version)
          BY <3>2 DEF Target
        <4>2. PICK y \in S.rows : z = g(y)
          BY <1>4, <4>1 DEF Eligible
        <4>3. T.latest # NoRow /\ y.version # r.v
          BY <1>1, <1>3, <1>7, <1>12, <4>1, <4>2, RequestsAssumption DEF Reads, Tables, Row
        <4>4. y \in Eligible(S) /\ y.version = z.version /\ y.id = T.latest
          BY <1>3, <4>1, <4>2, <4>3 DEF Eligible
        <4>5. Top(S, y.version)
          BY <2>3, <4>1, <4>4 DEF Top
        <4> QED BY <2>1, <4>4, <4>5 DEF Right, Target, Top, Eligible
      <3> QED BY <3>1, <3>2 DEF Right
    <2>5. K.latest = Index!CalculateLatest(Ids(S), versionOf, PublishedIds(S))
      BY <2>1, <2>2, <2>4, RightIsCalculated
    <2>6. S.latest = Index!CalculateLatest(Ids(S), versionOf, PublishedIds(S))
      BY <1>1, <1>7, RightIsCalculated
    <2> QED BY <2>1, <2>5, <2>6
  <1>13. T.latest = Index!LatestAfterPublish(x.id, Ids(S), versionOf, PublishedIds(T), S.latest)
    BY <1>8, <1>10, <1>11, <1>12 DEF Index!LatestAfterPublish
  <1>14. Index!Publish(x.id)
    BY <1>1, <1>5, <1>6, <1>8, <1>9, <1>13 DEF Index!Publish, Index!settings, PublishedIds
  <1> QED BY <1>14 DEF Ids

\* The tables V of a download, finished or killed.
LEMMA RecordingRefines ==
    ASSUME SerialInv, KillsOnlyTransactions, Settles, UNCHANGED config,
           db' \in Tables, Distinct(db'), Right(db'),
           NEW r, NEW label, Recording(settled, db', label, r)
    PROVE  (\E i \in Ids(settled), d \in Download : Index!RecordDownload(i, d))
             \/ UNCHANGED <<settled, versionOf>>
  <1> DEFINE S == settled
             T == db'
  <1>1. /\ S \in Tables /\ Distinct(S) /\ Right(S) /\ settled' = T /\ T.rows = S.rows
        /\ r.row \in Ids(S)
    BY DEF SerialInv, Clean, Settles, Recording
  <1>2. versionOf' = versionOf
    BY <1>1, SameVersions
  <1>3. Reads(S, versionOf, PublishedIds(S)) /\ Reads(T, versionOf, PublishedIds(T))
        /\ Ids(T) = Ids(S) /\ PublishedIds(T) = PublishedIds(S)
    BY <1>1, <1>2, SettledReads DEF Ids, PublishedIds
  <1>4. T.latest = S.latest
    <2>1. S.latest = Index!CalculateLatest(Ids(S), versionOf, PublishedIds(S))
      BY <1>1, <1>3, RightIsCalculated
    <2>2. T.latest = Index!CalculateLatest(Ids(T), versionOf, PublishedIds(T))
      BY <1>3, RightIsCalculated
    <2> QED BY <1>3, <2>1, <2>2
  <1>5. CASE label = "record"
    <2>1. T.parentOf = S.parentOf
      BY <1>5 DEF Recording
    <2>2. T = S
      BY <1>1, <1>4, <2>1 DEF Tables
    <2> QED BY <1>1, <1>2, <2>2
  <1>6. CASE label # "record"
    <2>1. PICK d \in Download : S.parentOf[d] = NoRow /\ T.parentOf = [S.parentOf EXCEPT ![d] = r.row]
      BY <1>6 DEF Recording
    <2>2. Index!RecordDownload(r.row, d)
      BY <1>1, <1>2, <1>3, <1>4, <2>1 DEF Index!RecordDownload, Index!settings, PublishedIds
    <2> QED BY <1>1, <2>2
  <1> QED BY <1>5, <1>6

LEMMA InsertionRefines ==
    ASSUME SerialInv, KillsOnlyTransactions, Settles, UNCHANGED config,
           db' \in Tables, Distinct(db'), Right(db'), config \in Deployment,
           NEW r, r.v \in Version, r.publish \in BOOLEAN,
           Insertion(config, settled, db', "commit", r)
    PROVE  \E v \in Index!Version, new \in RowId : Index!Index(v, new)
  <1> DEFINE S == settled
             T == db'
             v == r.v
  <1>1. S \in Tables /\ Distinct(S) /\ Right(S) /\ settled' = T /\ Found(config, S, r)
    BY DEF SerialInv, Clean, Settles, Insertion
  <1>2. PICK new \in RowId :
          /\ \A x \in Kept(S, v) : x.id # new
          /\ T.parentOf = Moved(S, v, new)
          /\ T.rows = Kept(S, v) \cup {NewRow("commit", r, new)}
    BY DEF Insertion
  <1> DEFINE row == NewRow("commit", r, new)
             old == OldIds(S, v)
             kept == PublishedIds(S) \ (old \cup {new})
  <1>3. /\ row.id = new /\ row.version = v
        /\ row.published <=> r.publish
    BY DEF NewRow, Rerank
  <1>4. row \in T.rows /\ T.rows = Kept(S, v) \cup {row}
    BY <1>2
  <1>5. \A x \in S.rows : x.id \in old <=> x.version = v
    BY <1>1, KeptIds
  <1> HIDE DEF row
  <1>6. Reads(S, versionOf, PublishedIds(S)) /\ Reads(T, versionOf', PublishedIds(T))
    BY SettledReads
  <1>7. Index!RowsFor(v) = old
    BY <1>6 DEF Index!RowsFor, Reads, Ids, OldIds, RowsFor
  <1>8. Ids(T) = (Ids(S) \ old) \cup {new}
    BY <1>4, <1>3, <1>5 DEF Ids, Kept
  <1>9. new \notin Ids(S) \ old
    BY <1>2, <1>5 DEF Ids, Kept
  <1>10. versionOf' = [versionOf EXCEPT ![new] = v]
    <2>1. versionOf'[new] = v
      BY <1>4, <1>3, <1>6 DEF Reads
    <2>2. \A i \in RowId \ {new} : versionOf'[i] = versionOf[i]
      <3>1. \A x \in T.rows : x.id # new => x \in S.rows
        BY <1>4, <1>3 DEF Kept
      <3> QED BY <1>6, <3>1, SettledReads DEF Reads, Ids
    <2> QED BY <2>1, <2>2, SettledReads DEF SerialInv
  <1>11. PublishedIds(T) = IF r.publish THEN kept \cup {new} ELSE kept
    <2>1. \A i : i \in PublishedIds(T) <=> \E x \in T.rows : x.published /\ x.id = i
      BY DEF PublishedIds
    <2>2. \A i : i \in PublishedIds(S) <=> \E x \in S.rows : x.published /\ x.id = i
      BY DEF PublishedIds
    <2>3. \A x \in T.rows : x = row \/ (x \in S.rows /\ x.version # v /\ x.id # new)
      BY <1>2, <1>4 DEF Kept
    <2>4. \A x \in S.rows : x.id \notin old => x \in T.rows
      BY <1>4, <1>5 DEF Kept
    <2>5. \A i : i \in PublishedIds(T) <=> i \in kept \/ (r.publish /\ i = new)
      <3>1. ASSUME NEW i, i \in PublishedIds(T) PROVE i \in kept \/ (r.publish /\ i = new)
        BY <1>3, <1>5, <2>1, <2>2, <2>3, <3>1
      <3>2. ASSUME NEW i, i \in kept PROVE i \in PublishedIds(T)
        BY <2>1, <2>2, <2>4, <3>2
      <3>3. r.publish => new \in PublishedIds(T)
        BY <1>3, <1>4, <2>1
      <3> QED BY <3>1, <3>2, <3>3
    <2> QED BY <2>5
  <1>12. Index!ShouldPublish(v) <=> r.publish
    <2>1. old \cap PublishedIds(S) # {} <=> \E x \in RowsFor(S, v) : x.published
      BY <1>1, RowIds DEF OldIds, RowsFor
    <2> QED BY <1>1, <1>7, <2>1 DEF Index!ShouldPublish, Found, PublishedIds
  <1> DEFINE before == IF old = {} THEN S.latest
                       ELSE Index!CalculateLatest(Ids(S) \ old, versionOf, PublishedIds(S))
             K == [T EXCEPT !.rows = Kept(S, v)]
  <1>13. K \in Tables /\ K.rows = Kept(S, v) /\ K.latest = T.latest
    BY <1>1 DEF Tables, Kept
  <1> HIDE DEF K
  <1>14. Distinct(K) /\ Reads(K, versionOf, PublishedIds(S)) /\ Ids(K) = Ids(S) \ old
    BY <1>1, <1>5, <1>6, <1>13 DEF Distinct, Reads, Kept, Ids
  <1>15. Right(K) => T.latest = before
    <2>1. Right(K) => T.latest = Index!CalculateLatest(Ids(S) \ old, versionOf, PublishedIds(S))
      BY <1>13, <1>14, RightIsCalculated
    <2>2. S.latest = Index!CalculateLatest(Ids(S), versionOf, PublishedIds(S))
      BY <1>1, <1>6, RightIsCalculated
    <2>3. old = {} => Ids(S) \ old = Ids(S)
      OBVIOUS
    <2> QED BY <2>1, <2>2, <2>3
  <1>16. ASSUME T.latest # new PROVE Right(K)
    <2>1. \A y \in Eligible(K) : y \in Eligible(T)
      BY <1>4, <1>13 DEF Eligible
    <2>2. CASE Eligible(T) = {} /\ T.latest = NoRow
      BY <1>13, <2>1, <2>2 DEF Right
    <2>3. CASE Target(T, T.latest)
      <3>1. PICK x \in Eligible(T) : x.id = T.latest /\ Top(T, x.version)
        BY <2>3 DEF Target
      <3>2. x \in Eligible(K) /\ Top(K, x.version)
        BY <1>4, <1>3, <1>13, <1>16, <2>1, <3>1 DEF Eligible, Top
      <3> QED BY <1>13, <3>1, <3>2 DEF Right, Target
    <2> QED BY <2>2, <2>3 DEF Right
  <1>17. T.latest = Index!CalculateLatest(Ids(T), versionOf', PublishedIds(T))
    BY <1>6, RightIsCalculated
  <1>18. T.latest # NoRow => (versionOf'[T.latest] = versionOf'[new] <=> T.latest = new)
    BY <1>3, <1>4, <1>6 DEF Right, Target, Eligible, Reads, Distinct
  <1>19. T.parentOf = [d \in Download |-> IF S.parentOf[d] \in old THEN new ELSE S.parentOf[d]]
    BY <1>2 DEF Moved
  <1>20. config.mode = "prohibit" => old = {}
    BY <1>1 DEF Found
  <1>21. IF r.publish
         THEN T.latest = Index!LatestAfterPublish(new, Ids(T), versionOf', PublishedIds(T), before)
         ELSE T.latest = before
    <2>1. CASE r.publish
      BY <1>15, <1>16, <1>17, <1>18, <2>1, RequestsAssumption DEF Index!LatestAfterPublish
    <2>2. CASE ~r.publish
      <3>1. T.latest # new
        BY <1>4, <1>3, <2>2, RequestsAssumption DEF Right, Target, Eligible, Distinct
      <3> QED BY <1>15, <1>16, <2>2, <3>1
    <2> QED BY <2>1, <2>2
  <1>22. /\ {x.id : x \in {y \in settled.rows : y.published}} = PublishedIds(S)
         /\ {x.id : x \in {y \in settled'.rows : y.published}} = PublishedIds(T)
    BY <1>1 DEF PublishedIds
  <1> HIDE DEF old
  <1>23. Index!Index(v, new)
    <2>1. CASE r.publish
      BY <1>1, <1>7, <1>8, <1>9, <1>10, <1>11, <1>12, <1>19, <1>20, <1>21, <1>22, <2>1
         DEF Index!Index, Index!settings
    <2>2. CASE ~r.publish
      BY <1>1, <1>7, <1>8, <1>9, <1>10, <1>11, <1>12, <1>19, <1>20, <1>21, <1>22, <2>2
         DEF Index!Index, Index!settings
    <2> QED BY <2>1, <2>2
  <1> QED BY <1>23 DEF Index!Version, Version

\* A request that goes through to its commit.
LEMMA FinishRefines ==
    ASSUME SerialInv, WholeInv', KillsOnlyTransactions, UNCHANGED config,
           NEW t \in Thread, Finish(t), Settles
    PROVE  Index!Next \/ UNCHANGED <<settled, versionOf>>
  <1> DEFINE r == req[t]
  <1>1. /\ Stage(config, settled, db', "commit", r)
        /\ Right(db') /\ Distinct(db') /\ db' \in Tables
    BY FinishLeaves DEF WholeInv, TypeOK
  <1>2. r.v \in Version /\ r.publish \in BOOLEAN /\ config \in Deployment
    BY DEF SerialInv, WholeInv, TypeOK, Request
  <1>3. CASE Deletion(settled, db', "commit", r)
    BY <1>1, <1>3, DeletionRefines DEF Index!Next
  <1>4. CASE Insertion(config, settled, db', "commit", r)
    BY <1>1, <1>2, <1>4, InsertionRefines DEF Index!Next
  <1>5. CASE Publication(settled, db', "commit", r)
    BY <1>1, <1>5, PublicationRefines DEF Index!Next
  <1>6. CASE Recording(settled, db', "commit", r)
    BY <1>1, <1>6, RecordingRefines DEF Index!Next
  <1>7. ~Replacement(config, settled, db', "commit", r)
    BY DEF Replacement, Removal, Repoint
  <1> QED BY <1>1, <1>3, <1>4, <1>5, <1>6, <1>7 DEF Stage

\* A failed request, or one that was only begun, leaves no trace.
LEMMA SettledAgain ==
    ASSUME SerialInv, Settles, db' = settled
    PROVE  UNCHANGED <<settled, versionOf>>
  BY SameVersions DEF SerialInv, Clean, Settles

LEMMA CrashRefines ==
    ASSUME SerialInv, WholeInv', KillsOnlyTransactions, UNCHANGED config,
           Crash, Settles
    PROVE  Index!Next \/ UNCHANGED <<settled, versionOf>>
  <1>1. /\ db' = db /\ config.kill /\ db' \in Tables /\ Distinct(db') /\ Right(db')
        /\ config.kinds \subseteq {"index", "hookDelete", "download"}
    BY CommittedIsClean DEF Crash, WholeInv, TypeOK, KillsOnlyTransactions
  <1>2. CASE db = settled
    BY <1>1, <1>2, SettledAgain
  <1>3. CASE db # settled
    <2>1. PICK t \in Thread : pc[t] # "idle"
      BY DEF Crash
    <2>2. View(t) = db /\ ~InTransaction(t) /\ Stage(config, settled, db, pc[t], req[t])
      BY <1>3, <2>1, LockIsOurs DEF Staged
    <2>3. Recording(settled, db', pc[t], req[t])
      BY <1>1, <2>2 DEF SerialInv, InTransaction, Stage
    <2> QED BY <1>1, <2>3, RecordingRefines DEF Index!Next
  <1> QED BY <1>2, <1>3

LEMMA SerialRefines ==
    ASSUME SerialInv, KillsOnlyTransactions, [SerialNext]_SerialVars
    PROVE  [Index!Next]_(Index!vars) /\ KillsOnlyTransactions'
  <1>1. WholeInv /\ TypeOK /\ WholeInv'
    BY WholeNext DEF SerialInv, WholeInv, SerialNext, SerialVars
  <1>0. UNCHANGED config
    BY DEF SerialNext, SerialVars, vars, Next, Arrive, Step, Crash
  <1>2. UNCHANGED <<settled, versionOf>> => UNCHANGED Index!vars
    BY <1>0 DEF Index!vars, Index!tables, Index!settings
  <1>3. KillsOnlyTransactions'
    BY <1>0 DEF KillsOnlyTransactions
  <1>4. ASSUME NEW t \in Thread, Arrive(t), SerialNext PROVE UNCHANGED <<settled, versionOf>>
    BY <1>1, <1>4, ArriveGoesOn, SerialStep
  <1>5. ASSUME NEW t \in Thread, Step(t), SerialNext
        PROVE  Index!Next \/ UNCHANGED <<settled, versionOf>>
    <2>1. CASE Working(t)
      BY <1>1, <1>5, <2>1, WorkingGoesOn, SerialStep
    <2>2. CASE Finish(t)
      BY <1>1, <1>5, <1>0, <2>2, FinishLeaves, FinishRefines, SerialStep
    <2>3. CASE Abandon(t) /\ (ExtractionFails(t) \/ IsLatest(t) \/ ReadPk(t) \/ LockTimeout(t))
      BY <1>5, <2>3, AbandonLeaves, SettledAgain, SerialStep
    <2> QED BY <1>5, <2>1, <2>2, <2>3, StepSplits
  <1>6. CASE Crash /\ SerialNext
    <2>1. Quiet'
      BY <1>6 DEF Crash, Quiet
    <2> QED BY <1>1, <1>2, <1>3, <1>6, <1>0, <2>1, CrashRefines, SerialStep
  <1>7. CASE UNCHANGED SerialVars
    BY <1>2, <1>3, <1>7 DEF SerialVars
  <1> QED BY <1>2, <1>3, <1>4, <1>5, <1>6, <1>7 DEF SerialNext, Next

LEMMA SerialInitRefines == SerialInit => Index!Init
  <1> SUFFICES ASSUME SerialInit PROVE Index!Init
    OBVIOUS
  <1>1. SerialInv /\ db.rows = {} /\ settled = db /\ versionOf \in [RowId -> Version]
    BY SerialInitHolds DEF SerialInit
  <1>2. settled \in Tables /\ Owned(settled) /\ settled.rows = {}
    BY <1>1 DEF SerialInv, Clean
  <1>3. settled.parentOf = [d \in Download |-> NoRow]
    BY <1>2 DEF Owned, Ids, Tables
  <1>4. settled.latest = NoRow
    <2>1. Init
      BY DEF SerialInit
    <2>2. PICK R \in SUBSET Version, P \in SUBSET Version, c \in Content :
            /\ P \subseteq R
            /\ db = [rows |-> {[id |-> i, version |-> i, published |-> i \in P, content |-> c] : i \in R},
                     latest |-> IF P \subseteq Beta THEN NoRow
                                ELSE CHOOSE i \in P \ Beta : \A j \in P \ Beta : j <= i,
                     parentOf |-> [d \in Download |-> NoRow]]
      BY <2>1 DEF Init
    <2>3. P = {}
      BY <1>1, <2>2
    <2> QED BY <1>1, <2>2, <2>3
  <1>5. Ids(settled) = {} /\ {x.id : x \in {y \in settled.rows : y.published}} = {}
    BY <1>2 DEF Ids
  <1>6. config.mode \in Index!ReindexModes /\ config.auto \in BOOLEAN
    BY <1>1, RequestsAssumption DEF SerialInv, WholeInv, TypeOK, Index!ReindexModes
  <1> QED BY <1>1, <1>3, <1>4, <1>5, <1>6 DEF Index!Init, Index!Version, Version

\* Requests that take turns implement VersionIndex, whatever fails in them: the
\* statements of models.py, module_extractor.py and analytics.py add up to one
\* of its actions under the settings in force, or to nothing.  With kills this asks that only transactions
\* change the rows: a delete that dies half way is no action of VersionIndex.
THEOREM SerialRefinement == SerialSpec => (KillsOnlyTransactions => ImplementsIndex)
  <1>1. Index!Spec <=> Index!Init /\ [][Index!Next]_(Index!vars)
    BY DEF Index!Spec
  <1>2. SerialInv /\ KillsOnlyTransactions /\ [SerialNext]_SerialVars
           => [Index!Next]_(Index!vars) /\ KillsOnlyTransactions'
    BY SerialRefines
  <1>3. SerialSpec => (KillsOnlyTransactions => Index!Init /\ [][Index!Next]_(Index!vars))
    BY <1>2, SerialInitRefines, SerialInvariance, PTL DEF SerialSpec
  <1> QED BY <1>1, <1>3 DEF ImplementsIndex

=============================================================================
