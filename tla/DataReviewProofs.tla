--------------------------- MODULE DataReviewProofs ---------------------------
(***************************************************************************)
(* Proofs about DataReview, for every set of imports, rows, payloads,      *)
(* sessions and worker threads, and every bound.                           *)
(***************************************************************************)
EXTENDS DataReview, FiniteSetTheorems, WellFoundedInduction, TLAPS

(* Attempt numbers *)

\* A nonempty set of naturals has a least element.
LEMMA LeastNumber ==
  ASSUME NEW T \in SUBSET Nat, T # {}
  PROVE  \E x \in T : \A y \in T : x <= y
<1>1. PICK x \in T : \A y \in T : ~(<<y, x>> \in OpToRel(<, Nat))
  BY NatLessThanWellFounded, WFMin
<1>2. \A y \in T : ~(y < x)
  BY <1>1, Zenon DEF OpToRel
<1> QED BY <1>2

\* A nonempty finite set of naturals has a greatest element: otherwise take a
\* smallest set without one, and remove an element.
LEMMA GreatestNumber ==
  ASSUME NEW S \in SUBSET Nat, S # {}, IsFiniteSet(S)
  PROVE  \E x \in S : \A y \in S : x >= y
<1> DEFINE NoMax(U) == U # {} /\ \A x \in U : \E y \in U : ~(x >= y)
           Bad == {n \in Nat : \E U \in SUBSET S : NoMax(U) /\ Cardinality(U) = n}
<1>1. Bad = {}
  <2> SUFFICES ASSUME Bad # {} PROVE FALSE OBVIOUS
  <2>1. PICK n \in Bad : \A m \in Bad : n <= m
    BY LeastNumber
  <2>2. PICK U \in SUBSET S : NoMax(U) /\ Cardinality(U) = n
    BY <2>1
  <2> HIDE DEF Bad
  <2>3. PICK x : x \in U
    BY <2>2
  <2>4. IsFiniteSet(U) /\ U \in SUBSET Nat
    BY FS_Subset
  <2>5. IsFiniteSet(U \ {x}) /\ Cardinality(U \ {x}) = n - 1 /\ Cardinality(U \ {x}) \in Nat
    BY <2>2, <2>3, <2>4, FS_RemoveElement, FS_CardinalityType
  <2>6. ~NoMax(U \ {x})
    <3> SUFFICES ASSUME NoMax(U \ {x}) PROVE FALSE OBVIOUS
    <3>1. n - 1 \in Bad
      BY <2>5 DEF Bad
    <3>2. n \in Nat /\ n <= n - 1
      BY <3>1, <2>1 DEF Bad
    <3> QED BY <3>2
  <2>7. CASE U \ {x} = {}
    BY <2>2, <2>3, <2>4, <2>7
  <2>8. CASE U \ {x} # {}
    <3>1. PICK y \in U \ {x} : \A z \in U \ {x} : y >= z
      BY <2>6, <2>8
    <3>2. \A z \in U : (IF x >= y THEN x ELSE y) >= z
      BY <3>1, <2>3, <2>4
    <3> QED BY <3>1, <3>2, <2>2, <2>3
  <2> QED BY <2>7, <2>8
<1>2. Cardinality(S) \in Nat
  BY FS_CardinalityType
<1> QED BY <1>1, <1>2

\* The next attempt number is a positive number above those of the course.
LEMMA NextNumberIsNew ==
  ASSUME attempts \in SUBSET Attempt, IsFiniteSet(attempts), NEW course
  PROVE  /\ NextNumber(course) \in Nat \ {0}
         /\ \A a \in attempts : a.course = course => a.number < NextNumber(course)
<1> DEFINE B == {b \in attempts : b.course = course}
           N == {a.number : a \in B}
           f == [a \in B |-> a.number]
<1>1. IsFiniteSet(B)
  BY FS_Subset
<1>2. f \in Surjection(B, N)
  BY DEF Surjection
<1>3. IsFiniteSet(N)
  BY <1>1, <1>2, FS_Surjection
<1>4. N \in SUBSET Nat
  BY DEF Attempt
<1> DEFINE Z == {0} \cup N
<1>5. IsFiniteSet(Z)
  BY <1>3, FS_Singleton, FS_Union
<1>6. \E x \in Z : \A y \in Z : x >= y
  <2> HIDE DEF N
  <2>1. Z \in SUBSET Nat /\ Z # {}
    BY <1>4
  <2> HIDE DEF Z
  <2> QED BY <2>1, <1>5, GreatestNumber
<1>7. Max(Z) \in Z /\ \A y \in Z : Max(Z) >= y
  BY <1>6 DEF Max
<1>8. NextNumber(course) = Max(Z) + 1
  BY DEF NextNumber
<1>9. \A a \in attempts : a.course = course => a.number \in Z
  OBVIOUS
<1> QED
  <2> HIDE DEF Z, N, B
  <2>1. Z \in SUBSET Nat
    BY <1>4 DEF Z
  <2>2. Max(Z) \in Nat
    BY <1>7, <2>1
  <2>3. ASSUME NEW a \in attempts, a.course = course PROVE a.number < Max(Z) + 1
    <3>1. a.number \in Z
      BY <1>9, <2>3
    <3>2. Max(Z) >= a.number /\ a.number \in Nat
      BY <3>1, <1>7, <2>1
    <3> QED BY <3>2, <2>2
  <2> QED BY <1>8, <2>2, <2>3
-----------------------------------------------------------------------------
(* Type correctness *)

\* A request that is not idle names its session, and its row; the writer is an
\* application.
RequestOK ==
  /\ \A r \in Requests :
       /\ request[r].op # "idle" => request[r].review \in Reviews
       /\ request[r].op = "update" => request[r].row \in Rows
  /\ writer # Nothing => request[writer].op = "apply"
TypeInv == TypeOK /\ RequestOK /\ IsFiniteSet(attempts)
             /\ (undo # Nothing => IsFiniteSet(undo.attempts))

LEMMA RequestUpdates ==
  /\ Unreviewed \in [Rows -> Entry]
  /\ Idle \in Request /\ Idle.op = "idle"
  /\ \A q \in Request, b \in BOOLEAN :
       LET u == [q EXCEPT !.reused = b] IN
       u \in Request /\ u.op = q.op /\ u.review = q.review /\ u.row = q.row
<1>1. Unreviewed \in [Rows -> Entry]
  BY PayloadAssumption DEF Unreviewed, Entry, Decision
<1>2. Idle \in Request /\ Idle.op = "idle"
  BY <1>1 DEF Idle, Request
<1>3. \A q \in Request, b \in BOOLEAN :
       LET u == [q EXCEPT !.reused = b] IN
       u \in Request /\ u.op = q.op /\ u.review = q.review /\ u.row = q.row
  BY DEF Request
<1> QED BY <1>1, <1>2, <1>3

LEMMA ReviewedType ==
  ASSUME TypeInv, NEW r \in Requests, NEW row \in Rows
  PROVE  Reviewed(r, row) \in Payload /\ request[r].seen[row] \in Entry
BY PayloadAssumption DEF TypeInv, TypeOK, Request, Entry, Reviewed

LEMMA StateOfType ==
  ASSUME NEW p \in Payload, NEW x \in {"RELIABLE", "EXTERNAL_EVIDENCE", "EXCEPTION"},
         NEW a \in Attempt \cup {Nothing}
  PROVE  StateOf(p, x, a) \in State
BY DEF StateOf, State, Payload

LEMMA WithdrawnType ==
  ASSUME NEW s \in State
  PROVE  /\ Withdrawn(s) \in State /\ Withdrawn(s).attempt = Nothing
         /\ Withdrawn(s).validity = "EXCEPTION" /\ Withdrawn(s).code = s.code
         /\ Withdrawn(s).status = s.status /\ Withdrawn(s).term = s.term
BY DEF Withdrawn, State

LEMMA NewAttemptType ==
  ASSUME TypeInv, NEW row \in Rows, NEW snap \in Imports \cup {Nothing}, NEW course \in Courses,
         NEW p \in Payload, p.term \in Terms, p.credits # Nothing
  PROVE  NewAttempt(row, snap, course, p) \in Attempt
<1>1. NextNumber(course) \in Nat \ {0}
  BY NextNumberIsNew DEF TypeInv, TypeOK
<1> QED BY <1>1 DEF NewAttempt, Attempt, Payload

\* Nothing is no record of the model.
LEMMA NothingIsAbsent ==
  /\ Nothing \notin Attempt /\ Nothing \notin Requests /\ Nothing \notin Rows
  /\ Nothing \notin Courses /\ Nothing \notin Imports /\ Nothing \notin Reviews
BY NothingAssumption

LEMMA TypeInit == Init => TypeInv
<1> SUFFICES ASSUME Init PROVE TypeInv
  OBVIOUS
<1> USE RequestUpdates, NothingIsAbsent DEF Init
<1>1. TypeOK
  BY SeedAssumption, PayloadAssumption DEF TypeOK
<1>2. RequestOK
  BY DEF RequestOK
<1> QED BY <1>1, <1>2, SeedAssumption DEF TypeInv

\* A request is received: only its thread changes.
LEMMA TypeReceive ==
  ASSUME TypeInv, NEW r \in Requests, NEW v \in Reviews, NEW row \in Rows \cup {Nothing},
         NEW op \in {"create", "update", "apply"}, NEW allow \in BOOLEAN,
         op = "update" => row \in Rows, Receive(r, op, v, row, allow)
  PROVE  TypeInv'
<1> DEFINE q == [op |-> op, review |-> v, row |-> row, allow |-> allow,
                 status |-> review[v], seen |-> entry[v], reused |-> FALSE]
<1>1. q \in Request /\ q.op = op /\ q.review = v /\ q.row = row
  BY DEF TypeInv, TypeOK, Request
<1>2. request' = [request EXCEPT ![r] = q] /\ UNCHANGED <<reviews, lock, history, updates>>
  BY DEF Receive
<1>3. request' \in [Requests -> Request]
  <2> HIDE DEF q
  <2> QED BY <1>1, <1>2 DEF TypeInv, TypeOK
<1>4. TypeOK'
  BY <1>2, <1>3 DEF TypeInv, TypeOK, reviews, lock, history
<1>5. RequestOK'
  <2>1. writer # r
    BY NothingIsAbsent DEF Receive, TypeInv, RequestOK
  <2> HIDE DEF q
  <2> QED BY <1>1, <1>2, <2>1, NothingIsAbsent DEF TypeInv, TypeOK, RequestOK, lock
<1> QED BY <1>2, <1>4, <1>5 DEF TypeInv, history, lock

\* A request ends: the thread is idle again.
LEMMA TypeDone ==
  ASSUME TypeInv, NEW r \in Requests, Done(r), (writer' = writer /\ writer # r) \/ writer' = Nothing
  PROVE  request' \in [Requests -> Request] /\ RequestOK'
<1>1. request' \in [Requests -> Request]
  BY RequestUpdates DEF TypeInv, TypeOK, Done
<1>2. RequestOK'
  BY RequestUpdates DEF TypeInv, TypeOK, RequestOK, Done
<1> QED BY <1>1, <1>2

LEMMA TypeCommitCreate ==
  ASSUME TypeInv, NEW r \in Requests, CommitCreate(r)
  PROVE  TypeInv'
<1>1. request' \in [Requests -> Request] /\ RequestOK'
  BY TypeDone, NothingIsAbsent, SMTT(60) DEF CommitCreate, lock
<1>2. review' \in [Reviews -> ActiveStatus \cup {"APPLIED", Nothing}]
  BY DEF CommitCreate, TypeInv, TypeOK, ActiveStatus
<1> QED BY <1>1, <1>2, SMTT(60) DEF CommitCreate, TypeInv, TypeOK, lock, history

LEMMA TypeCommitUpdate ==
  ASSUME TypeInv, NEW r \in Requests, CommitUpdate(r)
  PROVE  TypeInv'
<1> DEFINE q == request[r]
           v == q.review
           row == q.row
<1>1. q \in Request /\ v \in Reviews /\ row \in Rows /\ q.seen[row] \in Entry
        /\ entry[v] \in [Rows -> Entry] /\ entry[v][row] \in Entry
  BY DEF CommitUpdate, TypeInv, TypeOK, RequestOK, Request
<1>2. request' \in [Requests -> Request] /\ RequestOK'
  BY TypeDone, NothingIsAbsent, ZenonT(60) DEF CommitUpdate, lock
<1>3. PICK d \in Decisions, e \in Edits[row] \cup {Nothing},
           c \in Candidates[row] \cup {q.seen[row].course} :
        entry' = [entry EXCEPT ![v][row] =
                    [decision |-> Written(q.seen[row].decision, d, entry[v][row].decision),
                     edit |-> Written(q.seen[row].edit, e, entry[v][row].edit),
                     course |-> Written(q.seen[row].course, c, entry[v][row].course)]]
  BY DEF CommitUpdate
<1>4. d \in Decision /\ e \in Payload \cup {Nothing} /\ c \in Courses \cup {Nothing}
  BY <1>1, PayloadAssumption DEF Entry
<1> DEFINE new == [decision |-> Written(q.seen[row].decision, d, entry[v][row].decision),
                   edit |-> Written(q.seen[row].edit, e, entry[v][row].edit),
                   course |-> Written(q.seen[row].course, c, entry[v][row].course)]
<1>5. new \in Entry
  BY <1>1, <1>4, SMTT(60) DEF Written, Entry
<1>6. entry' \in [Reviews -> [Rows -> Entry]]
  <2> HIDE DEF new
  <2>1. entry' = [entry EXCEPT ![v] = [entry[v] EXCEPT ![row] = new]]
    BY <1>3 DEF new
  <2>2. [entry[v] EXCEPT ![row] = new] \in [Rows -> Entry]
    BY <1>1, <1>5, SMTT(60)
  <2> QED BY <2>1, <2>2 DEF TypeInv, TypeOK
<1>7. review' \in [Reviews -> ActiveStatus \cup {"APPLIED", Nothing}]
  <2>1. Written(q.status, Synced(v, q.seen), review[v]) \in ActiveStatus \cup {"APPLIED", Nothing}
    BY <1>1 DEF Written, Synced, ActiveStatus, TypeInv, TypeOK
  <2>2. review' = [review EXCEPT ![v] = Written(q.status, Synced(v, q.seen), review[v])]
    BY DEF CommitUpdate
  <2> QED BY <2>1, <2>2 DEF TypeInv, TypeOK
<1>8. updates' \in 0..MaxUpdates
  BY PayloadAssumption DEF CommitUpdate, TypeInv, TypeOK
<1> QED BY <1>2, <1>6, <1>7, <1>8 DEF CommitUpdate, TypeInv, TypeOK, lock, history

LEMMA TypeLockApply ==
  ASSUME TypeInv, NEW r \in Requests, LockApply(r)
  PROVE  TypeInv'
<1> DEFINE i == ReviewOf[request[r].review]
           u == [request[r] EXCEPT !.reused = (snapshot[i] # Nothing)]
           h == [snapshot |-> snapshot, state |-> state, attempts |-> attempts, applied |-> applied]
<1>1. request[r] \in Request /\ request[r].review \in Reviews /\ i \in Imports
  BY ImportAssumption DEF LockApply, TypeInv, TypeOK, RequestOK
<1>2. u \in Request /\ u.op = request[r].op /\ u.review = request[r].review /\ u.row = request[r].row
  BY <1>1, RequestUpdates
<1>3. request' = [request EXCEPT ![r] = u]
  BY DEF LockApply
<1>4. request' \in [Requests -> Request]
  <2> HIDE DEF u
  <2> QED BY <1>2, <1>3 DEF TypeInv, TypeOK
<1>5. RequestOK'
  <2>1. writer' = r /\ request[r].op = "apply"
    BY DEF LockApply
  <2> HIDE DEF u
  <2> QED BY <1>2, <1>3, <2>1 DEF TypeInv, TypeOK, RequestOK
<1>6. h \in History /\ h # Nothing /\ h.attempts = attempts
  BY AbsenceAssumption DEF TypeInv, TypeOK, History
<1>7. undo' = h /\ undo' # Nothing /\ writer' # Nothing /\ undo' \in History
  BY <1>6, NothingIsAbsent DEF LockApply
<1>8. snapshot' \in [Imports -> Snapshot \cup {Nothing}]
  BY DEF LockApply, TypeInv, TypeOK, Snapshot
<1>9. todo' \in SUBSET Rows
  BY DEF LockApply, RowsOf
<1>10. TypeOK'
  <2> HIDE DEF h
  <2> QED BY <1>4, <1>7, <1>8, <1>9 DEF LockApply, TypeInv, TypeOK, reviews
<1> QED BY <1>5, <1>6, <1>7, <1>10 DEF TypeInv, LockApply

LEMMA TypeTurn ==
  ASSUME TypeInv, NEW r \in Requests, NEW row \in Rows, Turn(r, row),
         state' \in [Rows -> State \cup {Nothing}],
         attempts' \in SUBSET Attempt, IsFiniteSet(attempts'), applied' \in SUBSET Rows
  PROVE  TypeInv'
<1>1. TypeOK'
  BY DEF Turn, TypeInv, TypeOK, reviews
<1>2. RequestOK'
  BY DEF Turn, TypeInv, RequestOK
<1> QED BY <1>1, <1>2 DEF Turn, TypeInv

\* What the records of a row's new state look like.
LEMMA RecordType ==
  ASSUME TypeInv, NEW row \in Rows, NEW p \in Payload,
         NEW x \in {"RELIABLE", "EXTERNAL_EVIDENCE", "EXCEPTION"}, Record(row, p, x)
  PROVE  /\ state' \in [Rows -> State \cup {Nothing}]
         /\ attempts' \in SUBSET Attempt /\ IsFiniteSet(attempts') /\ applied' \in SUBSET Rows
<1>1. StateOf(p, x, Nothing) \in State
  BY StateOfType
<1> QED BY <1>1 DEF Record, TypeInv, TypeOK

LEMMA TypeApplyRow ==
  ASSUME TypeInv, NEW r \in Requests, NEW row \in Rows, ApplyRow(r, row)
  PROVE  TypeInv'
<1> DEFINE p == Reviewed(r, row)
           course == request[r].seen[row].course
<1>1. p \in Payload /\ course \in Courses \cup {Nothing}
  BY ReviewedType DEF Entry
<1>2. ImportOf[row] \in Imports /\ IsFiniteSet(attempts) /\ attempts \in SUBSET Attempt
  BY ImportAssumption DEF TypeInv, TypeOK
<1> HIDE DEF p, course
<1>3. CASE ApplyConflict(r, row)
  <2>1. \A other \in Rows : state'[other] \in State \cup {Nothing}
    <3> SUFFICES ASSUME NEW other \in Rows PROVE state'[other] \in State \cup {Nothing}
      OBVIOUS
    <3>1. CASE other = row
      BY <1>1, <1>3, <3>1, StateOfType DEF ApplyConflict, p
    <3>2. CASE other # row /\ other \in Same(row, p.code)
      <4>1. state[other] \in State
        BY <3>2 DEF Same, TypeInv, TypeOK
      <4> QED BY <1>3, <3>2, <4>1, WithdrawnType DEF ApplyConflict, p
    <3>3. CASE other # row /\ other \notin Same(row, p.code)
      BY <1>3, <3>3 DEF ApplyConflict, p, TypeInv, TypeOK
    <3> QED BY <3>1, <3>2, <3>3
  <2>2. state' \in [Rows -> State \cup {Nothing}]
    <3>1. state' = [other \in Rows |-> state'[other]]
      BY <1>3 DEF ApplyConflict
    <3> QED BY <2>1, <3>1
  <2>3. attempts' \in SUBSET attempts /\ applied' = applied /\ Turn(r, row)
    BY <1>3 DEF ApplyConflict
  <2>4. IsFiniteSet(attempts')
    BY <1>2, <2>3, FS_Subset
  <2> QED BY <1>2, <2>2, <2>3, <2>4, TypeTurn DEF TypeInv, TypeOK
<1>4. CASE ApplyException(r, row)
  BY <1>1, <1>4, RecordType, TypeTurn DEF ApplyException, p
<1>5. CASE ApplyDuplicate(r, row)
  BY <1>1, <1>5, RecordType, TypeTurn DEF ApplyDuplicate, p
<1>6. CASE ApplyEvidence(r, row)
  BY <1>1, <1>6, RecordType, TypeTurn DEF ApplyEvidence, p
<1>7. CASE ApplyHistory(r, row)
  <2> DEFINE a == NewAttempt(row, ImportOf[row], course, p)
  <2>1. a \in Attempt
    BY <1>1, <1>2, <1>7, NewAttemptType DEF ApplyHistory, Countable, p, course
  <2> HIDE DEF a
  <2>2. StateOf(p, "RELIABLE", a) \in State
    BY <1>1, <2>1, StateOfType
  <2>3. state' = [state EXCEPT ![row] = StateOf(p, "RELIABLE", a)] /\ attempts' = attempts \cup {a}
          /\ applied' = applied /\ Turn(r, row)
    BY <1>7 DEF ApplyHistory, a, p, course
  <2>4. IsFiniteSet(attempts') /\ attempts' \in SUBSET Attempt
    BY <1>2, <2>1, <2>3, FS_AddElement
  <2>5. state' \in [Rows -> State \cup {Nothing}]
    BY <2>2, <2>3 DEF TypeInv, TypeOK
  <2> QED BY <2>3, <2>4, <2>5, TypeTurn DEF TypeInv, TypeOK
<1>8. CASE ApplyTranscript(r, row)
  <2> DEFINE a == NewAttempt(row, Nothing, Mapped[row], p)
  <2>1. a \in Attempt
    BY <1>1, <1>8, NewAttemptType, PayloadAssumption DEF ApplyTranscript, NewTranscriptRow, p
  <2>2. attempts' = attempts \cup {a} /\ applied' = applied \cup {row} /\ state' = state /\ Turn(r, row)
    BY <1>8 DEF ApplyTranscript, p
  <2> HIDE DEF a
  <2>3. IsFiniteSet(attempts') /\ attempts' \in SUBSET Attempt
    BY <1>2, <2>1, <2>2, FS_AddElement
  <2> QED BY <2>2, <2>3, TypeTurn DEF TypeInv, TypeOK
<1>9. CASE SkipRow(r, row)
  BY <1>2, <1>9, TypeTurn DEF SkipRow, TypeInv, TypeOK
<1> QED BY <1>3, <1>4, <1>5, <1>6, <1>7, <1>8, <1>9 DEF ApplyRow

LEMMA FinalizedType ==
  ASSUME TypeInv, NEW i \in Imports
  PROVE  Finalized(i) \in [Imports -> Snapshot \cup {Nothing}]
<1>1. Planner(i) \in {"BLOCKED", "READY_WITH_WARNINGS"}
  BY DEF Planner
<1>2. \A j \in Imports : Finalized(i)[j] \in Snapshot \cup {Nothing}
  BY <1>1 DEF Finalized, Snapshot, TypeInv, TypeOK
<1> QED BY <1>2 DEF Finalized

LEMMA TypeFinishApply ==
  ASSUME TypeInv, NEW r \in Requests, FinishApply(r)
  PROVE  TypeInv'
<1>1. request' \in [Requests -> Request] /\ RequestOK'
  BY TypeDone DEF FinishApply
<1>2. ReviewOf[request[r].review] \in Imports
  BY ImportAssumption, NothingIsAbsent DEF FinishApply, TypeInv, TypeOK, RequestOK
<1>3. snapshot' \in [Imports -> Snapshot \cup {Nothing}]
  BY <1>2, FinalizedType DEF FinishApply, TypeInv, TypeOK
<1>4. review' \in [Reviews -> ActiveStatus \cup {"APPLIED", Nothing}]
  BY DEF FinishApply, TypeInv, TypeOK
<1> QED BY <1>1, <1>3, <1>4 DEF FinishApply, TypeInv, TypeOK

LEMMA TypeAbort ==
  ASSUME TypeInv, NEW r \in Requests, Abort(r)
  PROVE  TypeInv'
<1>1. request' \in [Requests -> Request] /\ RequestOK'
  BY TypeDone DEF Abort, lock
<1>2. CASE writer = r
  <2>1. undo \in History /\ undo # Nothing
    BY <1>2, NothingIsAbsent DEF TypeInv, TypeOK
  <2> QED BY <1>1, <1>2, <2>1 DEF Abort, TypeInv, TypeOK, History, reviews
<1>3. CASE writer # r
  BY <1>1, <1>3 DEF Abort, TypeInv, TypeOK, lock, history, reviews
<1> QED BY <1>2, <1>3

LEMMA TypeNext == TypeInv /\ [Next]_vars => TypeInv'
<1> SUFFICES ASSUME TypeInv, [Next]_vars PROVE TypeInv'
  OBVIOUS
<1>1. CASE UNCHANGED vars
  BY <1>1 DEF TypeInv, TypeOK, RequestOK, vars, reviews, lock, history
<1>2. CASE Next
  <2>1. PICK r \in Requests :
          \/ \E v \in Reviews : \/ CheckCreate(r, v)
                                \/ \E row \in Rows : LoadUpdate(r, v, row)
                                \/ \E allow \in BOOLEAN : LoadApply(r, v, allow)
          \/ CommitCreate(r) \/ CommitUpdate(r) \/ LockApply(r)
          \/ \E row \in Rows : ApplyRow(r, row)
          \/ FinishApply(r) \/ Abort(r)
    BY <1>2 DEF Next
  <2>2. CASE \E v \in Reviews : \/ CheckCreate(r, v)
                                \/ \E row \in Rows : LoadUpdate(r, v, row)
                                \/ \E allow \in BOOLEAN : LoadApply(r, v, allow)
    BY <2>2, TypeReceive DEF CheckCreate, LoadUpdate, LoadApply
  <2> QED BY <2>1, <2>2, TypeCommitCreate, TypeCommitUpdate, TypeLockApply, TypeApplyRow,
             TypeFinishApply, TypeAbort
<1> QED BY <1>1, <1>2

\* Every variable of the review workflow keeps its type, in the open transaction
\* and in what its rollback would restore.
THEOREM TypeCorrect == Spec => []TypeOK
<1>1. TypeInv => TypeOK
  BY DEF TypeInv
<1> QED BY <1>1, TypeInit, TypeNext, PTL DEF Spec
-----------------------------------------------------------------------------
(* Imported rows, their states and their attempts *)

\* An attempt is a seeded one, the attempt of a page row's state, or the attempt
\* of an applied transcript row.
Linked(st, at, ap) ==
  /\ \A a \in at : \/ a.row = Nothing /\ a.snapshot = Nothing
                   \/ /\ a.row \in Rows /\ ImportOf[a.row] \in Progress
                      /\ st[a.row] # Nothing /\ st[a.row].attempt = a
                   \/ /\ a.row \in ap /\ a.snapshot = Nothing
  /\ \A row \in Rows : st[row] # Nothing => ImportOf[row] \in Progress
  /\ \A row \in ap : row \in Rows /\ ImportOf[row] \notin Progress
Held(st, at) ==
  \A row \in Rows : (st[row] # Nothing /\ st[row].attempt # Nothing) =>
    st[row].attempt \in at /\ st[row].attempt.row = row /\ st[row].validity = "RELIABLE"
Once(at) == \A a, b \in at : a.row # Nothing /\ a.row = b.row => a = b
Numbered(at) == \A a, b \in at : a.course = b.course /\ a.number = b.number => a = b
Excluded(st) ==
  \A x, y \in Rows :
    (/\ x # y /\ ImportOf[x] = ImportOf[y] /\ st[x] # Nothing /\ st[y] # Nothing
     /\ st[x].code = st[y].code /\ st[x].code # Nothing) =>
      /\ (st[x].status # st[y].status \/ st[x].term # st[y].term) =>
           st[x].validity = "EXCEPTION" /\ st[x].attempt = Nothing
      /\ st[x].attempt = Nothing \/ st[y].attempt = Nothing
Consistent(st, at, ap) ==
  Linked(st, at, ap) /\ Held(st, at) /\ Once(at) /\ Numbered(at) /\ Excluded(st)

Inv == /\ TypeInv
       /\ Consistent(state, attempts, applied)
       /\ undo # Nothing => Consistent(undo.state, undo.attempts, undo.applied)

LEMMA InvInit == Init => Inv
<1> SUFFICES ASSUME Init PROVE Inv
  OBVIOUS
<1> QED BY TypeInit, SeedAssumption
        DEF Init, Inv, Consistent, Linked, Held, Once, Numbered, Excluded

\* A row without a state is given one that holds no attempt.
LEMMA RecordKeeps ==
  ASSUME Inv, NEW row \in Rows, state[row] = Nothing, ImportOf[row] \in Progress,
         NEW p \in Payload, NEW x \in {"RELIABLE", "EXTERNAL_EVIDENCE", "EXCEPTION"},
         Record(row, p, x), ~Conflicts(row, p)
  PROVE  Consistent(state', attempts', applied')
<1> DEFINE s == StateOf(p, x, Nothing)
<1>1. s # Nothing /\ s.attempt = Nothing /\ s.code = p.code /\ s.status = p.status
        /\ s.term = p.term /\ s.validity = x
  <2>1. s \in State
    BY StateOfType
  <2> QED BY <2>1, AbsenceAssumption DEF StateOf
<1>2. state' = [state EXCEPT ![row] = s] /\ attempts' = attempts /\ applied' = applied
  BY DEF Record
<1>3. \A other \in Rows : state'[other] = IF other = row THEN s ELSE state[other]
  BY <1>2 DEF Inv, TypeInv, TypeOK
<1> HIDE DEF s
<1>4. Linked(state', attempts', applied')
  BY <1>1, <1>2, <1>3 DEF Inv, Consistent, Linked
<1>5. Held(state', attempts')
  BY <1>1, <1>2, <1>3 DEF Inv, Consistent, Held
<1>6. Excluded(state')
  <2>1. \A y \in Rows : (/\ y # row /\ ImportOf[y] = ImportOf[row] /\ state[y] # Nothing
                         /\ state[y].code = p.code /\ p.code # Nothing) =>
           state[y].status = p.status /\ state[y].term = p.term
    BY DEF Conflicts, Same, RowsOf
  <2> QED BY <1>1, <1>3, <2>1 DEF Inv, Consistent, Excluded
<1> QED BY <1>2, <1>4, <1>5, <1>6 DEF Inv, Consistent

LEMMA ConflictKeeps ==
  ASSUME Inv, NEW r \in Requests, NEW row \in Rows, ApplyConflict(r, row)
  PROVE  Consistent(state', attempts', applied')
<1> DEFINE p == Reviewed(r, row)
           same == Same(row, p.code)
           s == StateOf(p, "EXCEPTION", Nothing)
<1>0. p \in Payload
  BY ReviewedType DEF Inv
<1>1. s # Nothing /\ s.attempt = Nothing /\ s.code = p.code /\ s.validity = "EXCEPTION"
  <2>1. s \in State
    BY <1>0, StateOfType
  <2> QED BY <2>1, AbsenceAssumption DEF StateOf
<1>2. /\ state[row] = Nothing /\ ImportOf[row] \in Progress
      /\ attempts' = attempts \ {state[other].attempt : other \in same} /\ applied' = applied
  BY DEF ApplyConflict, CourseState
<1>3. \A other \in same : other \in Rows /\ other # row /\ state[other] \in State
        /\ state[other] # Nothing /\ ImportOf[other] = ImportOf[row]
        /\ state[other].code = p.code /\ p.code # Nothing
  BY <1>2 DEF Same, RowsOf, Inv, TypeInv, TypeOK
<1>4. \A other \in same :
        /\ state'[other].attempt = Nothing /\ state'[other].validity = "EXCEPTION"
        /\ state'[other].code = state[other].code /\ state'[other] # Nothing
  <2> SUFFICES ASSUME NEW other \in same
               PROVE /\ state'[other].attempt = Nothing /\ state'[other].validity = "EXCEPTION"
                     /\ state'[other].code = state[other].code /\ state'[other] # Nothing
    OBVIOUS
  <2>1. state'[other] = Withdrawn(state[other])
    BY <1>3 DEF ApplyConflict
  <2> QED BY <1>3, <2>1, WithdrawnType, AbsenceAssumption
<1>5. state'[row] = s /\ \A other \in Rows : other # row /\ other \notin same => state'[other] = state[other]
  BY DEF ApplyConflict
<1>6. \A other \in Rows : (ImportOf[other] = ImportOf[row] /\ state[other] # Nothing
         /\ state[other].code = p.code /\ p.code # Nothing) => other \in same
  BY DEF Same, RowsOf
<1> HIDE DEF p, s, same
<1>7. Linked(state', attempts', applied')
  <2>1. \A a \in attempts' : a \in attempts /\ \A other \in same : state[other].attempt # a
    BY <1>2
  <2>2. \A other \in Rows : state'[other] # Nothing => ImportOf[other] \in Progress
    BY <1>2, <1>3, <1>5 DEF Inv, Consistent, Linked
  <2>3. \A a \in attempts' : a.row \in Rows /\ state[a.row] # Nothing /\ state[a.row].attempt = a
          => state'[a.row] = state[a.row]
    BY <1>2, <1>5, <2>1
  <2> QED BY <1>2, <2>1, <2>2, <2>3 DEF Inv, Consistent, Linked
<1>8. Held(state', attempts')
  <2> SUFFICES ASSUME NEW o \in Rows, state'[o] # Nothing, state'[o].attempt # Nothing
               PROVE  /\ state'[o].attempt \in attempts' /\ state'[o].attempt.row = o
                      /\ state'[o].validity = "RELIABLE"
    BY DEF Held
  <2>1. o # row /\ o \notin same /\ state'[o] = state[o]
    BY <1>1, <1>4, <1>5
  <2>2. state[o].attempt \in attempts /\ state[o].attempt.row = o /\ state[o].validity = "RELIABLE"
    BY <2>1 DEF Inv, Consistent, Held
  <2>3. \A other \in same : state[other].attempt # state[o].attempt
    BY <1>3, <2>1, <2>2 DEF Inv, Consistent, Held
  <2> QED BY <1>2, <2>1, <2>2, <2>3
<1>9. Excluded(state')
  <2> SUFFICES ASSUME NEW x \in Rows, NEW y \in Rows, x # y, ImportOf[x] = ImportOf[y],
                      state'[x] # Nothing, state'[y] # Nothing,
                      state'[x].code = state'[y].code, state'[x].code # Nothing
               PROVE  /\ (state'[x].status # state'[y].status \/ state'[x].term # state'[y].term) =>
                           state'[x].validity = "EXCEPTION" /\ state'[x].attempt = Nothing
                      /\ state'[x].attempt = Nothing \/ state'[y].attempt = Nothing
    BY DEF Excluded
  <2>1. CASE x = row \/ x \in same
    BY <1>1, <1>4, <1>5, <2>1
  <2>2. CASE x # row /\ x \notin same
    <3>1. state'[x] = state[x]
      BY <1>5, <2>2
    <3>2. y # row /\ y \notin same
      BY <1>1, <1>3, <1>4, <1>5, <1>6, <2>2, <3>1
    <3>3. state'[y] = state[y]
      BY <1>5, <3>2
    <3> QED BY <3>1, <3>3 DEF Inv, Consistent, Excluded
  <2> QED BY <2>1, <2>2
<1> QED BY <1>2, <1>7, <1>8, <1>9 DEF Inv, Consistent, Once, Numbered

\* A row of its own code, without a state and without an attempt, is given a
\* reliable state with a new attempt.
LEMMA HistoryKeeps ==
  ASSUME Inv, NEW r \in Requests, NEW row \in Rows, ApplyHistory(r, row)
  PROVE  Consistent(state', attempts', applied')
<1> DEFINE p == Reviewed(r, row)
           course == request[r].seen[row].course
           a == NewAttempt(row, ImportOf[row], course, p)
           s == StateOf(p, "RELIABLE", a)
<1>1. p \in Payload /\ course \in Courses \cup {Nothing} /\ ImportOf[row] \in Imports
  BY ReviewedType, ImportAssumption DEF Inv, Entry
<1>2. a \in Attempt /\ a.row = row /\ a.course = course /\ a.number = NextNumber(course)
        /\ a.snapshot = ImportOf[row]
  BY <1>1, NewAttemptType DEF Inv, ApplyHistory, Countable, NewAttempt
<1>3. \A b \in attempts : b.course = course => b.number < NextNumber(course)
  BY NextNumberIsNew DEF Inv, TypeInv, TypeOK
<1>4. /\ state[row] = Nothing /\ ImportOf[row] \in Progress /\ Same(row, p.code) = {}
      /\ attempts' = attempts \cup {a} /\ state' = [state EXCEPT ![row] = s] /\ applied' = applied
  BY DEF ApplyHistory, CourseState
<1> HIDE DEF a
<1>5. s # Nothing /\ s.attempt = a /\ s.code = p.code /\ s.validity = "RELIABLE"
  <2>1. s \in State
    BY <1>1, <1>2, StateOfType
  <2> QED BY <2>1, AbsenceAssumption DEF StateOf
<1>6. \A other \in Rows : state'[other] = IF other = row THEN s ELSE state[other]
  BY <1>4 DEF Inv, TypeInv, TypeOK
<1>7. \A b \in attempts : b.row # row
  BY <1>4, NothingIsAbsent DEF Inv, Consistent, Linked
<1>8. \A y \in Rows : ImportOf[y] = ImportOf[row] /\ state[y] # Nothing => ~(state[y].code = p.code /\ p.code # Nothing)
  BY <1>4 DEF Same, RowsOf
<1>9. a # Nothing /\ \A b \in attempts : b.number \in Nat /\ a.number \in Nat
  BY <1>2, NothingIsAbsent DEF Inv, TypeInv, TypeOK, Attempt
<1> HIDE DEF s, p, course
<1>10. Linked(state', attempts', applied')
  BY <1>2, <1>4, <1>5, <1>6, <1>7 DEF Inv, Consistent, Linked
<1>11. Held(state', attempts')
  BY <1>2, <1>4, <1>5, <1>6 DEF Inv, Consistent, Held
<1>12. Once(attempts')
  BY <1>2, <1>4, <1>7 DEF Inv, Consistent, Once
<1>13. Numbered(attempts')
  <2> SUFFICES ASSUME NEW b \in attempts', NEW c \in attempts', b.course = c.course, b.number = c.number
               PROVE  b = c
    BY DEF Numbered
  <2>1. CASE b \in attempts /\ c \in attempts
    BY <2>1 DEF Inv, Consistent, Numbered
  <2>2. CASE b = a \/ c = a
    <3>1. \A d \in attempts : d.course = a.course => d.number # a.number
      <4> SUFFICES ASSUME NEW d \in attempts, d.course = a.course, d.number = a.number PROVE FALSE
        OBVIOUS
      <4>1. d.number < a.number /\ d.number \in Nat
        BY <1>2, <1>3, <1>9
      <4> QED BY <4>1
    <3> QED BY <2>2, <3>1, <1>4
  <2> QED BY <1>4, <2>1, <2>2
<1>14. Excluded(state')
  BY <1>5, <1>6, <1>8 DEF Inv, Consistent, Excluded
<1> QED BY <1>10, <1>11, <1>12, <1>13, <1>14 DEF Consistent

\* A transcript row that was not applied yet brings a new attempt.
LEMMA TranscriptKeeps ==
  ASSUME Inv, NEW r \in Requests, NEW row \in Rows, ApplyTranscript(r, row)
  PROVE  Consistent(state', attempts', applied')
<1> DEFINE p == Reviewed(r, row)
           course == Mapped[row]
           a == NewAttempt(row, Nothing, course, p)
<1>1. p \in Payload /\ course \in Courses /\ ImportOf[row] \notin Progress /\ row \notin applied
  BY ReviewedType, PayloadAssumption DEF Inv, ApplyTranscript, NewTranscriptRow
<1>2. a \in Attempt /\ a.row = row /\ a.course = course /\ a.number = NextNumber(course)
        /\ a.snapshot = Nothing
  BY <1>1, NewAttemptType DEF Inv, ApplyTranscript, NewTranscriptRow, NewAttempt
<1>3. \A b \in attempts : b.course = course => b.number < NextNumber(course)
  BY NextNumberIsNew DEF Inv, TypeInv, TypeOK
<1>4. attempts' = attempts \cup {a} /\ state' = state /\ applied' = applied \cup {row}
  BY DEF ApplyTranscript
<1> HIDE DEF a
<1>5. \A b \in attempts : b.row # row
  BY <1>1, NothingIsAbsent DEF Inv, Consistent, Linked
<1>6. a.number \in Nat /\ \A b \in attempts : b.number \in Nat
  BY <1>2 DEF Inv, TypeInv, TypeOK, Attempt
<1> HIDE DEF p, course
<1>7. Linked(state', attempts', applied')
  BY <1>1, <1>2, <1>4 DEF Inv, Consistent, Linked
<1>8. Held(state', attempts')
  BY <1>4 DEF Inv, Consistent, Held
<1>9. Once(attempts')
  BY <1>2, <1>4, <1>5 DEF Inv, Consistent, Once
<1>10. Numbered(attempts')
  <2> SUFFICES ASSUME NEW b \in attempts', NEW c \in attempts', b.course = c.course, b.number = c.number
               PROVE  b = c
    BY DEF Numbered
  <2>1. CASE b \in attempts /\ c \in attempts
    BY <2>1 DEF Inv, Consistent, Numbered
  <2>2. CASE b = a \/ c = a
    <3>1. \A d \in attempts : d.course = a.course => d.number # a.number
      <4> SUFFICES ASSUME NEW d \in attempts, d.course = a.course, d.number = a.number PROVE FALSE
        OBVIOUS
      <4>1. d.number < a.number /\ d.number \in Nat
        BY <1>2, <1>3, <1>6
      <4> QED BY <4>1
    <3> QED BY <2>2, <3>1, <1>4
  <2> QED BY <1>4, <2>1, <2>2
<1>11. Excluded(state')
  BY <1>4 DEF Inv, Consistent, Excluded
<1> QED BY <1>7, <1>8, <1>9, <1>10, <1>11 DEF Consistent

LEMMA InvApplyRow ==
  ASSUME Inv, NEW r \in Requests, NEW row \in Rows, ApplyRow(r, row)
  PROVE  Inv'
<1> DEFINE p == Reviewed(r, row)
<1>1. Consistent(state', attempts', applied') /\ Turn(r, row)
  <2>0. p \in Payload
    BY ReviewedType DEF Inv
  <2>1. CASE ApplyConflict(r, row)
    BY <2>1, ConflictKeeps DEF ApplyConflict
  <2>2. CASE ApplyException(r, row)
    BY <2>0, <2>2, RecordKeeps DEF ApplyException, CourseState
  <2>3. CASE ApplyDuplicate(r, row)
    BY <2>0, <2>3, RecordKeeps DEF ApplyDuplicate, CourseState
  <2>4. CASE ApplyEvidence(r, row)
    <3>1. ~Conflicts(row, p)
      BY <2>4 DEF ApplyEvidence, Conflicts
    <3> QED BY <2>0, <2>4, <3>1, RecordKeeps DEF ApplyEvidence, CourseState
  <2>5. CASE ApplyHistory(r, row)
    BY <2>5, HistoryKeeps, ZenonT(60) DEF ApplyHistory
  <2>6. CASE ApplyTranscript(r, row)
    BY <2>6, TranscriptKeeps DEF ApplyTranscript
  <2>7. CASE SkipRow(r, row)
    BY <2>7 DEF SkipRow, Inv
  <2> QED BY <2>1, <2>2, <2>3, <2>4, <2>5, <2>6, <2>7 DEF ApplyRow
<1>2. TypeInv'
  BY TypeApplyRow DEF Inv
<1>3. undo' = undo
  BY <1>1 DEF Turn
<1> QED BY <1>1, <1>2, <1>3 DEF Inv

LEMMA InvNext == Inv /\ [Next]_vars => Inv'
<1> SUFFICES ASSUME Inv, [Next]_vars PROVE Inv'
  OBVIOUS
<1>0. TypeInv'
  BY TypeNext DEF Inv
<1>1. CASE UNCHANGED <<lock, history>>
  BY <1>0, <1>1 DEF Inv, lock, history
<1>2. CASE UNCHANGED vars
  BY <1>1, <1>2 DEF vars
<1>3. CASE Next
  <2>1. PICK r \in Requests :
          \/ \E v \in Reviews : \/ CheckCreate(r, v)
                                \/ \E row \in Rows : LoadUpdate(r, v, row)
                                \/ \E allow \in BOOLEAN : LoadApply(r, v, allow)
          \/ CommitCreate(r) \/ CommitUpdate(r) \/ LockApply(r)
          \/ \E row \in Rows : ApplyRow(r, row)
          \/ FinishApply(r) \/ Abort(r)
    BY <1>3 DEF Next
  <2>2. CASE \E v \in Reviews : \/ CheckCreate(r, v)
                                \/ \E row \in Rows : LoadUpdate(r, v, row)
                                \/ \E allow \in BOOLEAN : LoadApply(r, v, allow)
    BY <2>2, <1>1, ZenonT(60) DEF CheckCreate, LoadUpdate, LoadApply, Receive
  <2>3. CASE CommitCreate(r) \/ CommitUpdate(r)
    BY <2>3, <1>1 DEF CommitCreate, CommitUpdate
  <2>4. CASE LockApply(r)
    <3> DEFINE h == [snapshot |-> snapshot, state |-> state, attempts |-> attempts, applied |-> applied]
    <3>1. h.state = state /\ h.attempts = attempts /\ h.applied = applied
      OBVIOUS
    <3>2. undo' = h /\ UNCHANGED <<state, attempts, applied>>
      BY <2>4 DEF LockApply
    <3> HIDE DEF h
    <3> QED BY <1>0, <3>1, <3>2 DEF Inv
  <2>5. CASE \E row \in Rows : ApplyRow(r, row)
    BY <2>5, InvApplyRow
  <2>6. CASE FinishApply(r)
    BY <1>0, <2>6 DEF FinishApply, Inv
  <2>7. CASE Abort(r) /\ writer = r
    <3>1. undo # Nothing
      BY <2>7, NothingIsAbsent DEF Inv, TypeInv, TypeOK
    <3> QED BY <1>0, <2>7, <3>1 DEF Abort, Inv
  <2>8. CASE Abort(r) /\ writer # r
    BY <1>1, <2>8 DEF Abort
  <2> QED BY <2>1, <2>2, <2>3, <2>4, <2>5, <2>6, <2>7, <2>8
<1> QED BY <1>2, <1>3

LEMMA InvAlways == Spec => []Inv
BY InvInit, InvNext, PTL DEF Spec

\* An imported row never has two course attempts, in the open transaction or
\* after its commit, whatever requests overlap, fail and are repeated.
THEOREM RowsAppliedOnce == Spec => []AppliedOnce
<1>1. Inv => AppliedOnce
  BY DEF Inv, Consistent, Once, AppliedOnce
<1> QED BY <1>1, InvAlways, PTL

\* Rows of one import that contradict each other are exceptions without an
\* attempt, and at most one row of a code counts, in any order of application.
THEOREM ConflictsAlwaysExcluded == Spec => []ConflictsExcluded
<1>1. Inv => ConflictsExcluded
  BY DEF Inv, Consistent, Excluded, ConflictsExcluded
<1> QED BY <1>1, InvAlways, PTL

\* Snapshot attempts and row states stay linked both ways.
THEOREM HistoryAlwaysTraceable == Spec => []HistoryTraceable
<1>1. Inv => HistoryTraceable
  BY NothingIsAbsent DEF Inv, Consistent, Linked, Held, HistoryTraceable
<1> QED BY <1>1, InvAlways, PTL

\* Attempts of one course keep different numbers though conflicts delete some.
THEOREM NumbersAlwaysUnique == Spec => []AttemptNumbersUnique
<1>1. Inv => AttemptNumbersUnique
  BY DEF Inv, Consistent, Numbered, AttemptNumbersUnique
<1> QED BY <1>1, InvAlways, PTL
-----------------------------------------------------------------------------
(* The committed rows implement the ledger *)

StandingIn(st, ap, row) ==
  IF st[row] = Nothing THEN (IF row \in ap THEN "history" ELSE "staged")
  ELSE IF st[row].validity = "EXCEPTION" THEN "exception"
  ELSE IF st[row].attempt # Nothing THEN "history" ELSE "evidence"
Moved(st, ap, st2, ap2) ==
  \A row \in Rows : <<StandingIn(st, ap, row), StandingIn(st2, ap2, row)>> \in Ledger!Move

\* What the open transaction did to a row since it took the lock is a move.
LedgerInv == Inv /\ (undo # Nothing => Moved(undo.state, undo.applied, state, applied))

\* The standings a row may go through are ordered.
LEMMA MoveOrder ==
  /\ \A x \in Ledger!Standing : <<x, x>> \in Ledger!Move
  /\ \A x, y, z \in Ledger!Standing :
       <<x, y>> \in Ledger!Move /\ <<y, z>> \in Ledger!Move => <<x, z>> \in Ledger!Move
  /\ \A x \in Ledger!Standing : <<"staged", x>> \in Ledger!Move /\ <<x, "exception">> \in Ledger!Move
BY DEF Ledger!Move, Ledger!Standing

LEMMA StandingType == \A st, ap, row : StandingIn(st, ap, row) \in Ledger!Standing
BY DEF StandingIn, Ledger!Standing

\* Applying a row moves the standing of its own row out of the staging area and
\* of other rows to an exception.
LEMMA ApplyRowMoves ==
  ASSUME Inv, NEW r \in Requests, NEW row \in Rows, ApplyRow(r, row)
  PROVE  Moved(state, applied, state', applied')
<1> SUFFICES ASSUME NEW o \in Rows
             PROVE  <<StandingIn(state, applied, o), StandingIn(state', applied', o)>> \in Ledger!Move
  BY DEF Moved
<1> USE MoveOrder, StandingType
<1> DEFINE p == Reviewed(r, row)
<1>1. CASE state'[o] = state[o] /\ (o \in applied' <=> o \in applied)
  BY <1>1 DEF StandingIn
<1>2. CASE state[o] = Nothing /\ o \notin applied
  BY <1>2 DEF StandingIn
<1>3. CASE state'[o] # Nothing /\ state'[o].validity = "EXCEPTION"
  BY <1>3 DEF StandingIn
<1>4. CourseState(r, row) => state[row] = Nothing /\ row \notin applied
  BY DEF CourseState, Inv, Consistent, Linked
<1>5. CASE o # row /\ ~ApplyConflict(r, row)
  <2>1. state'[o] = state[o] /\ (o \in applied' <=> o \in applied)
    BY <1>5 DEF ApplyRow, ApplyException, ApplyDuplicate, ApplyEvidence, ApplyHistory,
                ApplyTranscript, SkipRow, Record, Inv, TypeInv, TypeOK
  <2> QED BY <1>1, <2>1
<1>6. CASE o # row /\ ApplyConflict(r, row)
  <2>1. CASE o \in Same(row, p.code)
    <3>1. state[o] \in State /\ state'[o] = Withdrawn(state[o])
      BY <1>6, <2>1 DEF ApplyConflict, Same, Inv, TypeInv, TypeOK
    <3> QED BY <1>3, <3>1, WithdrawnType, AbsenceAssumption
  <2>2. CASE o \notin Same(row, p.code)
    BY <1>1, <1>6, <2>2 DEF ApplyConflict
  <2> QED BY <2>1, <2>2
<1>7. CASE o = row
  <2>1. CASE ApplyTranscript(r, row)
    <3>1. state[row] = Nothing /\ row \notin applied
      BY <2>1 DEF ApplyTranscript, NewTranscriptRow, Inv, Consistent, Linked
    <3> QED BY <1>2, <1>7, <3>1
  <2>2. CASE SkipRow(r, row)
    BY <1>1, <2>2, ZenonT(60) DEF SkipRow
  <2>3. CASE CourseState(r, row)
    BY <1>2, <1>4, <1>7, <2>3, ZenonT(60)
  <2> QED BY <2>1, <2>2, <2>3 DEF ApplyRow, ApplyConflict, ApplyException, ApplyDuplicate,
                                  ApplyEvidence, ApplyHistory
<1> QED BY <1>5, <1>6, <1>7

LEMMA LedgerInvNext == LedgerInv /\ [Next]_vars => LedgerInv'
<1> SUFFICES ASSUME LedgerInv, [Next]_vars PROVE LedgerInv'
  OBVIOUS
<1> USE MoveOrder, StandingType
<1>0. Inv'
  BY InvNext DEF LedgerInv
<1>1. CASE UNCHANGED <<lock, history>>
  BY <1>0, <1>1 DEF LedgerInv, lock, history
<1>2. CASE \E r \in Requests : LockApply(r)
  <2> DEFINE h == [snapshot |-> snapshot, state |-> state, attempts |-> attempts, applied |-> applied]
  <2>1. undo' = h /\ state' = state /\ applied' = applied
    BY <1>2 DEF LockApply
  <2>2. undo'.state = state' /\ undo'.applied = applied'
    BY <2>1
  <2>3. Moved(undo'.state, undo'.applied, state', applied')
    BY <2>2 DEF Moved
  <2> QED BY <1>0, <2>3 DEF LedgerInv
<1>3. CASE \E r \in Requests, row \in Rows : ApplyRow(r, row)
  <2>1. Moved(state, applied, state', applied') /\ undo' = undo
    <3>1. PICK r \in Requests, row \in Rows : ApplyRow(r, row)
      BY <1>3
    <3>2. Turn(r, row)
      BY <3>1 DEF ApplyRow, ApplyConflict, ApplyException, ApplyDuplicate,
         ApplyEvidence, ApplyHistory, ApplyTranscript, SkipRow
    <3>3. Moved(state, applied, state', applied')
      BY <3>1, ApplyRowMoves DEF LedgerInv
    <3> QED BY <3>2, <3>3 DEF Turn
  <2> QED BY <1>0, <2>1 DEF LedgerInv, Moved
<1>4. CASE \E r \in Requests : FinishApply(r) \/ (Abort(r) /\ writer = r)
  <2>1. undo' = Nothing
    BY <1>4 DEF FinishApply, Abort
  <2> QED BY <1>0, <2>1 DEF LedgerInv
<1> QED BY <1>1, <1>2, <1>3, <1>4, ZenonT(60) DEF Next, vars, CheckCreate, LoadUpdate, LoadApply, Receive,
                                      CommitCreate, CommitUpdate, Abort

LEMMA LedgerInvAlways == Spec => []LedgerInv
<1>1. Init => LedgerInv
  <2>1. Init => Inv
    BY InvInit
  <2>2. Init => undo = Nothing
    BY DEF Init
  <2> QED BY <2>1, <2>2 DEF LedgerInv
<1> QED BY <1>1, LedgerInvNext, PTL DEF Spec

LEMMA StandingOfCommitted ==
  ASSUME Inv
  PROVE  \A row \in Rows :
           StandingOf(row) = IF undo = Nothing THEN StandingIn(state, applied, row)
                             ELSE StandingIn(undo.state, undo.applied, row)
<1> DEFINE h == [snapshot |-> snapshot, state |-> state, attempts |-> attempts, applied |-> applied]
<1>1. h.state = state /\ h.applied = applied
  OBVIOUS
<1> HIDE DEF h
<1>2. Committed = IF undo = Nothing THEN h ELSE undo
  BY ZenonT(60) DEF h, Committed, Inv, TypeInv, TypeOK
<1>3. \A row : StandingOf(row) = StandingIn(Committed.state, Committed.applied, row)
  BY ZenonT(60) DEF StandingOf, StandingIn
<1> QED BY <1>1, <1>2, <1>3

\* A step leaves the committed standings alone or, when an application commits,
\* moves them as the ledger allows.
LEMMA LedgerStep ==
  ASSUME LedgerInv, LedgerInv', [Next]_vars
  PROVE  \A row \in Rows : <<StandingOf(row), StandingOf(row)'>> \in Ledger!Move
<1> SUFFICES ASSUME NEW row \in Rows PROVE <<StandingOf(row), StandingOf(row)'>> \in Ledger!Move
  OBVIOUS
<1> USE MoveOrder, StandingType
<1> DEFINE now == IF undo = Nothing THEN StandingIn(state, applied, row)
                  ELSE StandingIn(undo.state, undo.applied, row)
<1>1. StandingOf(row) = now
  BY StandingOfCommitted DEF LedgerInv
<1>2. StandingOf(row)' = now'
  <2> DEFINE h == [snapshot |-> snapshot, state |-> state, attempts |-> attempts, applied |-> applied]
  <2>1. h'.state = state' /\ h'.applied = applied'
    OBVIOUS
  <2> HIDE DEF h
  <2>2. Committed' = IF undo' = Nothing THEN h' ELSE undo'
    BY DEF h, Committed, LedgerInv, Inv, TypeInv, TypeOK
  <2>3. StandingOf(row)' = StandingIn(Committed'.state, Committed'.applied, row)
    BY DEF StandingOf, StandingIn
  <2> QED BY <2>1, <2>2, <2>3
<1>3. CASE UNCHANGED <<lock, history>>
  BY <1>1, <1>2, <1>3 DEF lock, history
<1>4. CASE \E r \in Requests : LockApply(r)
  <2> DEFINE h == [snapshot |-> snapshot, state |-> state, attempts |-> attempts, applied |-> applied]
  <2>1. undo' = h /\ state' = state /\ applied' = applied /\ writer = Nothing /\ writer' # Nothing
    BY <1>4, NothingIsAbsent DEF LockApply
  <2>2. undo = Nothing /\ undo' # Nothing
    BY <2>1 DEF LedgerInv, Inv, TypeInv, TypeOK
  <2>3. undo'.state = state /\ undo'.applied = applied
    BY <2>1
  <2> QED BY <1>1, <1>2, <2>2, <2>3
<1>5. CASE \E r \in Requests, o \in Rows : ApplyRow(r, o)
  <2>1. undo' = undo /\ writer # Nothing
    BY <1>5, NothingIsAbsent DEF ApplyRow, ApplyConflict, ApplyException, ApplyDuplicate,
       ApplyEvidence, ApplyHistory, ApplyTranscript, SkipRow, Turn
  <2>2. undo # Nothing
    BY <2>1 DEF LedgerInv, Inv, TypeInv, TypeOK
  <2> QED BY <1>1, <1>2, <2>1, <2>2
<1>6. CASE \E r \in Requests : FinishApply(r)
  <2>1. undo' = Nothing /\ state' = state /\ applied' = applied /\ writer # Nothing
    BY <1>6, NothingIsAbsent DEF FinishApply
  <2>2. undo # Nothing
    BY <2>1 DEF LedgerInv, Inv, TypeInv, TypeOK
  <2> QED BY <1>1, <1>2, <2>1, <2>2 DEF LedgerInv, Moved
<1>7. CASE \E r \in Requests : Abort(r) /\ writer = r
  <2>1. undo' = Nothing /\ state' = undo.state /\ applied' = undo.applied /\ writer # Nothing
    BY <1>7, NothingIsAbsent DEF Abort
  <2>2. undo # Nothing
    BY <2>1 DEF LedgerInv, Inv, TypeInv, TypeOK
  <2> QED BY <1>1, <1>2, <2>1, <2>2
<1> QED BY <1>3, <1>4, <1>5, <1>6, <1>7 DEF Next, vars, CheckCreate, LoadUpdate, LoadApply, Receive,
                                            CommitCreate, CommitUpdate, Abort

\* The review workflow implements CourseLedger: what other requests and the
\* next start read of an imported row changes only when an application commits,
\* out of the staging area once, and afterwards only to an exception.
THEOREM ImplementsLedger == Spec => LedgerSpec
<1> DEFINE led == [row \in Rows |-> StandingOf(row)]
<1>1. Init => Ledger!Init
  <2> SUFFICES ASSUME Init PROVE Ledger!Init
    OBVIOUS
  <2>1. Inv /\ undo = Nothing
    BY InvInit DEF Init
  <2>2. \A row \in Rows : StandingOf(row) = "staged"
    BY <2>1, StandingOfCommitted DEF StandingIn, Init
  <2> QED BY <2>2 DEF Ledger!Init
<1>2. LedgerInv /\ LedgerInv' /\ [Next]_vars => [Ledger!Next]_led
  <2> SUFFICES ASSUME LedgerInv, LedgerInv', [Next]_vars PROVE Ledger!Next
    OBVIOUS
  <2>1. \A row \in Rows : led[row] = StandingOf(row) /\ led'[row] = StandingOf(row)'
    OBVIOUS
  <2>2. \A row \in Rows : StandingOf(row)' \in Ledger!Standing
    BY DEF StandingOf, Ledger!Standing
  <2>3. led' \in [Rows -> Ledger!Standing]
    BY <2>2
  <2>4. \A row \in Rows : <<led[row], led'[row]>> \in Ledger!Move
    BY <2>1, LedgerStep
  <2> QED BY <2>3, <2>4 DEF Ledger!Next
<1> QED BY <1>1, <1>2, LedgerInvAlways, PTL DEF Spec, LedgerSpec, Ledger!Spec
-----------------------------------------------------------------------------
(* The active snapshot *)

ActiveIn(sn, i) == sn[i] # Nothing /\ sn[i].active
Sole(sn) == /\ \A i \in Imports : sn[i] # Nothing => i \in Verified
            /\ \A i, j \in Imports : ActiveIn(sn, i) /\ ActiveIn(sn, j) => i = j
\* An open transaction did not activate or deactivate a snapshot yet, and one
\* that inserted its import's snapshot finds it inactive.
ActiveInv ==
  /\ TypeInv /\ Sole(snapshot)
  /\ undo # Nothing =>
       /\ Sole(undo.snapshot)
       /\ \A i \in Imports : ActiveIn(undo.snapshot, i) <=> ActiveIn(snapshot, i)
       /\ request[writer].reused \/ ~ActiveIn(snapshot, ReviewOf[request[writer].review])

\* Only the writer's thread matters to the invariant.
LEMMA ActiveOther ==
  ASSUME ActiveInv, TypeInv', UNCHANGED <<lock, snapshot>>, NEW r \in Requests, NEW q,
         request' = [request EXCEPT ![r] = q], r # writer
  PROVE  ActiveInv'
<1>1. undo # Nothing => request'[writer] = request[writer]
  BY DEF ActiveInv, TypeInv, TypeOK
<1> QED BY <1>1 DEF ActiveInv, Sole, ActiveIn, lock

LEMMA ActiveLock ==
  ASSUME ActiveInv, NEW r \in Requests, LockApply(r)
  PROVE  ActiveInv'
<1> DEFINE i == ReviewOf[request[r].review]
           b == (snapshot[i] # Nothing)
           u == [request[r] EXCEPT !.reused = b]
           h == [snapshot |-> snapshot, state |-> state, attempts |-> attempts, applied |-> applied]
<1>0. request[r] \in Request /\ i \in Imports
  BY ImportAssumption DEF LockApply, ActiveInv, TypeInv, TypeOK, RequestOK
<1>1. u.review = request[r].review /\ u.reused = b
  BY <1>0 DEF Request
<1>2. undo' = h /\ writer' = r /\ request' = [request EXCEPT ![r] = u]
  BY DEF LockApply
<1>3. undo'.snapshot = snapshot
  BY <1>2
<1>4. request'[writer'].reused = b /\ ReviewOf[request'[writer'].review] = i
  <2> HIDE DEF u, b
  <2> QED BY <1>1, <1>2 DEF ActiveInv, TypeInv, TypeOK
<1>5. \A j \in Imports : snapshot'[j] = snapshot[j]
        \/ (snapshot[j] = Nothing /\ j \in Verified /\ ~ActiveIn(snapshot', j))
  <2> SUFFICES ASSUME NEW j \in Imports, snapshot'[j] # snapshot[j]
               PROVE  snapshot[j] = Nothing /\ j \in Verified /\ ~ActiveIn(snapshot', j)
    OBVIOUS
  <2>1. /\ i \in Verified /\ snapshot[i] = Nothing
        /\ snapshot' = [snapshot EXCEPT ![i] = [active |-> FALSE, planner |-> "BLOCKED"]]
    BY DEF LockApply
  <2>2. j = i /\ snapshot'[i] = [active |-> FALSE, planner |-> "BLOCKED"]
    BY <2>1 DEF ActiveInv, TypeInv, TypeOK
  <2> QED BY <2>1, <2>2 DEF ActiveIn
<1>6. b \/ ~ActiveIn(snapshot', i)
  BY <1>0, <1>5 DEF ActiveIn
<1>7. Sole(snapshot')
  BY <1>5 DEF ActiveInv, Sole, ActiveIn
<1>8. \A j \in Imports : ActiveIn(snapshot, j) <=> ActiveIn(snapshot', j)
  BY <1>5 DEF ActiveIn
<1>9. TypeInv'
  BY TypeLockApply DEF ActiveInv
<1> QED
  <2> HIDE DEF b, i
  <2>1. Sole(undo'.snapshot)
    BY <1>3 DEF ActiveInv
  <2> QED BY <1>3, <1>4, <1>6, <1>7, <1>8, <1>9, <2>1 DEF ActiveInv

\* An application that finishes activates its new snapshot instead of all
\* others, or leaves the active one as it is.
LEMMA ActiveFinish ==
  ASSUME ActiveInv, NEW r \in Requests, FinishApply(r)
  PROVE  /\ ActiveInv'
         /\ (\E i \in Imports : ActiveIn(snapshot, i)) => \E i \in Imports : ActiveIn(snapshot', i)
<1> DEFINE i == ReviewOf[request[r].review]
<1>1. writer = r /\ undo # Nothing /\ i \in Imports
  BY ImportAssumption, NothingIsAbsent DEF FinishApply, ActiveInv, TypeInv, TypeOK, RequestOK
<1>2. TypeInv' /\ undo' = Nothing
  BY TypeFinishApply DEF FinishApply, ActiveInv
<1>3. CASE snapshot' = snapshot
  BY <1>2, <1>3 DEF ActiveInv, Sole, ActiveIn
<1>4. CASE snapshot' # snapshot
  <2>1. /\ snapshot[i] # Nothing /\ ~request[r].reused
        /\ snapshot' = Finalized(i)
    BY <1>4 DEF FinishApply
  <2>2. ~ActiveIn(snapshot, i)
    BY <1>1, <2>1 DEF ActiveInv
  <2> DEFINE new == [active |-> Reliable(i) # {}, planner |-> Planner(i)]
  <2>3. new \in Snapshot
    BY DEF Planner, Snapshot
  <2>4. snapshot'[i] = new /\ new # Nothing /\ new.active = (Reliable(i) # {})
    BY <1>1, <2>1, <2>3, AbsenceAssumption DEF Finalized
  <2> HIDE DEF new
  <2>5. CASE Reliable(i) = {}
    <3>1. ~ActiveIn(snapshot', i)
      BY <2>4, <2>5 DEF ActiveIn
    <3>2. \A j \in Imports : j # i => snapshot'[j] = snapshot[j]
      BY <2>1, <2>5 DEF Finalized
    <3>3. \A j \in Imports : ActiveIn(snapshot', j) <=> ActiveIn(snapshot, j)
      BY <2>2, <3>1, <3>2 DEF ActiveIn
    <3>4. Sole(snapshot')
      BY <2>1, <3>2, <3>3 DEF ActiveInv, Sole
    <3> QED BY <1>2, <3>3, <3>4 DEF ActiveInv
  <2>6. CASE Reliable(i) # {}
    <3>1. ActiveIn(snapshot', i)
      BY <2>4, <2>6 DEF ActiveIn
    <3>2. \A j \in Imports : j # i => snapshot'[j] =
            IF snapshot[j] # Nothing THEN [active |-> FALSE, planner |-> snapshot[j].planner]
            ELSE snapshot[j]
      BY <2>1, <2>6 DEF Finalized
    <3>3. \A j \in Imports : j # i => ~ActiveIn(snapshot', j)
                            /\ (snapshot'[j] # Nothing => snapshot[j] # Nothing)
      <4> SUFFICES ASSUME NEW j \in Imports, j # i
                   PROVE  ~ActiveIn(snapshot', j) /\ (snapshot'[j] # Nothing => snapshot[j] # Nothing)
        OBVIOUS
      <4>1. CASE snapshot[j] = Nothing
        BY <3>2, <4>1 DEF ActiveIn
      <4>2. CASE snapshot[j] # Nothing
        <5>1. snapshot'[j] = [active |-> FALSE, planner |-> snapshot[j].planner]
          BY <3>2, <4>2
        <5>2. snapshot'[j].active = FALSE
          BY <5>1
        <5> QED BY <4>2, <5>2 DEF ActiveIn
      <4> QED BY <4>1, <4>2
    <3>4. Sole(snapshot')
      BY <2>1, <3>3 DEF ActiveInv, Sole
    <3> QED BY <1>1, <1>2, <3>1, <3>4 DEF ActiveInv
  <2> QED BY <2>5, <2>6
<1> QED BY <1>3, <1>4

\* Steps keep the invariant, and an active snapshot stays or is replaced.
LEMMA ActiveNext ==
  ASSUME ActiveInv, [Next]_vars
  PROVE  /\ ActiveInv'
         /\ (\E i \in Imports : ActiveIn(snapshot, i)) => \E i \in Imports : ActiveIn(snapshot', i)
<1>0. TypeInv'
  BY TypeNext DEF ActiveInv
<1>1. CASE UNCHANGED vars
  BY <1>0, <1>1 DEF vars, lock, history, ActiveInv, Sole, ActiveIn
<1>2. CASE Next
  <2>1. PICK r \in Requests :
          \/ \E v \in Reviews : \/ CheckCreate(r, v)
                                \/ \E row \in Rows : LoadUpdate(r, v, row)
                                \/ \E allow \in BOOLEAN : LoadApply(r, v, allow)
          \/ CommitCreate(r) \/ CommitUpdate(r) \/ LockApply(r)
          \/ \E row \in Rows : ApplyRow(r, row)
          \/ FinishApply(r) \/ Abort(r)
    BY <1>2 DEF Next
  <2>2. CASE \E v \in Reviews : \/ CheckCreate(r, v)
                                \/ \E row \in Rows : LoadUpdate(r, v, row)
                                \/ \E allow \in BOOLEAN : LoadApply(r, v, allow)
    <3>1. request[r].op = "idle" /\ UNCHANGED <<lock, snapshot>>
            /\ \E q : request' = [request EXCEPT ![r] = q]
      BY <2>2 DEF CheckCreate, LoadUpdate, LoadApply, Receive, history
    <3>2. r # writer
      BY <3>1, NothingIsAbsent, ZenonT(60) DEF ActiveInv, TypeInv, RequestOK
    <3> QED BY <1>0, <3>1, <3>2, ActiveOther
  <2>3. CASE CommitCreate(r) \/ CommitUpdate(r) \/ (Abort(r) /\ writer # r)
    <3>1. r # writer /\ UNCHANGED <<lock, snapshot>> /\ request' = [request EXCEPT ![r] = Idle]
      BY <2>3, NothingIsAbsent DEF CommitCreate, CommitUpdate, Abort, Done, history
    <3> QED BY <1>0, <3>1, ActiveOther
  <2>4. CASE LockApply(r)
    <3>1. ActiveInv'
      BY <2>4, ActiveLock
    <3>2. undo'.snapshot = snapshot /\ undo' # Nothing
      <4> DEFINE h == [snapshot |-> snapshot, state |-> state, attempts |-> attempts, applied |-> applied]
      <4>1. undo' = h /\ writer' # Nothing
        BY <2>4, NothingIsAbsent DEF LockApply
      <4>2. undo' # Nothing
        BY <1>0, <4>1 DEF TypeInv, TypeOK
      <4> QED BY <4>1, <4>2
    <3>3. \A i \in Imports : ActiveIn(undo'.snapshot, i) <=> ActiveIn(snapshot', i)
      BY <3>1, <3>2 DEF ActiveInv
    <3> QED BY <3>1, <3>2, <3>3
  <2>5. CASE \E row \in Rows : ApplyRow(r, row)
    <3>1. UNCHANGED <<request, writer, undo, snapshot>>
      BY <2>5 DEF ApplyRow, ApplyConflict, ApplyException, ApplyDuplicate,
         ApplyEvidence, ApplyHistory, ApplyTranscript, SkipRow, Turn
    <3> QED BY <1>0, <3>1 DEF ActiveInv, Sole, ActiveIn
  <2>6. CASE FinishApply(r)
    BY <2>6, ActiveFinish
  <2>7. CASE Abort(r) /\ writer = r
    <3>1. undo # Nothing
      BY <2>7, NothingIsAbsent DEF ActiveInv, TypeInv, TypeOK
    <3>2. undo' = Nothing /\ snapshot' = undo.snapshot
      BY <2>7 DEF Abort
    <3> QED BY <1>0, <3>1, <3>2 DEF ActiveInv, Sole, ActiveIn
  <2> QED BY <2>1, <2>2, <2>3, <2>4, <2>5, <2>6, <2>7
<1> QED BY <1>1, <1>2

LEMMA ActiveAlways == Spec => []ActiveInv
<1>1. Init => ActiveInv
  BY TypeInit DEF Init, ActiveInv, Sole, ActiveIn
<1>2. ActiveInv /\ [Next]_vars => ActiveInv'
  BY ActiveNext
<1> QED BY <1>1, <1>2, PTL DEF Spec

\* One snapshot at most is active, and it is one of a verified import.
THEOREM OneActive == Spec => []OneActiveSnapshot
<1>1. ActiveInv => OneActiveSnapshot
  BY DEF ActiveInv, Sole, ActiveIn, OneActiveSnapshot, Active
<1> QED BY <1>1, ActiveAlways, PTL

\* A student with an active snapshot never falls back to the mock history.
THEOREM ActiveKept == Spec => ActiveNeverLost
<1>1. ActiveInv /\ [Next]_vars => [Active # {} => Active' # {}]_vars
  <2> SUFFICES ASSUME ActiveInv, [Next]_vars, Active # {} PROVE Active' # {}
    OBVIOUS
  <2>1. \E i \in Imports : ActiveIn(snapshot, i)
    BY DEF Active, ActiveIn
  <2>2. \E i \in Imports : ActiveIn(snapshot', i)
    BY <2>1, ActiveNext
  <2> QED BY <2>2 DEF Active, ActiveIn
<1> QED BY <1>1, ActiveAlways, PTL DEF Spec, ActiveNeverLost
=============================================================================
