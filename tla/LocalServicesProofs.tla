------------------------- MODULE LocalServicesProofs -------------------------
(***************************************************************************)
(* What each of the local services keeps, in every behaviour of their      *)
(* composition: a behaviour of the composition is one of each service, as  *)
(* every step is a step of one service and leaves the others alone.        *)
(***************************************************************************)
EXTENDS LocalServices, FiniteSetTheorems, SequenceTheorems, WellFoundedInduction, TLAPS

LEMMA EachServiceSteps ==
  [LocalNext]_localVars =>
    /\ [Removal!Next]_(Removal!vars) /\ [Runtime!Next]_(Runtime!vars)
    /\ [Pairing!Next]_(Pairing!vars) /\ [Boundary!Next]_(Boundary!vars)
    /\ [Migration!Next]_(Migration!vars) /\ [Ownership!Next]_(Ownership!vars) /\ [Next]_vars
<1> SUFFICES ASSUME [LocalNext]_localVars
             PROVE  /\ [Removal!Next]_(Removal!vars) /\ [Runtime!Next]_(Runtime!vars)
                    /\ [Pairing!Next]_(Pairing!vars) /\ [Boundary!Next]_(Boundary!vars)
                    /\ [Migration!Next]_(Migration!vars) /\ [Ownership!Next]_(Ownership!vars) /\ [Next]_vars
  OBVIOUS
<1> USE DEF removalVars, Removal!vars, runtimeVars, Runtime!vars, Runtime!supervisor, pairingVars, Pairing!vars,
          boundaryVars, Boundary!vars, migrationVars, Migration!vars, ownershipVars, Ownership!vars
<1>1. CASE Removing
  BY <1>1 DEF Removing
<1>2. CASE Running
  BY <1>2 DEF Running
<1>3. CASE PairingStep
  BY <1>3 DEF PairingStep
<1>4. CASE Guarding
  BY <1>4 DEF Guarding
<1>5. CASE Migrating
  BY <1>5 DEF Migrating
<1>6. CASE StagingStep
  BY <1>6 DEF StagingStep
<1>7. CASE OwnershipStep
  BY <1>7 DEF OwnershipStep
<1>8. CASE UNCHANGED localVars
  BY <1>8 DEF localVars
<1>9. QED
  BY <1>1, <1>2, <1>3, <1>4, <1>5, <1>6, <1>7, <1>8 DEF LocalNext, Done

\* Every behaviour of the composition is one of each service.
LEMMA EachServiceRuns ==
  LocalSpec => /\ Removal!Spec /\ Runtime!Spec /\ Pairing!Spec /\ Boundary!Spec
               /\ Migration!Spec /\ Ownership!Spec /\ Spec
<1>1. LocalInit => /\ Removal!Init /\ Runtime!Init /\ Pairing!Init /\ Boundary!Init
                   /\ Migration!Init /\ Ownership!Init /\ Init
  BY DEF LocalInit
<1>2. QED
  BY <1>1, EachServiceSteps, PTL
  DEF LocalSpec, Removal!Spec, Runtime!Spec, Pairing!Spec, Boundary!Spec, Migration!Spec, Ownership!Spec, Spec
-----------------------------------------------------------------------------
(* The boundary of the local API *)

\* The entry that the i-th request let through has made in the table.
EntryOf(i) == [nonce |-> accepted[i].request.nonce, used |-> accepted[i].at, turn |-> i]
BoundaryTyped ==
  /\ requestClock \in Nat
  /\ accepted \in Seq([request : Received, at : Nat])
\* A request was let through while its timestamp was good.
InSkew ==
  \A i \in DOMAIN accepted :
    LET sent == accepted[i].request.sent IN
    /\ accepted[i].at <= requestClock
    /\ sent - accepted[i].at <= Skew /\ accepted[i].at - sent <= Skew
\* The table holds entries of requests let through, and all of them but those that
\* have expired or that MaxNonces others have followed.
TableIsRight ==
  /\ \A e \in nonces : e.turn \in DOMAIN accepted /\ e = EntryOf(e.turn)
  /\ \A i \in DOMAIN accepted :
       \/ EntryOf(i) \in nonces
       \/ accepted[i].at + NonceTTL <= requestClock
       \/ Len(accepted) - i >= MaxNonces
BoundaryInv == BoundaryTyped /\ InSkew /\ TableIsRight /\ ReplayWindow

LEMMA BoundaryNumbers ==
  /\ Skew \in Nat /\ NonceTTL \in Nat /\ 2 * Skew <= NonceTTL /\ MaxNonces \in Nat
  /\ \A r \in Received : r.sent \in Int /\ r.nonce \in Nat
  BY ServiceConstants DEF Boundary!RequestAssumption, Boundary!RequestType

\* The instance has the standard cardinality.
LEMMA BoundaryCardinality == \A S : Boundary!Cardinality(S) = Cardinality(S)
  BY DEF Boundary!Cardinality, Boundary!IsFiniteSet, Cardinality, IsFiniteSet

LEMMA BoundaryInit == Boundary!Init => BoundaryInv
  BY DEF Boundary!Init, BoundaryInv, BoundaryTyped, InSkew, TableIsRight, ReplayWindow, Boundary!ReplayWindow

LEMMA AcceptedTyped ==
  ASSUME BoundaryTyped, NEW i \in DOMAIN accepted
  PROVE  i \in Nat /\ i <= Len(accepted) /\ i >= 1 /\ accepted[i].at \in Nat /\ accepted[i].request \in Received
<1>1. DOMAIN accepted = 1..Len(accepted) /\ Len(accepted) \in Nat
  BY DEF BoundaryTyped
<1>2. accepted[i] \in [request : Received, at : Nat]
  BY <1>1, ElementOfSeq, Zenon DEF BoundaryTyped
<1>3. QED
  BY <1>1, <1>2

\* What pruning takes out of the table has expired, or MaxNonces entries follow it.
LEMMA PrunedIsOld ==
  ASSUME BoundaryInv, NEW i \in DOMAIN accepted, EntryOf(i) \in nonces, EntryOf(i) \notin Boundary!Pruned(nonces)
  PROVE  accepted[i].at + NonceTTL <= requestClock \/ Len(accepted) - i >= MaxNonces
<1> DEFINE later == Boundary!Younger(Boundary!Live(nonces), EntryOf(i))
           turns == (i + 1)..Len(accepted)
<1> USE DEF BoundaryInv, BoundaryTyped
<1>1. DOMAIN accepted = 1..Len(accepted) /\ Len(accepted) \in Nat
  OBVIOUS
<1>2. i \in Nat /\ i <= Len(accepted) /\ i >= 1 /\ accepted[i].at \in Nat /\ requestClock \in Nat
  BY AcceptedTyped
<1>3. EntryOf(i).turn = i /\ EntryOf(i).used = accepted[i].at
  BY DEF EntryOf
<1>4. CASE EntryOf(i) \notin Boundary!Live(nonces)
  <2>1. ~ (accepted[i].at + NonceTTL > requestClock)
    BY <1>3, <1>4 DEF Boundary!Live
  <2>2. QED
    BY <2>1, <1>2, BoundaryNumbers, SMTT(60)
<1>5. CASE EntryOf(i) \in Boundary!Live(nonces)
  <2>2. ~ (Cardinality(later) < MaxNonces)
    BY <1>5, BoundaryCardinality DEF Boundary!Pruned
  <2>3. \A f \in later : f.turn \in DOMAIN accepted /\ f.turn > i /\ f = EntryOf(f.turn)
    BY <1>3 DEF TableIsRight, Boundary!Live, Boundary!Younger
  <2>4. [f \in later |-> f.turn] \in Injection(later, turns)
    BY <1>1, <1>2, <2>3 DEF Injection, IsInjective
  <2>5. i + 1 \in Int /\ Len(accepted) \in Int
    BY <1>1, <1>2
  <2>6. IsFiniteSet(turns) /\ Cardinality(turns) = (IF i + 1 > Len(accepted) THEN 0 ELSE Len(accepted) - (i + 1) + 1)
    BY <2>5, FS_Interval
  <2>7. Cardinality(turns) = Len(accepted) - i
    <3> HIDE DEF turns
    <3> QED BY <1>1, <1>2, <2>6, SMTT(60)
  <2>8. Cardinality(later) <= Cardinality(turns) /\ IsFiniteSet(later)
    BY <2>4, <2>6, FS_Injection
  <2>9. QED
    BY <1>1, <1>2, <2>2, <2>7, <2>8, BoundaryNumbers, FS_CardinalityType
<1>6. QED
  BY <1>4, <1>5

LEMMA BoundaryPass ==
  ASSUME BoundaryInv, NEW r \in Received, Boundary!PassExtension(r)
  PROVE  BoundaryInv'
<1> PICK n : n = Len(accepted) + 1
  OBVIOUS
<1> PICK new : new = [request |-> r, at |-> requestClock]
  OBVIOUS
<1>1. /\ accepted \in Seq([request : Received, at : Nat]) /\ Len(accepted) \in Nat
      /\ DOMAIN accepted = 1..Len(accepted) /\ requestClock \in Nat
  BY DEF BoundaryInv, BoundaryTyped
<1>2. /\ accepted' = Append(accepted, new) /\ requestClock' = requestClock
      /\ nonces' = Boundary!Pruned(nonces) \cup {[nonce |-> r.nonce, used |-> requestClock, turn |-> n]}
      /\ ~ Boundary!Uses(Boundary!Pruned(nonces), r.nonce)
  BY DEF Boundary!PassExtension
<1>3. new \in [request : Received, at : Nat]
  BY <1>1
<1>4. /\ accepted' \in Seq([request : Received, at : Nat]) /\ Len(accepted') = n
      /\ DOMAIN accepted' = 1..n /\ accepted'[n] = new
      /\ \A i \in DOMAIN accepted : accepted'[i] = accepted[i] /\ EntryOf(i)' = EntryOf(i)
  BY <1>1, <1>2, <1>3 DEF EntryOf
<1>5. EntryOf(n)' = [nonce |-> r.nonce, used |-> requestClock, turn |-> n]
  BY <1>4 DEF EntryOf
<1>6. BoundaryTyped'
  BY <1>1, <1>2, <1>4 DEF BoundaryTyped
<1>7. ~ (r.sent - requestClock > Skew) /\ ~ (requestClock - r.sent > Skew)
  BY DEF Boundary!PassExtension, Boundary!Refusal, Boundary!ExtensionRefusal, Boundary!NeedsNonce
<1>8. InSkew'
  BY <1>1, <1>2, <1>4, <1>7, BoundaryNumbers DEF BoundaryInv, InSkew
<1>9. TableIsRight'
  <2>1. \A e \in nonces' : e.turn \in DOMAIN accepted' /\ e = EntryOf(e.turn)'
    BY <1>1, <1>2, <1>4, <1>5 DEF BoundaryInv, TableIsRight, Boundary!Pruned, Boundary!Live
  <2>2. ASSUME NEW i \in DOMAIN accepted'
        PROVE  EntryOf(i)' \in nonces' \/ accepted'[i].at + NonceTTL <= requestClock' \/ Len(accepted') - i >= MaxNonces
    <3>1. CASE i = n
      BY <3>1, <1>2, <1>5
    <3>2. CASE i \in DOMAIN accepted
      <4>1. EntryOf(i) \in Boundary!Pruned(nonces) \/ accepted[i].at + NonceTTL <= requestClock \/ Len(accepted) - i >= MaxNonces
        BY <3>2, PrunedIsOld DEF BoundaryInv, TableIsRight
      <4>2. accepted'[i] = accepted[i] /\ EntryOf(i)' = EntryOf(i) /\ Len(accepted') = Len(accepted) + 1 /\ i \in Nat
        BY <3>2, <1>1, <1>4
      <4>3. QED
        BY <4>1, <4>2, <1>1, <1>2, BoundaryNumbers
    <3>3. QED
      BY <1>1, <1>4, <3>1, <3>2
  <2>3. QED
    BY <2>1, <2>2 DEF TableIsRight
<1>10. ReplayWindow'
  <2>1. SUFFICES ASSUME NEW i \in DOMAIN accepted, accepted[i].request = r
                 PROVE  (requestClock - accepted[i].at = NonceTTL /\ NonceTTL = 2 * Skew) \/ n - i > MaxNonces
    BY <1>1, <1>2, <1>4, SMTT(60) DEF BoundaryInv, ReplayWindow, Boundary!ReplayWindow
  <2>2. EntryOf(i) \notin Boundary!Pruned(nonces)
    BY <1>2, <2>1 DEF Boundary!Uses, EntryOf
  <2>3. accepted[i].at + NonceTTL <= requestClock \/ Len(accepted) - i >= MaxNonces
    BY <2>2, PrunedIsOld DEF BoundaryInv, TableIsRight
  <2>4. accepted[i].at \in Nat /\ r.sent - accepted[i].at <= Skew /\ accepted[i].at - r.sent <= Skew
    BY <2>1, AcceptedTyped DEF BoundaryInv, InSkew
  <2>5. QED
    <3>1. r.sent \in Int /\ i \in Nat /\ Skew \in Nat /\ NonceTTL \in Nat /\ MaxNonces \in Nat /\ 2 * Skew <= NonceTTL
      BY <2>1, AcceptedTyped, BoundaryNumbers DEF BoundaryInv
    <3>2. CASE Len(accepted) - i >= MaxNonces
      BY <3>1, <3>2, <1>1
    <3>3. CASE accepted[i].at + NonceTTL <= requestClock
      <4> DEFINE at == accepted[i].at
                 sent == r.sent
      <4>1. at \in Nat /\ sent \in Int /\ requestClock \in Nat /\ at + NonceTTL <= requestClock
            /\ sent - at <= Skew /\ requestClock - sent <= Skew
        BY <3>1, <3>3, <2>4, <1>1, <1>7, SMTT(60)
      <4> HIDE DEF at, sent
      <4>2. requestClock - at = NonceTTL /\ NonceTTL = 2 * Skew
        BY <4>1, <3>1
      <4> QED
        BY <4>2 DEF at
    <3>4. QED
      BY <2>3, <3>2, <3>3
<1>11. QED
  BY <1>6, <1>8, <1>9, <1>10 DEF BoundaryInv

\* A replay that is refused prunes the table.
LEMMA BoundaryRefuse ==
  ASSUME BoundaryInv, NEW r \in Received, Boundary!RefuseReplay(r)
  PROVE  BoundaryInv'
<1>1. nonces' = Boundary!Pruned(nonces) /\ UNCHANGED <<requestClock, accepted>>
  BY DEF Boundary!RefuseReplay
<1>2. BoundaryTyped' /\ InSkew' /\ ReplayWindow'
  BY <1>1 DEF BoundaryInv, BoundaryTyped, InSkew, ReplayWindow, Boundary!ReplayWindow
<1>3. TableIsRight'
  BY <1>1, PrunedIsOld DEF BoundaryInv, TableIsRight, EntryOf, Boundary!Pruned, Boundary!Live
<1>4. QED
  BY <1>2, <1>3 DEF BoundaryInv

\* Time only makes more entries expire.
LEMMA BoundaryTick ==
  ASSUME BoundaryInv, Boundary!Tick
  PROVE  BoundaryInv'
<1>1. requestClock \in Nat /\ requestClock' = requestClock + 1 /\ UNCHANGED <<nonces, accepted>>
  BY DEF BoundaryInv, BoundaryTyped, Boundary!Tick
<1>2. \A i \in DOMAIN accepted : accepted[i].at \in Nat /\ EntryOf(i)' = EntryOf(i)
  BY <1>1, AcceptedTyped DEF BoundaryInv, EntryOf
<1>3. BoundaryTyped' /\ ReplayWindow'
  BY <1>1 DEF BoundaryInv, BoundaryTyped, ReplayWindow, Boundary!ReplayWindow
<1>4. InSkew' /\ TableIsRight'
  BY <1>1, <1>2, BoundaryNumbers DEF BoundaryInv, InSkew, TableIsRight
<1>5. QED
  BY <1>3, <1>4 DEF BoundaryInv

\* A request that was let through is let through again only at the end of the life
\* of its nonce or after MaxNonces others.
THEOREM ReplaysStayOut == LocalSpec => []ReplayWindow
<1>1. BoundaryInv /\ [Boundary!Next]_(Boundary!vars) => BoundaryInv'
  <2>1. SUFFICES ASSUME BoundaryInv, [Boundary!Next]_(Boundary!vars) PROVE BoundaryInv'
    OBVIOUS
  <2>2. CASE UNCHANGED <<nonces, accepted, requestClock>>
    BY <2>1, <2>2 DEF BoundaryInv, BoundaryTyped, InSkew, TableIsRight, EntryOf, ReplayWindow, Boundary!ReplayWindow
  <2>3. QED
    BY <2>1, <2>2, BoundaryPass, BoundaryRefuse, BoundaryTick
    DEF Boundary!Next, Boundary!vars, Boundary!Pass, Boundary!Reject, Boundary!ChangePairing
<1>2. BoundaryInv => ReplayWindow
  BY DEF BoundaryInv
<1>3. QED
  BY <1>1, <1>2, BoundaryInit, EachServiceRuns, PTL DEF Boundary!Spec
-----------------------------------------------------------------------------
(* The pairing of the extension                                            *)
(*                                                                         *)
(* Whatever a request has read, and however old it is, a session in a file *)
(* is the one made for its code (Kept), and its instance is that of the    *)
(* file. A file of an earlier run loses its session when it is read, and   *)
(* the requests of that run are gone.                                      *)

PairingFiles == Pairing!File \cup {None}
PairingAnswer == [extension : Extensions, code : Codes, at : Nat, instance : Nat]
PairingRequest ==
  {Pairing!Idle} \cup [pc : {"create"}, session : Pairing!Session] \cup [pc : {"complete"}, now : Nat]
  \cup [pc : {"write", "replace"}, file : Pairing!File, answer : PairingAnswer \cup {None}]

\* Every variable has its type.
PairingTyped ==
  /\ store \in PairingFiles /\ temp \in PairingFiles
  /\ instance \in 1..PairingStarts /\ pairingClock \in 0..PairingTime
  /\ made \in [Codes -> Pairing!Session \cup {None}]
  /\ pairing \in [Threads -> PairingRequest] /\ issued \subseteq PairingAnswer
\* The session of a file is the one made for its code, in the run of the file.
Kept(file) ==
  file.session # None =>
    made[file.session.code] = file.session /\ file.session.instance = file.instance
\* An answer is one for a code made in its run, and in time.
InTime(answer) ==
  /\ made[answer.code] # None
  /\ made[answer.code].instance = answer.instance /\ answer.at < made[answer.code].expires
\* What a request has in hand
Sound(q) ==
  /\ q.pc = "create" => made[q.session.code] = q.session /\ q.session.instance = instance
  /\ q.pc \in {"write", "replace"} => Kept(q.file) /\ (q.answer # None => InTime(q.answer))
\* The inductive invariant
PairingInv ==
  /\ PairingTyped /\ (store # None => Kept(store)) /\ (temp # None => Kept(temp))
  /\ \A t \in Threads : Sound(pairing[t])
  /\ \A answer \in issued : InTime(answer)
-----------------------------------------------------------------------------
\* Initially there is no file and no request.
LEMMA PairingInit == Pairing!PairingAssumption /\ Pairing!Init => PairingInv
  BY DEF Pairing!PairingAssumption, Pairing!Init, PairingInv, PairingTyped, PairingFiles, PairingRequest, Kept, Sound, Pairing!Idle

\* What a request reads is a file of this run whose session was made in it.
LEMMA PairingRead ==
  ASSUME Pairing!PairingAssumption, PairingInv PROVE Pairing!Read \in Pairing!File /\ Pairing!Read.instance = instance /\ Kept(Pairing!Read)
<1>1. CASE store = None
  BY <1>1 DEF PairingInv, PairingTyped, Pairing!Read, Pairing!File, Kept
<1>2. CASE store # None
  <2>1. store \in Pairing!File
    BY <1>2 DEF PairingInv, PairingTyped, PairingFiles
  <2>2. PICK i \in 1..PairingStarts, s \in Pairing!Session \cup {None}, c \in Pairing!Credential \cup {None} :
          store = [instance |-> i, session |-> s, credential |-> c]
    BY <2>1 DEF Pairing!File
  <2>3. Pairing!Read = [instance |-> instance, session |-> IF i = instance THEN s ELSE None,
                credential |-> c]
    BY <1>2, <2>2 DEF Pairing!Read
  <2>4. Pairing!Read \in Pairing!File
    BY <2>3 DEF PairingInv, PairingTyped, Pairing!File
  <2>5. Kept(Pairing!Read)
    BY <1>2, <2>2, <2>3 DEF PairingInv, Kept
  <2> QED BY <2>3, <2>4, <2>5
<1> QED BY <1>1, <1>2

\* A request that will write a kept file and give a good answer is as it should be.
LEMMA PairingWill ==
  ASSUME PairingInv, NEW t \in Threads, NEW file \in Pairing!File, NEW answer \in PairingAnswer \cup {None},
         Kept(file), answer # None => InTime(answer), Pairing!Will(t, file, answer),
         UNCHANGED <<store, temp, instance, pairingClock, made, issued>>
  PROVE  PairingInv'
<1>1. [pc |-> "write", file |-> file, answer |-> answer] \in PairingRequest
  BY DEF PairingRequest
<1>2. PairingTyped'
  BY <1>1 DEF PairingInv, PairingTyped, Pairing!Will
<1>3. \A u \in Threads : Sound(pairing[u])'
  BY DEF PairingInv, PairingTyped, Pairing!Will, Sound, Kept, InTime
<1> QED BY <1>2, <1>3 DEF PairingInv, Kept, InTime

\* A request that ends, or that only has taken the time, has nothing in hand.
LEMMA PairingEmpty ==
  ASSUME PairingInv, NEW t \in Threads, NEW q \in PairingRequest, q.pc \in {"idle", "complete"},
         pairing' = [pairing EXCEPT ![t] = q],
         UNCHANGED <<store, temp, instance, pairingClock, made, issued>>
  PROVE  PairingInv'
<1>1. PairingTyped'
  BY DEF PairingInv, PairingTyped
<1>2. \A u \in Threads : Sound(pairing[u])'
  BY DEF PairingInv, PairingTyped, Sound, Kept, InTime
<1> QED BY <1>1, <1>2 DEF PairingInv, Kept, InTime

\* A new code is one that no file, request or answer has.
LEMMA PairingCreate ==
  ASSUME Pairing!PairingAssumption, PairingInv, NEW t \in Threads, NEW c \in Codes, Pairing!BeginCreate(t, c)
  PROVE  PairingInv'
<1> DEFINE s == [code |-> c, expires |-> pairingClock + PAIRING_CODE_TTL, instance |-> instance]
<1>1. s \in Pairing!Session /\ s # None
  BY DEF Pairing!PairingAssumption, PairingInv, PairingTyped, Pairing!Session
<1>2. /\ made[c] = None /\ made' = [made EXCEPT ![c] = s]
      /\ pairing' = [pairing EXCEPT ![t] = [pc |-> "create", session |-> s]]
      /\ UNCHANGED <<store, temp, instance, pairingClock, issued>>
  BY Zenon DEF Pairing!BeginCreate
<1> HIDE DEF s
<1>3. [pc |-> "create", session |-> s] \in PairingRequest
  BY <1>1 DEF PairingRequest
<1>4. PairingTyped'
  BY <1>1, <1>2, <1>3 DEF PairingInv, PairingTyped
<1>5. \A file \in Pairing!File : Kept(file) => Kept(file)'
  BY <1>2 DEF PairingInv, PairingTyped, Kept, Pairing!File, Pairing!Session
<1>6. \A answer \in PairingAnswer : InTime(answer) => InTime(answer)'
  BY <1>2 DEF PairingInv, PairingTyped, InTime, PairingAnswer
<1>7. ASSUME NEW u \in Threads PROVE Sound(pairing[u])'
  <2>1. CASE u = t
    <3>1. s.code = c /\ s.instance = instance
      BY DEF s
    <3>2. pairing'[u] = [pc |-> "create", session |-> s] /\ made'[c] = s /\ instance' = instance
      BY <1>2, <2>1 DEF PairingInv, PairingTyped
    <3> QED BY <3>1, <3>2 DEF Sound
  <2>2. CASE u # t
    <3>1. pairing'[u] = pairing[u] /\ pairing[u] \in PairingRequest /\ Sound(pairing[u])
      BY <1>2, <2>2 DEF PairingInv, PairingTyped
    <3>2. CASE pairing[u].pc = "create"
      <4>1. pairing[u].session \in Pairing!Session /\ pairing[u].session # None
        BY <3>1, <3>2 DEF PairingRequest, Pairing!Idle, Pairing!PairingAssumption
      <4>2. pairing[u].session.code \in Codes
        BY <4>1 DEF Pairing!Session
      <4> QED BY <1>2, <3>1, <3>2, <4>1, <4>2 DEF Sound, PairingInv, PairingTyped
    <3>3. CASE pairing[u].pc \in {"write", "replace"}
      <4>1. pairing[u].file \in Pairing!File /\ pairing[u].answer \in PairingAnswer \cup {None}
        BY <3>1, <3>3 DEF PairingRequest, Pairing!Idle
      <4> QED BY <1>5, <1>6, <3>1, <3>3, <4>1 DEF Sound
    <3> QED BY <3>1, <3>2, <3>3 DEF Sound
  <2> QED BY <2>1, <2>2
<1>8. (store # None => Kept(store))' /\ (temp # None => Kept(temp))' /\ \A answer \in issued' : InTime(answer)'
  BY <1>2, <1>5, <1>6 DEF PairingInv, PairingTyped, PairingFiles
<1> QED BY <1>4, <1>7, <1>8 DEF PairingInv

\* Every step keeps the invariant.
LEMMA PairingKeeps == Pairing!PairingAssumption /\ PairingInv /\ [Pairing!Next]_(Pairing!vars) => PairingInv'
<1> SUFFICES ASSUME Pairing!PairingAssumption, PairingInv, [Pairing!Next]_(Pairing!vars) PROVE PairingInv' OBVIOUS
<1> USE DEF Pairing!PairingAssumption
<1>1. ASSUME NEW t \in Threads, NEW c \in Codes, Pairing!BeginCreate(t, c) PROVE PairingInv'
  BY <1>1, PairingCreate
<1>2. ASSUME NEW t \in Threads, Pairing!CreateCode(t) PROVE PairingInv'
  <2> DEFINE s == pairing[t].session
             file == [Pairing!Read EXCEPT !.session = s]
  <2>1. pairing[t] \in PairingRequest /\ pairing[t].pc = "create" /\ Sound(pairing[t])
    BY <1>2 DEF Pairing!CreateCode, PairingInv, PairingTyped
  <2>2. s \in Pairing!Session /\ made[s.code] = s /\ s.instance = instance
    BY <2>1 DEF PairingRequest, Pairing!Idle, Sound
  <2>3. file \in Pairing!File /\ file.session = s /\ file.instance = instance
    BY <2>2, PairingRead DEF Pairing!File
  <2>4. Kept(file)
    BY <2>2, <2>3 DEF Kept
  <2>5. Pairing!Will(t, file, None) /\ UNCHANGED <<store, temp, instance, pairingClock, made, issued>>
    BY <1>2, Zenon DEF Pairing!CreateCode
  <2> QED BY <2>3, <2>4, <2>5, PairingWill
<1>3. ASSUME NEW t \in Threads, Pairing!BeginComplete(t) PROVE PairingInv'
  <2>1. [pc |-> "complete", now |-> pairingClock] \in PairingRequest
    BY DEF PairingRequest, PairingInv, PairingTyped
  <2> QED BY <1>3, <2>1, PairingEmpty DEF Pairing!BeginComplete
<1>4. ASSUME NEW t \in Threads, Pairing!RefuseCode(t) PROVE PairingInv'
  <2>1. Pairing!Idle \in PairingRequest /\ Pairing!Idle.pc = "idle"
    BY DEF PairingRequest, Pairing!Idle
  <2> QED BY <1>4, <2>1, PairingEmpty DEF Pairing!RefuseCode
<1>5. ASSUME NEW t \in Threads, Pairing!ExpireCode(t) PROVE PairingInv'
  <2> DEFINE file == [Pairing!Read EXCEPT !.session = None]
  <2>1. file \in Pairing!File /\ file.session = None
    BY PairingRead DEF Pairing!File
  <2>2. Pairing!Will(t, file, None) /\ UNCHANGED <<store, temp, instance, pairingClock, made, issued>>
    BY <1>5, Zenon DEF Pairing!ExpireCode
  <2> QED BY <2>1, <2>2, PairingWill DEF Kept
<1>6. ASSUME NEW t \in Threads, NEW extension \in Extensions, Pairing!CompleteCode(t, extension) PROVE PairingInv'
  <2> DEFINE credential == [extension |-> extension, code |-> Pairing!Read.session.code, revoked |-> FALSE]
             file == [Pairing!Read EXCEPT !.session = None, !.credential = credential]
             answer == [extension |-> extension, code |-> Pairing!Read.session.code,
                        at |-> pairing[t].now, instance |-> instance]
  <2>1. /\ pairing[t].pc = "complete" /\ Pairing!IsGoodSession(Pairing!Read.session, pairing[t].now)
        /\ Pairing!Will(t, file, answer) /\ UNCHANGED <<store, temp, instance, pairingClock, made, issued>>
    BY <1>6, Zenon DEF Pairing!CompleteCode
  <2>2. pairing[t].now \in Nat
    BY <2>1 DEF PairingInv, PairingTyped, PairingRequest, Pairing!Idle
  <2>3. Pairing!Read.session \in Pairing!Session
    BY <2>1, PairingRead DEF Pairing!IsGoodSession, Pairing!File
  <2>4. Pairing!Read.session.code \in Codes /\ instance \in Nat
    BY <2>3 DEF Pairing!Session, PairingInv, PairingTyped
  <2>5. credential \in Pairing!Credential
    BY <2>4 DEF Pairing!Credential
  <2>6. file \in Pairing!File /\ file.session = None
    BY <2>5, PairingRead DEF Pairing!File
  <2>7. answer \in PairingAnswer
    BY <2>2, <2>4 DEF PairingAnswer
  <2>8. made[Pairing!Read.session.code] = Pairing!Read.session /\ Pairing!Read.session.instance = instance
    BY <2>1, PairingRead DEF Kept, Pairing!IsGoodSession
  <2>9. InTime(answer)
    BY <2>1, <2>8 DEF InTime, Pairing!IsGoodSession
  <2> HIDE DEF file, answer, credential
  <2> QED BY <2>1, <2>6, <2>7, <2>9, PairingWill DEF Kept
<1>7. ASSUME NEW t \in Threads, Pairing!Revoke(t) PROVE PairingInv'
  <2> DEFINE file == [Pairing!Read EXCEPT !.credential = Pairing!Revoked(@)]
  <2>1. Pairing!Revoked(Pairing!Read.credential) \in Pairing!Credential \cup {None}
    BY PairingRead DEF Pairing!File, Pairing!Credential, Pairing!Revoked
  <2>2. file \in Pairing!File /\ file.session = Pairing!Read.session /\ file.instance = Pairing!Read.instance
    BY <2>1, PairingRead DEF Pairing!File
  <2>3. Kept(file)
    BY <2>2, PairingRead DEF Kept
  <2>4. Pairing!Will(t, file, None) /\ UNCHANGED <<store, temp, instance, pairingClock, made, issued>>
    BY <1>7, Zenon DEF Pairing!Revoke
  <2> QED BY <2>2, <2>3, <2>4, PairingWill
<1>8. ASSUME NEW t \in Threads, Pairing!WriteTemp(t) PROVE PairingInv'
  <2>1. /\ pairing[t].pc = "write" /\ temp' = pairing[t].file
        /\ pairing' = [pairing EXCEPT ![t].pc = "replace"]
        /\ UNCHANGED <<store, instance, pairingClock, made, issued>>
    BY <1>8, Zenon DEF Pairing!WriteTemp
  <2>2. pairing[t] \in PairingRequest /\ Sound(pairing[t])
    BY DEF PairingInv, PairingTyped
  <2>3. PICK f \in Pairing!File, a \in PairingAnswer \cup {None} :
          pairing[t] = [pc |-> "write", file |-> f, answer |-> a]
    BY <2>1, <2>2, SMTT(60) DEF PairingRequest, Pairing!Idle
  <2>4. pairing' = [pairing EXCEPT ![t] = [pc |-> "replace", file |-> f, answer |-> a]]
    <3>1. pairing' = [pairing EXCEPT ![t] = [pairing[t] EXCEPT !.pc = "replace"]]
      BY <2>1
    <3>2. [pairing[t] EXCEPT !.pc = "replace"] = [pc |-> "replace", file |-> f, answer |-> a]
      BY <2>3
    <3> QED BY <3>1, <3>2
  <2>5. [pc |-> "replace", file |-> f, answer |-> a] \in PairingRequest
    BY DEF PairingRequest
  <2>6. temp' = f /\ Kept(f) /\ (a # None => InTime(a))
    BY <2>1, <2>2, <2>3, SMTT(60) DEF Sound
  <2>7. PairingTyped'
    BY <2>1, <2>4, <2>5, <2>6 DEF PairingInv, PairingTyped, PairingFiles
  <2>8. \A u \in Threads : Sound(pairing[u])'
    BY <2>1, <2>4, <2>6 DEF PairingInv, PairingTyped, Sound, Kept, InTime
  <2> QED BY <2>1, <2>6, <2>7, <2>8 DEF PairingInv, Kept, InTime
<1>9. ASSUME NEW t \in Threads, Pairing!Replace(t) PROVE PairingInv'
  <2>1. Pairing!Idle \in PairingRequest /\ Pairing!Idle.pc = "idle"
    BY DEF PairingRequest, Pairing!Idle
  <2>2. pairing[t] \in PairingRequest /\ pairing[t].pc = "replace" /\ Sound(pairing[t])
    BY <1>9 DEF Pairing!Replace, PairingInv, PairingTyped
  <2>3. pairing[t].answer \in PairingAnswer \cup {None} /\ (pairing[t].answer # None => InTime(pairing[t].answer))
    BY <2>2 DEF PairingRequest, Pairing!Idle, Sound
  <2>4. CASE temp = None
    BY <1>9, <2>1, <2>4, PairingEmpty DEF Pairing!Replace
  <2>5. CASE temp # None
    <3>1. /\ store' = temp /\ temp' = None /\ UNCHANGED <<instance, pairingClock, made>>
          /\ pairing' = [pairing EXCEPT ![t] = Pairing!Idle]
          /\ issued' = IF pairing[t].answer = None THEN issued ELSE issued \cup {pairing[t].answer}
      BY <1>9, <2>5 DEF Pairing!Replace
    <3>2. PairingTyped'
      BY <2>1, <2>3, <3>1 DEF PairingInv, PairingTyped, PairingFiles
    <3>3. \A u \in Threads : Sound(pairing[u])'
      BY <2>1, <3>1 DEF PairingInv, PairingTyped, Sound, Kept, InTime
    <3>4. \A a \in issued' : InTime(a)'
      BY <2>3, <3>1 DEF PairingInv, InTime
    <3>5. (store # None => Kept(store))' /\ (temp # None => Kept(temp))'
      BY <3>1 DEF PairingInv, Kept
    <3> QED BY <3>2, <3>3, <3>4, <3>5 DEF PairingInv
  <2> QED BY <2>4, <2>5
<1>10. CASE Pairing!Restart
  <2>1. instance' \in 1..PairingStarts
    BY <1>10 DEF Pairing!Restart, PairingInv, PairingTyped
  <2>2. PairingTyped'
    BY <1>10, <2>1 DEF Pairing!Restart, PairingInv, PairingTyped, PairingRequest
  <2>3. \A u \in Threads : Sound(pairing[u])'
    BY <1>10 DEF Pairing!Restart, Sound, Pairing!Idle
  <2> QED BY <1>10, <2>2, <2>3 DEF Pairing!Restart, PairingInv, Kept, InTime
<1>11. CASE Pairing!Tick
  <2>1. pairingClock' \in 0..PairingTime
    BY <1>11 DEF Pairing!Tick, PairingInv, PairingTyped
  <2> QED BY <1>11, <2>1 DEF Pairing!Tick, PairingInv, PairingTyped, Kept, InTime, Sound
<1>12. CASE UNCHANGED Pairing!vars
  BY <1>12 DEF Pairing!vars, PairingInv, PairingTyped, Kept, InTime, Sound
<1> QED
  BY <1>1, <1>2, <1>3, <1>4, <1>5, <1>6, <1>7, <1>8, <1>9, <1>10, <1>11, <1>12 DEF Pairing!Next

\* For every number of requests, runs of the app and codes: a credential is
\* handed out only for a code of this run whose time was not over.
THEOREM CodesHonouredInTime == LocalSpec => []PairedInTime
<1>1. Pairing!Init => PairingInv
  BY PairingInit, ServiceConstants
<1>2. PairingInv /\ [Pairing!Next]_(Pairing!vars) => PairingInv'
  BY PairingKeeps, ServiceConstants
<1>3. PairingInv => PairedInTime
  BY DEF PairingInv, InTime, PairedInTime, Pairing!PairedInTime
<1> QED BY <1>1, <1>2, <1>3, EachServiceRuns, PTL DEF Pairing!Spec
-----------------------------------------------------------------------------
(* The removal of all local data                                           *)
(*                                                                         *)
(* A plan becomes READY once, when the one request that made it fills the  *)
(* file. From there it is copied by helpers only, and the helper that      *)
(* begins its deletion overwrites it. So a nonce whose deletion has begun  *)
(* is READY nowhere, whatever the ledger still holds: only a helper that   *)
(* had validated the plan before can begin once more.                      *)

RemovalPlans == Removal!DeletionPlan
Ready(p, n) == p \in RemovalPlans /\ p.state = "READY" /\ p.nonce = n
\* A request fills the file with the plan of n.
Fills(t, n) == removing[t].pc = "fill" /\ removing[t].seen.nonce = n
\* The helper is between the validation of its plan and the mark.
Holding == {"check", "merge", "consume", "mark"}
HeldBy(h, n) == helper[h].pc \in Holding /\ helper[h].plan.nonce = n
\* The time of n is the one its preparation gave it, behind a backup.
Prepared(n) == history[n].issued /\ history[n].prepared <= history[n].backup + PLAN_TTL

\* What a request is about to do, and with which plan.
Expiring == {"expire", "expireToPrepare"}
Requesting ==
  [pc : {"idle", "expire", "expireToPrepare", "replace", "replaceToPrepare", "prepare", "fill"},
   seen : RemovalPlans \cup {None}]
Helping ==
  [pc : {"idle", "validate", "check", "merge", "consume", "mark", "delete", "complete", "fail"},
   plan : RemovalPlans \cup {None}, used : SUBSET Nonces, next : 0..(EntryCount + 1), at : 0..RemovalTime]
Histories ==
  [Nonces -> [issued : BOOLEAN, backup : 0..RemovalTime, prepared : 0..RemovalTime, begun : Nat,
              at : 0..RemovalTime, shared : BOOLEAN]]
RequestSound(q) ==
  /\ q \in Requesting
  /\ q.pc \in Expiring \cup {"fill"} => q.seen \in RemovalPlans
  /\ q.pc = "fill" => q.seen.state = "READY"
HelperSound(h) == h \in Helping /\ (h.pc \notin {"idle", "validate"} => h.plan \in RemovalPlans)
\* The temporary file of the API holds an expired plan and no other.
ExpiredSound(p) == p \in RemovalPlans \cup {None} /\ (p # None => p.state = "EXPIRED")
RemovalTyped ==
  /\ plan \in RemovalPlans \cup {None, Torn} /\ ExpiredSound(expired) /\ ledger \subseteq Nonces
  /\ receipts \subseteq 0..RemovalTime /\ root \subseteq Removal!Entries
  /\ api \in BOOLEAN /\ waiting \in Helpers \cup {None} /\ removalClock \in 0..RemovalTime
  /\ removing \in [Threads -> Requesting] /\ \A t \in Threads : RequestSound(removing[t])
  /\ helper \in [Helpers -> Helping] /\ \A h \in Helpers : HelperSound(helper[h])
  /\ history \in Histories
\* What is READY, filled or validated was prepared, and with its own time.
FromItsRequest ==
  \A n \in Nonces :
    /\ Ready(plan, n) => Prepared(n) /\ plan.expires = history[n].prepared + PLAN_TTL
    /\ \A t \in Threads : Fills(t, n) => Prepared(n) /\ removing[t].seen.expires = history[n].prepared + PLAN_TTL
    /\ \A h \in Helpers : HeldBy(h, n) => Prepared(n) /\ helper[h].at < history[n].prepared + PLAN_TTL
    /\ history[n].begun > 0 => Prepared(n) /\ history[n].at < history[n].prepared + PLAN_TTL
\* A plan is filled by one request, before any helper sees it and before it begins.
FilledOnce ==
  \A n \in Nonces, t \in Threads : Fills(t, n) =>
    /\ ~ Ready(plan, n) /\ history[n].begun = 0
    /\ \A h \in Helpers : ~ HeldBy(h, n)
    /\ \A u \in Threads : Fills(u, n) => u = t
\* Two helpers that hold one plan have shared it.
SharedIsKnown ==
  \A n \in Nonces, h, k \in Helpers : HeldBy(h, n) /\ HeldBy(k, n) /\ h # k => history[n].shared
\* What has begun is READY no more, and unless it was shared it has begun once and
\* no helper holds it.
BegunOnce ==
  \A n \in Nonces : history[n].begun > 0 =>
    /\ ~ Ready(plan, n)
    /\ history[n].shared \/ (history[n].begun = 1 /\ \A h \in Helpers : ~ HeldBy(h, n))
RemovalSafe == FromItsRequest /\ FilledOnce /\ SharedIsKnown /\ BegunOnce
RemovalInv == RemovalTyped /\ RemovalSafe

LEMMA RemovalNumbers ==
  /\ Nonces \subseteq Nat /\ EntryCount \in Nat /\ RemovalTime \in Nat /\ PLAN_TTL \in Nat \ {0}
  /\ None \notin RemovalPlans /\ Torn \notin RemovalPlans /\ None # Torn /\ None \notin Helpers
  BY ServiceConstants DEF Removal!RemovalAssumption, RemovalPlans

\* A plan that is only given another state is a plan.
LEMMA PlanInState ==
  ASSUME NEW p \in RemovalPlans, NEW state \in Removal!PlanState
  PROVE  [p EXCEPT !.state = state] \in RemovalPlans /\ [p EXCEPT !.state = state].state = state
  BY DEF RemovalPlans, Removal!DeletionPlan

\* A helper that does nothing, and one that begins
LEMMA RemovalNoHelper ==
  /\ HelperSound(Removal!NoHelper) /\ Removal!NoHelper.pc = "idle" /\ Removal!NoHelper.pc \notin Holding
  /\ HelperSound([Removal!NoHelper EXCEPT !.pc = "validate"])
  /\ [Removal!NoHelper EXCEPT !.pc = "validate"].pc \notin Holding
  BY RemovalNumbers DEF HelperSound, Helping, Removal!NoHelper, Holding

LEMMA RemovalIdle ==
  /\ RequestSound(Removal!Idle) /\ Removal!Idle.pc = "idle"
  /\ \A s \in {"prepare", "replace", "replaceToPrepare"} :
       RequestSound([Removal!Idle EXCEPT !.pc = s]) /\ [Removal!Idle EXCEPT !.pc = s].pc = s
  BY DEF RequestSound, Requesting, Expiring, Removal!Idle

LEMMA RemovalInit == Removal!Init => RemovalInv
<1> SUFFICES ASSUME Removal!Init PROVE RemovalInv OBVIOUS
<1>1. /\ plan = None /\ expired = None /\ ledger = {} /\ receipts = {} /\ root = 1..EntryCount
      /\ api = TRUE /\ waiting = None /\ removalClock = 0
      /\ removing = [t \in Threads |-> Removal!Idle]
      /\ helper = [h \in Helpers |-> Removal!NoHelper]
      /\ history = [n \in Nonces |-> [issued |-> FALSE, backup |-> 0, prepared |-> 0, begun |-> 0, at |-> 0,
                                      shared |-> FALSE]]
  BY DEF Removal!Init, Removal!Entries
<1>2. RemovalTyped
  <2>1. removing \in [Threads -> Requesting] /\ \A t \in Threads : RequestSound(removing[t])
    BY <1>1, RemovalIdle DEF RequestSound
  <2>2. helper \in [Helpers -> Helping] /\ \A h \in Helpers : HelperSound(helper[h])
    BY <1>1, RemovalNoHelper DEF HelperSound
  <2>3. 0 \in 0..RemovalTime
    BY RemovalNumbers
  <2>4. history \in Histories
    BY <1>1, <2>3 DEF Histories
  <2>5. plan \in RemovalPlans \cup {None, Torn} /\ ExpiredSound(expired) /\ ledger \subseteq Nonces
        /\ receipts \subseteq 0..RemovalTime /\ root \subseteq Removal!Entries /\ removalClock \in 0..RemovalTime
    BY <1>1, <2>3 DEF Removal!Entries, ExpiredSound
  <2>6. api \in BOOLEAN /\ waiting \in Helpers \cup {None}
    BY <1>1, Zenon
  <2> QED
    BY <2>1, <2>2, <2>4, <2>5, <2>6 DEF RemovalTyped
<1>3. RemovalSafe
  BY <1>1, RemovalNumbers, RemovalIdle, RemovalNoHelper
  DEF RemovalSafe, FromItsRequest, FilledOnce, SharedIsKnown, BegunOnce, Ready, Fills, HeldBy
<1> QED
  BY <1>2, <1>3 DEF RemovalInv

\* A step that makes nothing READY, filled or validated and begins nothing keeps
\* what is said of them.
LEMMA RemovalQuiet ==
  ASSUME RemovalInv, UNCHANGED history,
         \A n \in Nonces : Ready(plan', n) => Ready(plan, n) /\ plan'.expires = plan.expires,
         \A t \in Threads : removing'[t].pc = "fill" => removing'[t] = removing[t],
         \A h \in Helpers : helper'[h].pc \in Holding =>
           helper[h].pc \in Holding /\ helper'[h].plan = helper[h].plan /\ helper'[h].at = helper[h].at
  PROVE  RemovalSafe'
<1>1. \A n \in Nonces : Ready(plan, n)' => Ready(plan, n) /\ plan'.expires = plan.expires
  BY DEF Ready, RemovalPlans, Removal!DeletionPlan, Removal!PlanState
<1>2. \A n \in Nonces, t \in Threads : Fills(t, n)' => Fills(t, n) /\ removing'[t].seen = removing[t].seen
  BY DEF Fills
<1>3. \A n \in Nonces, h \in Helpers : HeldBy(h, n)' => HeldBy(h, n) /\ helper'[h].at = helper[h].at
  BY DEF HeldBy, Holding
<1>4. \A n \in Nonces : Prepared(n)' <=> Prepared(n)
  BY DEF Prepared
<1>5. FromItsRequest'
  BY <1>1, <1>2, <1>3, <1>4 DEF RemovalInv, RemovalSafe, FromItsRequest
<1>6. FilledOnce'
  BY <1>1, <1>2, <1>3 DEF RemovalInv, RemovalSafe, FilledOnce
<1>7. SharedIsKnown'
  BY <1>3 DEF RemovalInv, RemovalSafe, SharedIsKnown
<1>8. BegunOnce'
  BY <1>1, <1>3 DEF RemovalInv, RemovalSafe, BegunOnce
<1> QED
  BY <1>5, <1>6, <1>7, <1>8 DEF RemovalSafe

\* A step of anybody that leaves the plan, makes it something that is not READY, or
\* takes it away, and that makes no helper hold a plan.
LEMMA RemovalOther ==
  ASSUME RemovalInv, UNCHANGED history,
         helper' \in [Helpers -> Helping], \A h \in Helpers : HelperSound(helper'[h]),
         \A h \in Helpers : helper'[h].pc \in Holding =>
           helper[h].pc \in Holding /\ helper'[h].plan = helper[h].plan /\ helper'[h].at = helper[h].at,
         removing' \in [Threads -> Requesting], \A t \in Threads : RequestSound(removing'[t]),
         \A t \in Threads : removing'[t].pc = "fill" => removing'[t] = removing[t],
         plan' \in RemovalPlans \cup {None, Torn}, plan' = plan \/ plan' \notin RemovalPlans \/ plan'.state # "READY",
         ExpiredSound(expired'), ledger' \subseteq Nonces, root' \subseteq Removal!Entries,
         receipts' \subseteq 0..RemovalTime, removalClock' \in 0..RemovalTime,
         api' \in BOOLEAN, waiting' \in Helpers \cup {None}
  PROVE  RemovalInv'
<1>1. RemovalTyped'
  BY DEF RemovalInv, RemovalTyped, RequestSound, HelperSound, ExpiredSound
<1>2. RemovalSafe'
  BY RemovalQuiet DEF Ready
<1> QED
  BY <1>1, <1>2 DEF RemovalInv

\* The types of what most steps leave alone
LEMMA RemovalTypes ==
  ASSUME RemovalInv
  PROVE  /\ plan \in RemovalPlans \cup {None, Torn} /\ ExpiredSound(expired) /\ ledger \subseteq Nonces
         /\ receipts \subseteq 0..RemovalTime /\ root \subseteq Removal!Entries /\ removalClock \in 0..RemovalTime
         /\ removing \in [Threads -> Requesting] /\ \A t \in Threads : RequestSound(removing[t])
         /\ helper \in [Helpers -> Helping] /\ \A h \in Helpers : HelperSound(helper[h])
         /\ api \in BOOLEAN /\ waiting \in Helpers \cup {None} /\ RemovalTime \in Nat
  BY RemovalNumbers DEF RemovalInv, RemovalTyped

\* A thread that turns to something sound, without filling the file anew
LEMMA RemovalRequest ==
  ASSUME RemovalInv, NEW t \in Threads, NEW q, RequestSound(q), q.pc # "fill",
         removing' = [removing EXCEPT ![t] = q],
         plan' \in RemovalPlans \cup {None, Torn}, plan' = plan \/ plan' \notin RemovalPlans \/ plan'.state # "READY",
         ExpiredSound(expired'),
         UNCHANGED <<ledger, receipts, root, api, waiting, helper, removalClock, history>>
  PROVE  RemovalInv'
<1>1. /\ removing' \in [Threads -> Requesting] /\ \A u \in Threads : RequestSound(removing'[u])
      /\ \A u \in Threads : removing'[u].pc = "fill" => removing'[u] = removing[u]
  BY RemovalTypes DEF RequestSound
<1>2. helper' = helper /\ history' = history /\ ledger' = ledger /\ receipts' = receipts /\ root' = root
      /\ api' = api /\ waiting' = waiting /\ removalClock' = removalClock
  OBVIOUS
<1> QED
  BY <1>1, <1>2, RemovalTypes, RemovalOther

\* A helper that turns to something sound and holds no other plan than before
LEMMA RemovalHelper ==
  ASSUME RemovalInv, NEW h \in Helpers, NEW q, HelperSound(q),
         q.pc \in Holding => helper[h].pc \in Holding /\ q.plan = helper[h].plan /\ q.at = helper[h].at,
         helper' = [helper EXCEPT ![h] = q],
         plan' \in RemovalPlans \cup {None, Torn}, plan' = plan \/ plan' \notin RemovalPlans \/ plan'.state # "READY",
         ledger' \subseteq Nonces, root' \subseteq Removal!Entries, waiting' \in Helpers \cup {None},
         UNCHANGED <<expired, receipts, api, removing, removalClock, history>>
  PROVE  RemovalInv'
<1>1. /\ helper' \in [Helpers -> Helping] /\ \A k \in Helpers : HelperSound(helper'[k])
      /\ \A k \in Helpers : helper'[k].pc \in Holding =>
           helper[k].pc \in Holding /\ helper'[k].plan = helper[k].plan /\ helper'[k].at = helper[k].at
  BY RemovalTypes DEF HelperSound
<1>2. expired' = expired /\ receipts' = receipts /\ api' = api /\ removing' = removing
      /\ removalClock' = removalClock /\ history' = history
  OBVIOUS
<1> QED
  BY <1>1, <1>2, RemovalTypes, RemovalOther

LEMMA RemovalReads ==
  ASSUME RemovalInv, NEW t \in Threads, NEW operation, Removal!ReadState(t, operation)
  PROVE  RemovalInv'
<1>1. plan \in RemovalPlans \cup {None, Torn} /\ ExpiredSound(expired)
  BY RemovalTypes
<1>2. CASE Removal!StaleReady(plan)
  <2>1. plan \in RemovalPlans
    BY <1>1, <1>2 DEF Removal!StaleReady, Removal!StateOf
  <2>2. PICK do \in Expiring : removing' = [removing EXCEPT ![t] = [pc |-> do, seen |-> plan]]
    BY <1>2 DEF Removal!ReadState, Removal!To, Expiring
  <2>3. RequestSound([pc |-> do, seen |-> plan]) /\ do # "fill"
    BY <2>1 DEF RequestSound, Requesting, Expiring
  <2>4. QED
    BY <1>1, <2>2, <2>3, RemovalRequest DEF Removal!ReadState
<1>3. CASE ~ Removal!StaleReady(plan)
  <2>1. removing' = [removing EXCEPT ![t] = [Removal!Idle EXCEPT !.pc = "prepare"]]
    BY <1>3 DEF Removal!ReadState, Removal!To
  <2>3. QED
    BY <1>1, <2>1, RemovalIdle, RemovalRequest DEF Removal!ReadState
<1>4. QED
  BY <1>2, <1>3

\* What a request writes beside the plan is an expired one, and so is what it moves there.
LEMMA RemovalExpires ==
  ASSUME RemovalInv, NEW t \in Threads, Removal!WriteExpired(t) \/ Removal!ReplaceExpired(t)
  PROVE  RemovalInv'
<1>1. plan \in RemovalPlans \cup {None, Torn} /\ ExpiredSound(expired) /\ RequestSound(removing[t])
  BY RemovalTypes
<1>2. PICK q \in {Removal!Idle, [Removal!Idle EXCEPT !.pc = "prepare"], [Removal!Idle EXCEPT !.pc = "replace"],
                  [Removal!Idle EXCEPT !.pc = "replaceToPrepare"]} : removing' = [removing EXCEPT ![t] = q]
  BY DEF Removal!WriteExpired, Removal!ReplaceExpired, Removal!Expired, Removal!To
<1>3. RequestSound(q) /\ q.pc # "fill"
  BY RemovalIdle
<1>4. CASE Removal!WriteExpired(t)
  <2>1. removing[t].seen \in RemovalPlans
    BY <1>1, <1>4 DEF Removal!WriteExpired, RequestSound, Expiring
  <2>2. expired' = expired \/ expired' = [removing[t].seen EXCEPT !.state = "EXPIRED"]
    BY <1>4 DEF Removal!WriteExpired
  <2> DEFINE old == [removing[t].seen EXCEPT !.state = "EXPIRED"]
  <2>3. old \in RemovalPlans /\ old.state = "EXPIRED"
    BY <2>1, PlanInState DEF Removal!PlanState
  <2> HIDE DEF old
  <2>4. ExpiredSound(expired')
    BY <1>1, <2>2, <2>3 DEF ExpiredSound, old
  <2> QED
    BY <1>1, <1>2, <1>3, <1>4, <2>4, RemovalRequest DEF Removal!WriteExpired
<1>5. CASE Removal!ReplaceExpired(t)
  <2>1. (plan' = expired /\ expired # None /\ expired' = None) \/ (plan' = plan /\ expired' = expired)
    BY <1>5 DEF Removal!ReplaceExpired
  <2>2. /\ plan' \in RemovalPlans \cup {None, Torn} /\ (plan' = plan \/ plan'.state # "READY")
        /\ ExpiredSound(expired')
    BY <1>1, <2>1 DEF ExpiredSound
  <2> QED
    BY <1>1, <1>2, <1>3, <1>5, <2>2, RemovalRequest DEF Removal!ReplaceExpired
<1> QED
  BY <1>4, <1>5

\* The one request of a nonce writes the plan, in two steps.
LEMMA RemovalOpens ==
  ASSUME RemovalInv, NEW t \in Threads, NEW n \in Nonces, Removal!OpenPlan(t, n)
  PROVE  RemovalInv'
<1>1. PICK created \in receipts :
        /\ removalClock - created <= PLAN_TTL /\ ~ history[n].issued
        /\ history' = [history EXCEPT ![n].issued = TRUE, ![n].backup = created, ![n].prepared = removalClock]
        /\ plan' = Torn
        /\ removing' = [removing EXCEPT ![t] = [pc |-> "fill",
             seen |-> [nonce |-> n, expires |-> removalClock + PLAN_TTL, state |-> "READY"]]]
        /\ UNCHANGED <<expired, ledger, receipts, root, api, waiting, helper, removalClock>>
  BY ZenonT(60) DEF Removal!OpenPlan, Removal!ValidReceipts, Removal!To
<1> PICK p : p = [nonce |-> n, expires |-> removalClock + PLAN_TTL, state |-> "READY"]
  OBVIOUS
<1>2. removalClock \in 0..RemovalTime /\ created \in 0..RemovalTime /\ history[n].begun \in Nat /\ history \in Histories
  BY DEF RemovalInv, RemovalTyped, Histories
<1>3. p \in RemovalPlans /\ p.state = "READY" /\ p.nonce = n /\ p.expires = removalClock + PLAN_TTL
  BY <1>2, RemovalNumbers DEF RemovalPlans, Removal!DeletionPlan, Removal!PlanState
<1>4. RequestSound([pc |-> "fill", seen |-> p])
  BY <1>3 DEF RequestSound, Requesting
<1>5. removing' = [removing EXCEPT ![t] = [pc |-> "fill", seen |-> p]]
  BY <1>1
<1>6. RemovalTyped'
  <2>1. removing' \in [Threads -> Requesting] /\ \A u \in Threads : RequestSound(removing'[u])
    BY <1>4, <1>5, RemovalTypes DEF RequestSound
  <2>2. history' \in Histories
    BY <1>1, <1>2, ZenonT(60) DEF Histories
  <2>3. helper' = helper /\ expired' = expired
    BY <1>1
  <2>4. QED
    BY <1>1, <2>1, <2>2, <2>3, RemovalTypes DEF RemovalTyped, RequestSound, HelperSound, ExpiredSound
<1>7. Prepared(n)' /\ history'[n].prepared = removalClock
  BY <1>1, <1>2, RemovalNumbers DEF Prepared, Histories
<1>8. \A m \in Nonces \ {n} : history'[m] = history[m] /\ (Prepared(m)' <=> Prepared(m))
  BY <1>1, <1>2 DEF Prepared, Histories
<1>9. history'[n].begun = history[n].begun /\ ~ (history[n].begun > 0)
  BY <1>1, <1>2 DEF RemovalInv, RemovalSafe, FromItsRequest, Prepared, Histories
<1>10. /\ \A m \in Nonces : ~ Ready(plan, m)'
       /\ \A m \in Nonces, h \in Helpers : HeldBy(h, m)' <=> HeldBy(h, m)
  BY <1>1, RemovalNumbers DEF Ready, RemovalPlans, Removal!DeletionPlan, Removal!PlanState, HeldBy, Holding
<1>11. (\A h \in Helpers : ~ HeldBy(h, n)) /\ \A u \in Threads : ~ Fills(u, n)
  BY <1>1 DEF RemovalInv, RemovalSafe, FromItsRequest, Prepared
<1>12. \A m \in Nonces, u \in Threads : Fills(u, m)' <=> (u = t /\ m = n) \/ (u # t /\ Fills(u, m))
  BY <1>3, <1>5, RemovalTypes DEF Fills
<1>13. \A u \in Threads \ {t} : removing'[u] = removing[u]
  BY <1>5, RemovalTypes
<1>14. removing'[t].seen.expires = removalClock + PLAN_TTL
  BY <1>3, <1>5, RemovalTypes
<1>15. FromItsRequest'
  <2>1. ASSUME NEW m \in Nonces, m # n
        PROVE  /\ \A u \in Threads : Fills(u, m)' => Prepared(m)' /\ removing'[u].seen.expires = history'[m].prepared + PLAN_TTL
               /\ \A h \in Helpers : HeldBy(h, m)' => Prepared(m)' /\ helper'[h].at < history'[m].prepared + PLAN_TTL
               /\ history'[m].begun > 0 => Prepared(m)' /\ history'[m].at < history'[m].prepared + PLAN_TTL
    <3>1. /\ \A u \in Threads : Fills(u, m) => Prepared(m) /\ removing[u].seen.expires = history[m].prepared + PLAN_TTL
          /\ \A h \in Helpers : HeldBy(h, m) => Prepared(m) /\ helper[h].at < history[m].prepared + PLAN_TTL
          /\ history[m].begun > 0 => Prepared(m) /\ history[m].at < history[m].prepared + PLAN_TTL
      BY DEF RemovalInv, RemovalSafe, FromItsRequest
    <3>2. /\ history'[m] = history[m] /\ (Prepared(m)' <=> Prepared(m)) /\ helper' = helper
          /\ \A h \in Helpers : HeldBy(h, m)' <=> HeldBy(h, m)
      BY <1>1, <2>1, <1>8, <1>10
    <3>3. \A u \in Threads : Fills(u, m)' => Fills(u, m) /\ removing'[u] = removing[u]
      BY <2>1, <1>12, <1>13
    <3> QED BY <3>1, <3>2, <3>3
  <2>2. \A u \in Threads : Fills(u, n)' => Prepared(n)' /\ removing'[u].seen.expires = history'[n].prepared + PLAN_TTL
    BY <1>7, <1>11, <1>12, <1>14
  <2>3. QED
    BY <1>9, <1>10, <1>11, <2>1, <2>2 DEF FromItsRequest
<1>16. FilledOnce'
  BY <1>2, <1>8, <1>9, <1>10, <1>11, <1>12 DEF RemovalInv, RemovalSafe, FilledOnce
<1>17. SharedIsKnown'
  BY <1>8, <1>10, <1>11 DEF RemovalInv, RemovalSafe, SharedIsKnown
<1>18. BegunOnce'
  BY <1>8, <1>9, <1>10 DEF RemovalInv, RemovalSafe, BegunOnce
<1>19. QED
  BY <1>6, <1>15, <1>16, <1>17, <1>18 DEF RemovalInv, RemovalSafe

LEMMA RemovalFills ==
  ASSUME RemovalInv, NEW t \in Threads, Removal!FillPlan(t)
  PROVE  RemovalInv'
<1> PICK p : p = removing[t].seen
  OBVIOUS
<1>1. /\ removing[t].pc = "fill" /\ plan' = p
      /\ removing' = [removing EXCEPT ![t] = Removal!Idle]
      /\ UNCHANGED <<expired, ledger, receipts, root, api, waiting, helper, removalClock, history>>
  BY DEF Removal!FillPlan, Removal!To
<1>2. p \in RemovalPlans /\ p.state = "READY" /\ p.nonce \in Nonces
  BY <1>1, RemovalTypes DEF RequestSound, RemovalPlans, Removal!DeletionPlan
<1>3. RemovalTyped'
  <2>1. removing' \in [Threads -> Requesting] /\ \A u \in Threads : RequestSound(removing'[u])
    BY <1>1, RemovalIdle, RemovalTypes DEF RequestSound
  <2>2. helper' = helper /\ expired' = expired /\ history' = history
    BY <1>1
  <2> QED
    BY <1>1, <1>2, <2>1, <2>2 DEF RemovalInv, RemovalTyped, RequestSound, HelperSound, ExpiredSound
<1>4. \A m \in Nonces : /\ Ready(plan, m)' <=> m = p.nonce
                        /\ Prepared(m)' <=> Prepared(m)
                        /\ \A h \in Helpers : HeldBy(h, m)' <=> HeldBy(h, m)
  BY <1>1, <1>2 DEF Ready, Prepared, HeldBy, Holding, RemovalPlans, Removal!DeletionPlan, Removal!PlanState
<1>5. \A m \in Nonces, u \in Threads : Fills(u, m)' => u # t /\ Fills(u, m) /\ removing'[u] = removing[u]
  BY <1>1, RemovalIdle, RemovalTypes DEF Fills
<1>6. Fills(t, p.nonce)
  BY <1>1 DEF Fills
<1>7. FromItsRequest'
  BY <1>1, <1>2, <1>4, <1>5, <1>6 DEF RemovalInv, RemovalSafe, FromItsRequest
<1>8. FilledOnce'
  BY <1>1, <1>2, <1>4, <1>5, <1>6 DEF RemovalInv, RemovalSafe, FilledOnce
<1>9. SharedIsKnown' /\ BegunOnce'
  BY <1>1, <1>2, <1>4, <1>6 DEF RemovalInv, RemovalSafe, SharedIsKnown, BegunOnce, FilledOnce
<1>10. QED
  BY <1>3, <1>7, <1>8, <1>9 DEF RemovalInv, RemovalSafe

\* A helper takes a plan that is READY; it is not the first if another holds the plan.
LEMMA RemovalValidates ==
  ASSUME RemovalInv, NEW h \in Helpers, Removal!HelperValidate(h)
  PROVE  RemovalInv'
<1>1. UNCHANGED <<plan, expired, ledger, receipts, root, api, waiting, removing, removalClock>>
  BY DEF Removal!HelperValidate
<1>2. CASE helper' = [helper EXCEPT ![h] = Removal!NoHelper] /\ UNCHANGED history
  BY <1>1, <1>2, RemovalNoHelper, RemovalTypes, RemovalHelper
<1>3. CASE Removal!IsExecutable(plan)
  <2> DEFINE n == plan.nonce
             q == [Removal!NoHelper EXCEPT !.pc = "check", !.plan = plan, !.next = 1, !.at = removalClock]
             held == \E k \in Helpers : HeldBy(k, n)
  <2>1. plan \in RemovalPlans /\ Ready(plan, n) /\ n \in Nonces /\ removalClock < plan.expires
        /\ removalClock \in 0..RemovalTime
    BY <1>3 DEF Removal!IsExecutable, RemovalPlans, Removal!DeletionPlan, Ready, RemovalInv, RemovalTyped
  <2>2. HelperSound(q) /\ q.pc = "check" /\ q.plan = plan /\ q.at = removalClock
    <3>1. Removal!NoHelper \in Helping
      BY RemovalNoHelper DEF HelperSound
    <3>2. 1 \in 0..(EntryCount + 1)
      BY RemovalNumbers
    <3>3. q \in Helping /\ q.pc = "check" /\ q.plan = plan /\ q.at = removalClock
      BY <2>1, <3>1, <3>2 DEF Helping
    <3> HIDE DEF q
    <3> QED
      BY <2>1, <3>3 DEF HelperSound
  <2>3. helper' = [helper EXCEPT ![h] = q] /\ history' = [history EXCEPT ![n].shared = @ \/ held]
    BY <1>3 DEF Removal!HelperValidate, Removal!Helper, Removal!Holds, HeldBy, Holding
  <2>4. helper \in [Helpers -> Helping] /\ history \in Histories
    BY RemovalTypes DEF RemovalInv, RemovalTyped
  <2>5. held \in BOOLEAN
    OBVIOUS
  <2> HIDE DEF q
  <2>7. \A k \in Helpers, m \in Nonces : HeldBy(k, m)' <=> (k = h /\ m = n) \/ (k # h /\ HeldBy(k, m))
    BY <2>2, <2>3, <2>4 DEF HeldBy, Holding
  <2>8. /\ helper' \in [Helpers -> Helping] /\ \A k \in Helpers : HelperSound(helper'[k])
        /\ helper'[h].at = removalClock /\ \A k \in Helpers \ {h} : helper'[k] = helper[k]
    BY <2>2, <2>3, RemovalTypes DEF HelperSound
  <2> DEFINE kept(m) == /\ history'[m].issued = history[m].issued /\ history'[m].backup = history[m].backup
                        /\ history'[m].prepared = history[m].prepared /\ history'[m].begun = history[m].begun
                        /\ history'[m].at = history[m].at
  <2> HIDE DEF held
  <2>9. /\ history' \in Histories /\ \A m \in Nonces \ {n} : history'[m] = history[m]
        /\ kept(n) /\ history'[n].shared = (history[n].shared \/ held)
    BY <2>1, <2>3, <2>4, <2>5 DEF Histories
  <2>10. \A m \in Nonces : kept(m)
    BY <2>9
  <2> HIDE DEF n
  <2>11. RemovalTyped'
    BY <1>1, <2>8, <2>9, RemovalTypes DEF RemovalTyped, RequestSound, HelperSound, ExpiredSound
  <2>12. \A m \in Nonces :
          /\ Ready(plan, m)' <=> Ready(plan, m)
          /\ Prepared(m)' <=> Prepared(m)
          /\ \A u \in Threads : Fills(u, m)' <=> Fills(u, m)
    BY <1>1, <2>10 DEF Ready, Prepared, Fills, RemovalPlans, Removal!DeletionPlan, Removal!PlanState
  <2>13. FromItsRequest'
    <3>1. ASSUME NEW m \in Nonces
          PROVE  /\ Ready(plan, m) => Prepared(m) /\ plan.expires = history[m].prepared + PLAN_TTL
                 /\ \A t \in Threads : Fills(t, m) => Prepared(m) /\ removing[t].seen.expires = history[m].prepared + PLAN_TTL
                 /\ \A k \in Helpers : HeldBy(k, m) => Prepared(m) /\ helper[k].at < history[m].prepared + PLAN_TTL
                 /\ history[m].begun > 0 => Prepared(m) /\ history[m].at < history[m].prepared + PLAN_TTL
      BY DEF RemovalInv, RemovalSafe, FromItsRequest
    <3>2. plan' = plan /\ removing' = removing
      BY <1>1
    <3>3. ASSUME NEW m \in Nonces
          PROVE  /\ Ready(plan, m)' => Prepared(m)' /\ plan'.expires = history'[m].prepared + PLAN_TTL
                 /\ \A t \in Threads : Fills(t, m)' => Prepared(m)' /\ removing'[t].seen.expires = history'[m].prepared + PLAN_TTL
                 /\ history'[m].begun > 0 => Prepared(m)' /\ history'[m].at < history'[m].prepared + PLAN_TTL
      BY <2>10, <2>12, <3>1, <3>2
    <3>4. ASSUME NEW m \in Nonces, NEW k \in Helpers, HeldBy(k, m)'
          PROVE  Prepared(m)' /\ helper'[k].at < history'[m].prepared + PLAN_TTL
      <4>1. CASE k = h
        <5>1. m = n /\ helper'[k].at = removalClock /\ Ready(plan, m)
          BY <2>1, <2>7, <2>8, <3>4, <4>1
        <5>2. Prepared(m) /\ removalClock < history[m].prepared + PLAN_TTL
          BY <2>1, <3>1, <5>1
        <5> QED BY <2>10, <2>12, <5>1, <5>2
      <4>2. CASE k # h
        BY <2>7, <2>8, <2>10, <2>12, <3>1, <3>4, <4>2
      <4> QED BY <4>1, <4>2
    <3> QED BY <3>3, <3>4 DEF FromItsRequest
  <2>14. FilledOnce'
    BY <2>1, <2>7, <2>10, <2>12 DEF RemovalInv, RemovalSafe, FilledOnce
  <2>15. SharedIsKnown'
    <3>1. \A m \in Nonces : history[m].shared => history'[m].shared
      BY <2>9
    <3>2. (\E k \in Helpers : HeldBy(k, n)) => history'[n].shared
      BY <2>9 DEF held
    <3> QED
      BY <2>7, <3>1, <3>2 DEF RemovalInv, RemovalSafe, SharedIsKnown
  <2>16. BegunOnce'
    <3>1. ~ (history[n].begun > 0)
      BY <2>1 DEF RemovalInv, RemovalSafe, BegunOnce
    <3> QED
      BY <2>7, <2>9, <2>10, <2>12, <3>1 DEF RemovalInv, RemovalSafe, BegunOnce
  <2> QED BY <2>11, <2>13, <2>14, <2>15, <2>16 DEF RemovalInv, RemovalSafe
<1>4. QED
  BY <1>2, <1>3 DEF Removal!HelperValidate, Removal!Helper

\* A helper marks the plan before it deletes; from there it is READY nowhere.
LEMMA RemovalMarks ==
  ASSUME RemovalInv, NEW h \in Helpers, Removal!HelperMark(h)
  PROVE  RemovalInv'
<1> PICK n : n = helper[h].plan.nonce
  OBVIOUS
<1>1. /\ helper[h].pc = "mark" /\ helper[h] \in Helping /\ helper[h].plan \in RemovalPlans /\ n \in Nonces /\ HeldBy(h, n)
      /\ UNCHANGED <<expired, ledger, receipts, root, api, waiting, removing, removalClock>>
  BY RemovalTypes DEF Removal!HelperMark, HelperSound, RemovalPlans, Removal!DeletionPlan, HeldBy, Holding
<1>2. CASE UNCHANGED <<plan, history>> /\ helper' = [helper EXCEPT ![h] = Removal!NoHelper]
  BY <1>1, <1>2, RemovalNoHelper, RemovalTypes, RemovalHelper
<1>3. CASE /\ plan' = [helper[h].plan EXCEPT !.state = "IN_PROGRESS"]
           /\ helper' = [helper EXCEPT ![h] = [helper[h] EXCEPT !.pc = "delete"]]
           /\ history' = [history EXCEPT ![n].begun = @ + 1, ![n].at = helper[h].at]
  <2>1. plan' \in RemovalPlans /\ plan'.state = "IN_PROGRESS"
    BY <1>1, <1>3, PlanInState DEF Removal!PlanState
  <2>2. HelperSound([helper[h] EXCEPT !.pc = "delete"]) /\ [helper[h] EXCEPT !.pc = "delete"].pc = "delete"
        /\ helper[h].at \in 0..RemovalTime
    BY <1>1 DEF HelperSound, Helping
  <2>3. /\ helper' \in [Helpers -> Helping] /\ \A k \in Helpers : HelperSound(helper'[k])
        /\ \A k \in Helpers \ {h} : helper'[k] = helper[k]
        /\ helper'[h].pc = "delete"
    BY <1>3, <2>2, RemovalTypes DEF HelperSound
  <2>4. history \in Histories /\ history[n].begun \in Nat
    BY <1>1 DEF RemovalInv, RemovalTyped, Histories
  <2>5. /\ history' \in Histories /\ history'[n].begun = history[n].begun + 1 /\ history'[n].at = helper[h].at
        /\ history'[n].shared = history[n].shared /\ history'[n].prepared = history[n].prepared
        /\ history'[n].issued = history[n].issued /\ history'[n].backup = history[n].backup
        /\ \A m \in Nonces \ {n} : history'[m] = history[m]
    <3> DEFINE H == [issued : BOOLEAN, backup : 0..RemovalTime, prepared : 0..RemovalTime, begun : Nat,
                     at : 0..RemovalTime, shared : BOOLEAN]
               new == [history[n] EXCEPT !.begun = @ + 1, !.at = helper[h].at]
    <3>1. history[n] \in H
      BY <1>1, <2>4 DEF Histories
    <3>2. /\ new.begun = history[n].begun + 1 /\ new.at = helper[h].at
          /\ new.shared = history[n].shared /\ new.prepared = history[n].prepared
          /\ new.issued = history[n].issued /\ new.backup = history[n].backup
      BY <3>1
    <3>4. history[n].begun + 1 \in Nat
      BY <2>4
    <3>5. new \in H
      BY <2>2, <3>1, <3>4
    <3>3. history' = [history EXCEPT ![n] = new]
      BY <1>3
    <3> HIDE DEF new
    <3> QED
      BY <1>1, <2>4, <3>2, <3>3, <3>5 DEF Histories
  <2>6. RemovalTyped'
    BY <1>1, <2>1, <2>3, <2>5, RemovalTypes DEF RemovalTyped, RequestSound, HelperSound, ExpiredSound
  <2>7. \A m \in Nonces : ~ Ready(plan, m)'
    BY <2>1 DEF Ready
  <2>8. \A m \in Nonces, k \in Helpers : HeldBy(k, m)' <=> k # h /\ HeldBy(k, m)
    BY <2>3 DEF HeldBy, Holding
  <2>9. \A m \in Nonces :
          /\ Prepared(m)' <=> Prepared(m)
          /\ history'[m].prepared = history[m].prepared /\ (history'[m].shared <=> history[m].shared)
          /\ \A u \in Threads : Fills(u, m)' <=> Fills(u, m)
    BY <1>1, <2>5 DEF Fills, Prepared
  <2>10. \A t \in Threads : ~ Fills(t, n)
    BY <1>1 DEF RemovalInv, RemovalSafe, FilledOnce
  <2>11. FromItsRequest'
    <3>1. ASSUME NEW m \in Nonces
          PROVE  /\ \A t \in Threads : Fills(t, m) => Prepared(m) /\ removing[t].seen.expires = history[m].prepared + PLAN_TTL
                 /\ \A k \in Helpers : HeldBy(k, m) => Prepared(m) /\ helper[k].at < history[m].prepared + PLAN_TTL
                 /\ history[m].begun > 0 => Prepared(m) /\ history[m].at < history[m].prepared + PLAN_TTL
      BY DEF RemovalInv, RemovalSafe, FromItsRequest
    <3>2. ASSUME NEW m \in Nonces
          PROVE  history'[m].begun > 0 => Prepared(m)' /\ history'[m].at < history'[m].prepared + PLAN_TTL
      <4>1. CASE m = n
        BY <1>1, <2>5, <2>9, <3>1, <4>1
      <4>2. CASE m # n
        BY <2>5, <2>9, <3>1, <4>2
      <4> QED BY <4>1, <4>2
    <3>3. removing' = removing
      BY <1>1
    <3>4. ASSUME NEW m \in Nonces, NEW k \in Helpers, HeldBy(k, m)'
          PROVE  Prepared(m)' /\ helper'[k].at < history'[m].prepared + PLAN_TTL
      BY <2>3, <2>8, <2>9, <3>1, <3>4
    <3> QED BY <2>7, <2>9, <3>1, <3>2, <3>3, <3>4 DEF FromItsRequest
  <2>12. FilledOnce'
    BY <2>5, <2>7, <2>8, <2>9, <2>10 DEF RemovalInv, RemovalSafe, FilledOnce
  <2>13. SharedIsKnown'
    BY <2>8, <2>9 DEF RemovalInv, RemovalSafe, SharedIsKnown
  <2>14. BegunOnce'
    <3>1. ASSUME ~ history[n].shared
          PROVE  history[n].begun = 0 /\ \A k \in Helpers : ~ HeldBy(k, n)'
      BY <1>1, <2>4, <2>8, <3>1 DEF RemovalInv, RemovalSafe, BegunOnce, SharedIsKnown
    <3>2. history'[n].shared \/ (history'[n].begun = 1 /\ \A k \in Helpers : ~ HeldBy(k, n)')
      BY <2>5, <3>1
    <3>3. ASSUME NEW m \in Nonces, m # n, history'[m].begun > 0
          PROVE  history'[m].shared \/ (history'[m].begun = 1 /\ \A k \in Helpers : ~ HeldBy(k, m)')
      <4>1. history'[m] = history[m]
        BY <2>5, <3>3
      <4>2. history[m].shared \/ (history[m].begun = 1 /\ \A k \in Helpers : ~ HeldBy(k, m))
        BY <3>3, <4>1 DEF RemovalInv, RemovalSafe, BegunOnce
      <4> QED BY <2>8, <4>1, <4>2
    <3> QED BY <2>7, <3>2, <3>3 DEF BegunOnce
  <2> QED BY <2>6, <2>11, <2>12, <2>13, <2>14 DEF RemovalInv, RemovalSafe
<1>4. QED
  BY <1>2, <1>3 DEF Removal!HelperMark, Removal!Helper

\* Every other step of a helper takes it on with the plan it holds, or ends it.
LEMMA RemovalHelps ==
  ASSUME RemovalInv, NEW h \in Helpers,
         \/ Removal!HelperCheck(h) \/ Removal!HelperMerge(h) \/ Removal!HelperConsume(h)
         \/ Removal!HelperDelete(h) \/ Removal!HelperFinish(h) \/ Removal!KillHelper(h)
  PROVE  RemovalInv'
<1>1. /\ plan \in RemovalPlans \cup {None, Torn} /\ ledger \subseteq Nonces /\ root \subseteq Removal!Entries
      /\ HelperSound(helper[h]) /\ helper[h] \in Helping /\ waiting \in Helpers \cup {None}
  BY RemovalTypes
<1>2. ASSUME helper[h].pc \notin {"idle", "validate"}
      PROVE  helper[h].plan \in RemovalPlans /\ helper[h].plan.nonce \in Nonces
  BY <1>1, <1>2 DEF HelperSound, RemovalPlans, Removal!DeletionPlan
<1>3. CASE Removal!HelperCheck(h)
  <2>1. PICK q \in {Removal!NoHelper, [helper[h] EXCEPT !.pc = "merge"]} : helper' = [helper EXCEPT ![h] = q]
    BY <1>3 DEF Removal!HelperCheck, Removal!Helper
  <2>2. HelperSound([helper[h] EXCEPT !.pc = "merge"]) /\ [helper[h] EXCEPT !.pc = "merge"].plan = helper[h].plan
        /\ [helper[h] EXCEPT !.pc = "merge"].at = helper[h].at /\ helper[h].pc \in Holding
    BY <1>1, <1>2, <1>3 DEF Removal!HelperCheck, HelperSound, Helping, Holding
  <2> QED
    BY <1>1, <1>3, <2>1, <2>2, RemovalNoHelper, RemovalHelper DEF Removal!HelperCheck
<1>4. CASE Removal!HelperMerge(h)
  <2>1. PICK used \in Removal!ReadLedger : Removal!Helper(h, [helper[h] EXCEPT !.pc = "consume", !.used = used])
    BY <1>4, Zenon DEF Removal!HelperMerge
  <2>2. used \subseteq Nonces
    BY <1>1, <2>1 DEF Removal!ReadLedger
  <2> PICK q : q = [helper[h] EXCEPT !.pc = "consume", !.used = used]
    OBVIOUS
  <2>3. HelperSound(q) /\ q.plan = helper[h].plan /\ q.at = helper[h].at /\ helper[h].pc \in Holding
    <3>1. helper[h].pc = "merge"
      BY <1>4, Zenon DEF Removal!HelperMerge
    <3>2. q = [pc |-> "consume", plan |-> helper[h].plan, used |-> used, next |-> helper[h].next, at |-> helper[h].at]
      BY <1>1 DEF Helping
    <3> QED
      BY <1>1, <1>2, <2>2, <3>1, <3>2 DEF HelperSound, Helping, Holding
  <2>4. helper' = [helper EXCEPT ![h] = q]
    BY <2>1 DEF Removal!Helper
  <2>5. UNCHANGED <<plan, expired, ledger, receipts, root, api, waiting, removing, removalClock, history>>
    BY <1>4, Zenon DEF Removal!HelperMerge
  <2> QED
    BY <1>1, <2>3, <2>4, <2>5, RemovalHelper
<1>5. CASE Removal!HelperConsume(h)
  <2>1. Removal!LastOf(helper[h].used \cup {helper[h].plan.nonce}) \subseteq Nonces
    BY <1>1, <1>2, <1>5 DEF Removal!HelperConsume, Removal!LastOf, Helping
  <2> DEFINE q == [helper[h] EXCEPT !.pc = "mark", !.used = {}]
  <2>2. HelperSound(q) /\ q.plan = helper[h].plan /\ q.at = helper[h].at /\ helper[h].pc \in Holding
    BY <1>1, <1>2, <1>5 DEF Removal!HelperConsume, HelperSound, Helping, Holding
  <2>3. CASE helper' = [helper EXCEPT ![h] = q]
    BY <1>1, <1>5, <2>1, <2>2, <2>3, RemovalHelper DEF Removal!HelperConsume
  <2>4. CASE helper' = [helper EXCEPT ![h] = Removal!NoHelper]
    BY <1>1, <1>5, <2>1, <2>4, RemovalNoHelper, RemovalHelper DEF Removal!HelperConsume
  <2> QED
    BY <1>5, <2>3, <2>4 DEF Removal!HelperConsume, Removal!Helper
<1>6. CASE Removal!HelperDelete(h)
  <2>1. helper[h].plan \in RemovalPlans /\ EntryCount \in Nat /\ helper[h].next \in 0..(EntryCount + 1)
        /\ helper[h].pc = "delete"
    BY <1>1, <1>2, <1>6, RemovalNumbers DEF Removal!HelperDelete, Helping
  <2>2. PICK q : /\ helper' = [helper EXCEPT ![h] = q]
                 /\ \/ helper[h].next <= EntryCount /\ q = [helper[h] EXCEPT !.next = @ + 1]
                    \/ q = [helper[h] EXCEPT !.pc = "fail"]
                    \/ q = [helper[h] EXCEPT !.pc = "complete"]
    BY <1>6 DEF Removal!HelperDelete, Removal!Helper
  <2>3. HelperSound(q) /\ q.pc \notin Holding
    BY <1>1, <2>1, <2>2 DEF HelperSound, Helping, Holding
  <2>4. root' \subseteq Removal!Entries
    BY <1>1, <1>6 DEF Removal!HelperDelete
  <2> QED
    BY <1>1, <1>6, <2>2, <2>3, <2>4, RemovalHelper DEF Removal!HelperDelete
<1>7. CASE Removal!HelperFinish(h)
  <2> PICK outcome : outcome = Removal!Outcome(h)
    OBVIOUS
  <2>1. outcome \in Removal!PlanState /\ outcome # "READY"
    BY DEF Removal!Outcome, Removal!PlanState
  <2>2. plan' = plan \/ plan' = [helper[h].plan EXCEPT !.state = outcome]
    BY <1>7 DEF Removal!HelperFinish
  <2>3. helper[h].plan \in RemovalPlans
    BY <1>2, <1>7 DEF Removal!HelperFinish
  <2>4. plan' = plan \/ (plan' \in RemovalPlans /\ plan'.state # "READY")
    <3> PICK p : p = [helper[h].plan EXCEPT !.state = outcome]
      OBVIOUS
    <3>1. p \in RemovalPlans /\ p.state = outcome
      BY <2>1, <2>3, PlanInState
    <3> QED
      BY <2>1, <2>2, <3>1
  <2> QED
    BY <1>1, <1>7, <2>4, RemovalNoHelper, RemovalHelper DEF Removal!HelperFinish, Removal!Helper
<1>8. CASE Removal!KillHelper(h)
  BY <1>1, <1>8, RemovalNoHelper, RemovalHelper DEF Removal!KillHelper, Removal!Helper
<1> QED
  BY <1>3, <1>4, <1>5, <1>6, <1>7, <1>8

\* The shell ends the requests with their process, and starts a helper that has
\* validated nothing yet.
LEMMA RemovalStops ==
  ASSUME RemovalInv, Removal!Stop
  PROVE  RemovalInv'
<1>1. /\ removing' = [t \in Threads |-> Removal!Idle] /\ api' = FALSE /\ receipts' = {} /\ expired' = None
      /\ UNCHANGED <<plan, ledger, root, removalClock, history>>
  BY DEF Removal!Stop
<1>2. /\ removing' \in [Threads -> Requesting] /\ \A t \in Threads : RequestSound(removing'[t])
      /\ \A t \in Threads : removing'[t].pc = "fill" => removing'[t] = removing[t]
  BY <1>1, RemovalIdle DEF RequestSound
<1>3. /\ waiting' \in Helpers \cup {None}
      /\ helper' \in [Helpers -> Helping] /\ \A h \in Helpers : HelperSound(helper'[h])
      /\ \A h \in Helpers : helper'[h].pc \in Holding =>
           helper[h].pc \in Holding /\ helper'[h].plan = helper[h].plan /\ helper'[h].at = helper[h].at
  <2>1. CASE UNCHANGED <<waiting, helper>>
    BY <2>1, RemovalTypes DEF HelperSound
  <2>2. CASE ~ UNCHANGED <<waiting, helper>>
    <3>1. PICK h \in Helpers : waiting' = h /\ helper' = [helper EXCEPT ![h] = [Removal!NoHelper EXCEPT !.pc = "validate"]]
      BY <2>2 DEF Removal!Stop, Removal!Helper
    <3> QED
      BY <3>1, RemovalNoHelper, RemovalTypes DEF HelperSound
  <2> QED BY <2>1, <2>2
<1>4. ExpiredSound(expired') /\ receipts' \subseteq 0..RemovalTime /\ api' \in BOOLEAN
  BY <1>1 DEF ExpiredSound
<1> QED
  BY <1>1, <1>2, <1>3, <1>4, RemovalTypes, RemovalOther

LEMMA RemovalKeeps == RemovalInv /\ [Removal!Next]_(Removal!vars) => RemovalInv'
<1> SUFFICES ASSUME RemovalInv, [Removal!Next]_(Removal!vars) PROVE RemovalInv' OBVIOUS
<1>1. ASSUME UNCHANGED <<removing, helper, history>>, plan' = plan \/ plan' = None,
             expired' = expired, ledger' = ledger, root' \subseteq Removal!Entries,
             receipts' \subseteq 0..RemovalTime, removalClock' \in 0..RemovalTime,
             api' \in BOOLEAN, waiting' \in Helpers \cup {None}
      PROVE  RemovalInv'
  <2>1. removing' = removing /\ helper' = helper /\ history' = history
    BY <1>1
  <2> QED
    BY <1>1, <2>1, RemovalNumbers, RemovalTypes, RemovalOther
<1>2. CASE Removal!Cancel
  BY <1>1, <1>2, RemovalTypes DEF Removal!Cancel
<1>3. CASE Removal!CreateBackup
  BY <1>1, <1>3, RemovalTypes DEF Removal!CreateBackup
<1>4. CASE Removal!HelperGone \/ Removal!ShellKilled
  BY <1>1, <1>4, RemovalTypes DEF Removal!HelperGone, Removal!ShellKilled
<1>5. CASE Removal!Start
  BY <1>1, <1>5, RemovalTypes DEF Removal!Start
<1>6. CASE Removal!Tick
  <2>1. removalClock' \in 0..RemovalTime
    BY <1>6, RemovalTypes DEF Removal!Tick
  <2> QED
    BY <1>1, <1>6, <2>1, RemovalTypes DEF Removal!Tick
<1>7. CASE UNCHANGED Removal!vars
  BY <1>1, <1>7, RemovalTypes DEF Removal!vars
<1>8. ASSUME NEW t \in Threads, Removal!RefusePrepare(t) PROVE RemovalInv'
  BY <1>8, RemovalIdle, RemovalTypes, RemovalRequest DEF Removal!RefusePrepare, Removal!To
<1> QED
  BY <1>2, <1>3, <1>4, <1>5, <1>6, <1>7, <1>8, RemovalReads, RemovalExpires, RemovalOpens, RemovalFills,
     RemovalValidates, RemovalMarks, RemovalHelps, RemovalStops
  DEF Removal!Next, Removal!RequestStep, Removal!HelperStep, Removal!ShellStep

\* However often plans are prepared, cancelled and expire, however many helpers run at
\* one time and whatever is killed: a plan deletes within its time and behind a backup,
\* and once unless a helper validated it while another held it and had not marked it.
THEOREM RemovedOnceAndBackedUp == LocalSpec => [](Removal!TypeOK /\ ExecutedOnceAndBackedUp)
<1>1. RemovalInv => Removal!TypeOK
  BY DEF RemovalInv, RemovalTyped, Removal!TypeOK, RemovalPlans, Requesting, Helping, Histories, ExpiredSound
<1>2. RemovalInv => ExecutedOnceAndBackedUp
  BY DEF RemovalInv, RemovalSafe, FromItsRequest, BegunOnce, Prepared, ExecutedOnceAndBackedUp,
         Removal!ExecutedOnceAndBackedUp
<1>3. QED
  BY RemovalInit, RemovalKeeps, EachServiceRuns, <1>1, <1>2, PTL DEF Removal!Spec
-----------------------------------------------------------------------------
(* Backups on their way to a pending restore *)

StagingSteps == {"write", "written", "mark", "status", "cancel", "forget"}
StagingTyped ==
  /\ candidate \in [Sessions -> {"none", "partial", "whole"}]
  /\ session \in [Sessions -> {"none", "open", "expired"}]
  /\ request \in [Threads -> {Idle} \cup [pc : StagingSteps, session : Sessions]]

\* A thread that still writes what it stages: nobody else knows the session.
StillWrites(t) == request[t].pc \in {"write", "written"}
Alone ==
  \A t \in Threads : StillWrites(t) =>
    /\ session[request[t].session] = "none" /\ request[t].session \notin cancelled
    /\ request[t].pc = "write" => candidate[request[t].session] = "none"
    /\ request[t].pc = "written" => candidate[request[t].session] = "partial"
    /\ \A u \in Threads \ {t} : StillWrites(u) => request[u].session # request[t].session
\* What was staged keeps its session file until it is cancelled.
Known(s) == s \in Sessions /\ (session[s] # "none" \/ s \in cancelled)
Whole(s) == Known(s) /\ (candidate[s] = "whole" \/ s \in cancelled)
Marked ==
  /\ pending # None => Whole(pending)
  /\ \A t \in Threads : request[t].pc = "mark" => Whole(request[t].session)
  /\ \A t \in Threads : request[t].pc \in {"cancel", "forget"} => request[t].session \in cancelled
\* A candidate that was applied has become the database.
Moved == applied # None => Known(applied) /\ candidate[applied] = "none"
StagingInv == StagingTyped /\ Alone /\ Marked /\ Moved
LEMMA StagingInit == Init => StagingInv
  BY DEF Init, StagingInv, StagingTyped, Alone, StillWrites, Marked, Moved, Idle, StagingSteps

\* Every step keeps the invariant.
LEMMA StagingKeeps == StagingInv /\ [Next]_vars => StagingInv'
<1> SUFFICES ASSUME StagingInv, [Next]_vars PROVE StagingInv' OBVIOUS
<1> USE DEF StagingInv
<1>1. ASSUME NEW t \in Threads, NEW s \in Sessions, BeginStage(t, s) PROVE StagingInv'
  BY <1>1 DEF BeginStage, Unused, At, To, StagingTyped, Alone, StillWrites, Marked, Moved, Known, Whole, Idle, StagingSteps
<1>2. ASSUME NEW t \in Threads, NEW s \in Sessions, CheckConfirm(t, s) PROVE StagingInv'
  BY <1>2 DEF CheckConfirm, At, To, StagingTyped, Alone, StillWrites, Marked, Moved, Known, Whole, Idle, StagingSteps
<1>3. ASSUME NEW t \in Threads, NEW s \in Sessions, ReadCancel(t, s) PROVE StagingInv'
  BY <1>3 DEF ReadCancel, At, To, StagingTyped, Alone, StillWrites, Marked, Moved, Known, Whole, Idle, StagingSteps
<1>4. ASSUME NEW t \in Threads, WriteCandidate(t) PROVE StagingInv'
  BY <1>4 DEF WriteCandidate, At, To, Ends, StagingTyped, Alone, StillWrites, Marked, Moved, Known, Whole, Idle, StagingSteps
<1>5. ASSUME NEW t \in Threads, WriteSession(t) PROVE StagingInv'
  BY <1>5 DEF WriteSession, At, To, Ends, StagingTyped, Alone, StillWrites, Marked, Moved, Known, Whole, Idle, StagingSteps
<1>6. ASSUME NEW t \in Threads, WriteMarker(t) PROVE StagingInv'
  BY <1>6 DEF WriteMarker, At, To, Ends, StagingTyped, Alone, StillWrites, Marked, Moved, Known, Whole, Idle, StagingSteps
<1>7. ASSUME NEW t \in Threads, WriteStatus(t) PROVE StagingInv'
  BY <1>7 DEF WriteStatus, At, To, Ends, StagingTyped, Alone, StillWrites, Marked, Moved, Known, Whole, Idle, StagingSteps
<1>8. ASSUME NEW t \in Threads, RemoveCandidate(t) PROVE StagingInv'
  BY <1>8 DEF RemoveCandidate, At, To, Ends, StagingTyped, Alone, StillWrites, Marked, Moved, Known, Whole, Idle, StagingSteps
<1>9. ASSUME NEW t \in Threads, RemoveSession(t) PROVE StagingInv'
  BY <1>9 DEF RemoveSession, At, To, Ends, StagingTyped, Alone, StillWrites, Marked, Moved, Known, Whole, Idle, StagingSteps
<1>10. ASSUME NEW s \in Sessions, Expire(s) PROVE StagingInv'
  BY <1>10 DEF Expire, StagingTyped, Alone, StillWrites, Marked, Moved, Known, Whole
<1>11. CASE Restart
  BY <1>11 DEF Restart, StagingTyped, Alone, StillWrites, Marked, Moved, Known, Whole, Idle
<1>12. CASE Finalize
  BY <1>12 DEF Finalize, StagingTyped, Alone, StillWrites, Marked, Moved, Known, Whole
<1>13. CASE UNCHANGED vars
  BY <1>13 DEF vars, StagingTyped, Alone, StillWrites, Marked, Moved, Known, Whole
<1>14. QED
  BY <1>1, <1>2, <1>3, <1>4, <1>5, <1>6, <1>7, <1>8, <1>9, <1>10, <1>11, <1>12, <1>13
  DEF Next, ThreadStep

\* Whatever requests, restarts and finished restores interleave, a pending restore
\* names a candidate that is as it was validated, or a session that was cancelled.
THEOREM PendingIsApplicable == LocalSpec => []PendingCanBeApplied
<1>1. StagingInv => PendingCanBeApplied
  BY SMTT(60) DEF StagingInv, Marked, Whole, PendingCanBeApplied
<1>2. Spec => []PendingCanBeApplied
  BY StagingInit, StagingKeeps, <1>1, PTL DEF Spec
<1>3. QED
  BY <1>2, EachServiceRuns, PTL
-----------------------------------------------------------------------------
(* The runtime manifest *)

RuntimeStates ==
  {"new", "lock", "old", "again", "check", "write", "unlock", "lifespan", "bind", "serving",
   "closed", "unlink", "gone"}
RuntimeTyped ==
  /\ pc \in [Procs -> RuntimeStates] /\ phase \in [Procs -> Runtime!Manifest \cup {None}]
  /\ lock \in Runtime!Lock \cup {None} /\ manifest \in Runtime!Manifest \cup {None}
  /\ child \in Procs \cup {None} /\ owned \in Procs \cup {None} /\ runtimeClock \in 0..RuntimeTime
\* A process that is named somewhere has been started, and one that the supervisor
\* took for its own is its child or has gone.
Started ==
  /\ \A p \in Procs : /\ pc[p] # "new" => phase[p] # None
                      /\ phase[p] # None => pc[phase[p].proc] # "new"
  /\ manifest # None => pc[manifest.proc] # "new"
  /\ child # None => pc[child] # "new"
OwnedIsChild ==
  owned # None => pc[owned] = "gone" \/ (owned = child /\ watch \notin {"spawn", "clean"})
\* While nobody is overtaken: who publishes has the lock, publishes itself, and finds
\* nobody else who runs; and a manifest stays that of its process while that one needs it.
Publishes(p) ==
  /\ pc[p] \in {"check", "write", "unlock"} => lock # None /\ lock.by = p
  /\ pc[p] \in Runtime!Publishing => phase[p].proc = p
  /\ pc[p] = "write" => \/ manifest = None \/ manifest.proc = p \/ pc[manifest.proc] = "gone"
Published(p) ==
  /\ pc[p] = "lifespan" \/ (pc[p] \in Runtime!Publishing \ {"unlock"} /\ phase[p].status = "ready")
       => manifest = [proc |-> p, status |-> "starting"]
  /\ pc[p] = "unlock" => manifest = phase[p]
  /\ pc[p] \in {"bind", "serving"} => manifest = [proc |-> p, status |-> "ready"]
NobodyOvertaken == \A p \in Procs : Publishes(p) /\ Published(p)
RuntimeInv == RuntimeTyped /\ Started /\ OwnedIsChild /\ (~ raced => NobodyOvertaken)

LEMMA RuntimeInit == Runtime!RuntimeAssumption /\ Runtime!Init => RuntimeInv
BY DEF Runtime!RuntimeAssumption, Runtime!Init, RuntimeInv, RuntimeTyped, RuntimeStates, Started, OwnedIsChild,
       NobodyOvertaken, Publishes, Published, Runtime!Publishing

\* The types, and who has been started, of a step of a process and of the supervisor.
LEMMA RuntimeTypes ==
  ASSUME Runtime!RuntimeAssumption, RuntimeTyped, Started, OwnedIsChild, NEW p \in Procs, Runtime!ProcessStep(p)
  PROVE  RuntimeTyped' /\ Started' /\ OwnedIsChild'
<1> USE DEF RuntimeTyped, RuntimeStates, Started, OwnedIsChild, Runtime!RuntimeAssumption, Runtime!Manifest,
            Runtime!Lock, Runtime!Goto, Runtime!supervisor
<1>1. CASE Runtime!Launch(p)
  BY <1>1 DEF Runtime!Launch
<1>2. CASE Runtime!TakeLock(p)
  BY <1>2 DEF Runtime!TakeLock
<1>3. CASE Runtime!FindLock(p)
  BY <1>3 DEF Runtime!FindLock, Runtime!Failed
<1>4. CASE Runtime!BreakLock(p)
  BY <1>4 DEF Runtime!BreakLock, Runtime!Failed
<1>5. CASE Runtime!LoseLock(p)
  BY <1>5 DEF Runtime!LoseLock, Runtime!Fails, Runtime!Failed
<1>6. CASE Runtime!CheckOwner(p)
  BY <1>6 DEF Runtime!CheckOwner, Runtime!Fails, Runtime!Failed, Runtime!Release
<1>7. CASE Runtime!WriteManifest(p)
  BY <1>7 DEF Runtime!WriteManifest
<1>8. CASE Runtime!Unlock(p)
  BY <1>8 DEF Runtime!Unlock, Runtime!Release
<1>9. CASE Runtime!Lifespan(p)
  BY <1>9 DEF Runtime!Lifespan, Runtime!Discovered
<1>10. CASE Runtime!Bind(p)
  BY <1>10 DEF Runtime!Bind
<1>11. CASE Runtime!StopServing(p)
  BY <1>11 DEF Runtime!StopServing
<1>12. CASE Runtime!ReadOwn(p)
  BY <1>12 DEF Runtime!ReadOwn
<1>13. CASE Runtime!UnlinkOwn(p)
  BY <1>13 DEF Runtime!UnlinkOwn
<1>14. CASE Runtime!Crash(p)
  BY <1>14 DEF Runtime!Crash, Runtime!Alive
<1>15. CASE Runtime!Spawn(p)
  BY <1>15 DEF Runtime!Spawn
<1> QED
  BY <1>1, <1>2, <1>3, <1>4, <1>5, <1>6, <1>7, <1>8, <1>9, <1>10, <1>11, <1>12, <1>13, <1>14, <1>15 DEF Runtime!ProcessStep

LEMMA RuntimeWatchTypes ==
  ASSUME Runtime!RuntimeAssumption, RuntimeTyped, Started, OwnedIsChild,
         \/ Runtime!Supervise \/ Runtime!CleanStale \/ Runtime!SeeReady
         \/ Runtime!StopChild \/ Runtime!Restart \/ Runtime!Tick
  PROVE  RuntimeTyped' /\ Started' /\ OwnedIsChild'
<1> USE DEF RuntimeTyped, RuntimeStates, Started, OwnedIsChild, Runtime!RuntimeAssumption, Runtime!Manifest,
            Runtime!Lock, Runtime!Alive, Runtime!supervisor
<1>1. CASE Runtime!Supervise
  BY <1>1 DEF Runtime!Supervise
<1>2. CASE Runtime!CleanStale
  BY <1>2 DEF Runtime!CleanStale
<1>3. CASE Runtime!SeeReady
  BY <1>3 DEF Runtime!SeeReady
<1>4. CASE Runtime!StopChild
  BY <1>4 DEF Runtime!StopChild
<1>5. CASE Runtime!Restart
  BY <1>5 DEF Runtime!Restart
<1>6. CASE Runtime!Tick
  BY <1>6 DEF Runtime!Tick
<1> QED
  BY <1>1, <1>2, <1>3, <1>4, <1>5, <1>6

\* The same of what holds while nobody is overtaken.
LEMMA RuntimeSteps ==
  ASSUME Runtime!RuntimeAssumption, RuntimeTyped, Started, OwnedIsChild, ~ raced => NobodyOvertaken, ~ raced',
         NEW p \in Procs, Runtime!ProcessStep(p), NEW q \in Procs
  PROVE  Publishes(q)' /\ Published(q)'
<1> USE DEF NobodyOvertaken, Publishes, Published, RuntimeTyped, RuntimeStates, Started, Runtime!RuntimeAssumption,
            Runtime!Manifest, Runtime!Lock, Runtime!Publishing, Runtime!Goto, Runtime!supervisor
<1>1. CASE Runtime!Launch(p)
  BY <1>1 DEF Runtime!Launch
<1>2. CASE Runtime!TakeLock(p)
  BY <1>2 DEF Runtime!TakeLock
<1>3. CASE Runtime!FindLock(p)
  BY <1>3 DEF Runtime!FindLock, Runtime!Failed
<1>4. CASE Runtime!BreakLock(p)
  BY <1>4 DEF Runtime!BreakLock, Runtime!Failed
<1>5. CASE Runtime!LoseLock(p)
  BY <1>5 DEF Runtime!LoseLock, Runtime!Fails, Runtime!Failed
<1>6. CASE Runtime!CheckOwner(p)
  <2> DEFINE mine == \/ Runtime!Discovered = None
                     \/ (Runtime!Discovered # None /\ manifest.proc = phase[p].proc)
  <2>1. CASE mine
    <3>1. ~ raced /\ ~ (/\ manifest # None /\ manifest.proc # phase[p].proc /\ manifest.proc \in Runtime!Alive)
      BY <1>6, <2>1 DEF Runtime!CheckOwner
    <3>2. pc' = [pc EXCEPT ![p] = "write"] /\ UNCHANGED <<lock, manifest, phase>> /\ pc[p] = "check"
      BY <1>6, <2>1 DEF Runtime!CheckOwner
    <3> QED
      BY <3>1, <3>2 DEF Runtime!Alive
  <2>2. CASE ~ mine
    <3>1. ~ raced /\ ~ Runtime!ReleaseRaces(p)
      BY <1>6, <2>2 DEF Runtime!CheckOwner
    <3>2. pc' = [pc EXCEPT ![p] = Runtime!Failed(p)] /\ lock' = None /\ UNCHANGED <<manifest, phase>> /\ pc[p] = "check"
      BY <1>6, <2>2 DEF Runtime!CheckOwner, Runtime!Fails, Runtime!Release
    <3> QED
      BY <3>1, <3>2 DEF Runtime!ReleaseRaces, Runtime!Failed
  <2> QED
    BY <2>1, <2>2
<1>7. CASE Runtime!WriteManifest(p)
  BY <1>7 DEF Runtime!WriteManifest
<1>8. CASE Runtime!Unlock(p)
  <2>1. ~ raced /\ ~ Runtime!ReleaseRaces(p)
    BY <1>8 DEF Runtime!Unlock
  <2>2. pc' = [pc EXCEPT ![p] = IF phase[p].status = "starting" THEN "lifespan" ELSE "bind"]
    BY <1>8 DEF Runtime!Unlock
  <2>3. lock' = None /\ UNCHANGED <<manifest, phase>> /\ pc[p] = "unlock"
    BY <1>8 DEF Runtime!Unlock, Runtime!Release
  <2>4. phase[p] \in Runtime!Manifest /\ phase[p].proc = p /\ manifest = phase[p] /\ lock.by = p
    BY <2>1, <2>3
  <2> QED
    BY <2>1, <2>2, <2>3, <2>4 DEF Runtime!ReleaseRaces
<1>9. CASE Runtime!Lifespan(p)
  BY <1>9 DEF Runtime!Lifespan, Runtime!Discovered, Runtime!IsStale, Runtime!Alive
<1>10. CASE Runtime!Bind(p)
  BY <1>10 DEF Runtime!Bind
<1>11. CASE Runtime!StopServing(p)
  BY <1>11 DEF Runtime!StopServing
<1>12. CASE Runtime!ReadOwn(p)
  BY <1>12 DEF Runtime!ReadOwn
<1>13. CASE Runtime!UnlinkOwn(p)
  <2>1. ~ raced /\ ~ (manifest # None /\ manifest.proc # p)
    BY <1>13 DEF Runtime!UnlinkOwn
  <2>2. pc[p] = "unlink" /\ manifest' = None /\ pc' = [pc EXCEPT ![p] = "gone"] /\ UNCHANGED <<lock, phase>>
    BY <1>13 DEF Runtime!UnlinkOwn
  <2> QED
    BY <2>1, <2>2
<1>14. CASE Runtime!Crash(p)
  BY <1>14 DEF Runtime!Crash, Runtime!Alive
<1>15. CASE Runtime!Spawn(p)
  BY <1>15 DEF Runtime!Spawn
<1> QED
  BY <1>1, <1>2, <1>3, <1>4, <1>5, <1>6, <1>7, <1>8, <1>9, <1>10, <1>11, <1>12, <1>13, <1>14, <1>15 DEF Runtime!ProcessStep

LEMMA RuntimeWatchSteps ==
  ASSUME Runtime!RuntimeAssumption, RuntimeTyped, Started, OwnedIsChild, ~ raced => NobodyOvertaken, ~ raced',
         \/ Runtime!Supervise \/ Runtime!CleanStale \/ Runtime!SeeReady
         \/ Runtime!StopChild \/ Runtime!Restart \/ Runtime!Tick,
         NEW q \in Procs
  PROVE  Publishes(q)' /\ Published(q)'
<1> USE DEF NobodyOvertaken, Publishes, Published, RuntimeTyped, RuntimeStates, Started, OwnedIsChild,
            Runtime!RuntimeAssumption, Runtime!Manifest, Runtime!Lock, Runtime!Publishing, Runtime!Alive, Runtime!supervisor
<1>1. CASE Runtime!Supervise
  BY <1>1 DEF Runtime!Supervise
<1>2. CASE Runtime!CleanStale
  <2>1. ~ raced /\ ~ (manifest # None /\ manifest.proc \in Runtime!Alive)
    BY <1>2 DEF Runtime!CleanStale
  <2>2. manifest' = None /\ UNCHANGED <<lock, pc, phase>>
    BY <1>2 DEF Runtime!CleanStale
  <2> QED
    BY <2>1, <2>2
<1>3. CASE Runtime!SeeReady
  BY <1>3 DEF Runtime!SeeReady
<1>4. CASE Runtime!StopChild
  BY <1>4 DEF Runtime!StopChild
<1>5. CASE Runtime!Restart
  BY <1>5 DEF Runtime!Restart
<1>6. CASE Runtime!Tick
  BY <1>6 DEF Runtime!Tick
<1> QED
  BY <1>1, <1>2, <1>3, <1>4, <1>5, <1>6

LEMMA RuntimeKeeps == Runtime!RuntimeAssumption /\ RuntimeInv /\ [Runtime!Next]_(Runtime!vars) => RuntimeInv'
<1> SUFFICES ASSUME Runtime!RuntimeAssumption, RuntimeInv, [Runtime!Next]_(Runtime!vars) PROVE RuntimeInv'
  OBVIOUS
<1>1. CASE UNCHANGED Runtime!vars
  BY <1>1 DEF Runtime!vars, RuntimeInv, RuntimeTyped, Started, OwnedIsChild, NobodyOvertaken, Publishes, Published
<1>2. ASSUME NEW p \in Procs, Runtime!ProcessStep(p) PROVE RuntimeInv'
  BY <1>2, RuntimeTypes, RuntimeSteps DEF RuntimeInv, NobodyOvertaken
<1>3. CASE \/ Runtime!Supervise \/ Runtime!CleanStale \/ Runtime!SeeReady
           \/ Runtime!StopChild \/ Runtime!Restart \/ Runtime!Tick
  BY <1>3, RuntimeWatchTypes, RuntimeWatchSteps DEF RuntimeInv, NobodyOvertaken
<1> QED
  BY <1>1, <1>2, <1>3 DEF Runtime!Next

\* ServedIsPublished, for any number of processes and restarts and any age of a lock: a
\* process that serves is the one runtime.json names as ready, as long as no lock was
\* broken or released while its owner was at work and no live owner's manifest was taken.
THEOREM ServesWhatIsPublished == LocalSpec => []ServedIsPublished
<1>1. Runtime!RuntimeAssumption
  BY ServiceConstants
<1>2. RuntimeInv => ServedIsPublished
  BY DEF RuntimeInv, NobodyOvertaken, Published, ServedIsPublished, Runtime!ServedIsPublished
<1> QED
  BY <1>1, <1>2, RuntimeInit, RuntimeKeeps, EachServiceRuns, PTL DEF Runtime!Spec
-----------------------------------------------------------------------------
(* The schema migrations *)

\* A database that whole upgrades left, with the snapshots its attempts were made on.
WholeUpgrades(db, found) ==
  /\ db \in Migration!Database /\ Migration!SchemaIsWhole(db)
  /\ \A i \in DOMAIN db.journal : db.journal[i].status # "INTERRUPTED"
  /\ \A i \in 1..(Len(db.journal) - 1) : db.journal[i].status = "COMPLETED"
  /\ \A i \in DOMAIN db.journal :
       LET row == db.journal[i] IN
       /\ row.id \in DOMAIN found
       /\ Migration!SchemaIsWhole(found[row.id]) /\ found[row.id].version = row.from
       /\ Migration!IsPrefix(found[row.id].schema, db.schema)
       /\ row.status = "COMPLETED" => row.target <= db.version
MigrationCommand ==
  [pc : {"backup", "open", "begin", "apply", "complete"}, id : Nat, target : Targets, registry : Registries]
LastRow == database.journal[Len(database.journal)]
\* What a command relies on: nothing changes the database between its steps.
CommandRelies ==
  LET steps == Migration!build_migration_plan(command.registry, database.version, command.target) IN
  /\ command \in MigrationCommand /\ database # None /\ result = None
  /\ command.pc = "backup" => command.id = Len(snapshots) + 1
  /\ command.pc # "backup" => command.id = Len(snapshots) /\ command.id \in DOMAIN snapshots
  /\ command.pc \in {"backup", "open", "begin"}
       => Migration!inspect_schema(database, command.registry, command.target) = "UPGRADE_REQUIRED"
  /\ command.pc \in {"open", "begin"} => snapshots[command.id] = database
  /\ command.pc \in {"apply", "complete"} => database.journal # <<>> /\ LastRow.target = command.target
  /\ command.pc = "apply" => steps # <<>> /\ database.version < command.target
  /\ command.pc = "complete" => database.version = command.target
MigrationInv ==
  /\ snapshots \in Seq(Migration!Database)
  /\ \A k \in DOMAIN snapshots : WholeUpgrades(snapshots[k], snapshots)
  /\ database # None => WholeUpgrades(database, snapshots)
  /\ command # Migration!NoCommand => CommandRelies
  /\ result # None /\ result.id # None => result.id \in DOMAIN snapshots

LEMMA UpgradeRequired ==
  ASSUME NEW db \in Migration!Database, NEW registry, NEW target \in Nat,
         Migration!inspect_schema(db, registry, target) = "UPGRADE_REQUIRED"
  PROVE  /\ Migration!build_migration_plan(registry, db.version, target) # <<>> /\ db.version < target
         /\ \A i \in DOMAIN db.journal : db.journal[i].status \notin {"IN_PROGRESS", "FAILED"}
<1>1. /\ ~ Migration!HasStatus(db, "IN_PROGRESS") /\ ~ Migration!HasStatus(db, "FAILED")
      /\ Migration!OfVersion(db, registry, target) = "UPGRADE_REQUIRED"
  BY DEF Migration!inspect_schema
<1>2. db.version \in Nat
  BY DEF Migration!Database
<1>3. /\ ~ (db.version > target) /\ db.version # target
      /\ Migration!build_migration_plan(registry, db.version, target) # <<>>
  BY <1>1 DEF Migration!OfVersion
<1> QED
  BY <1>1, <1>2, <1>3 DEF Migration!HasStatus

\* A plan is a chain of migrations from one version to the other.
LeadsFrom(steps, from, target) ==
  /\ steps \in Seq(Nat \X Nat) /\ Len(steps) >= 1
  /\ steps[1][1] = from /\ steps[Len(steps)][2] = target
  /\ \A i \in 1..(Len(steps) - 1) : steps[i][2] = steps[i + 1][1]
LEMMA PlanIsChain ==
  ASSUME NEW registry \in Seq(Nat \X Nat), NEW from \in Nat, NEW target \in Nat,
         NEW steps, steps = Migration!build_migration_plan(registry, from, target), steps # <<>>
  PROVE  LeadsFrom(steps, from, target)
<1>1. steps \in Migration!Chains(registry, from, target)
  BY DEF Migration!build_migration_plan
<1>2. PICK n \in 1..Len(registry) : steps \in [1..n -> Migration!Range(registry)]
  BY <1>1 DEF Migration!Chains
<1>3. Migration!Range(registry) \subseteq Nat \X Nat
  BY DEF Migration!Range
<1>4. n \in Nat /\ n >= 1 /\ steps \in [1..n -> Nat \X Nat]
  <2>1. Len(registry) \in Nat
    OBVIOUS
  <2>2. n \in Nat /\ n >= 1
    BY <2>1
  <2>3. steps \in [1..n -> Nat \X Nat]
    BY <1>2, <1>3
  <2> QED
    BY <2>2, <2>3
<1>5. steps \in Seq(Nat \X Nat) /\ Len(steps) = n
  BY ONLY <1>4
<1>6. /\ steps[1][1] = from /\ steps[Len(steps)][2] = target
      /\ \A i \in 1..(Len(steps) - 1) : steps[i][2] = steps[i + 1][1]
  BY <1>1 DEF Migration!Chains
<1> QED
  BY <1>4, <1>5, <1>6 DEF LeadsFrom

LEMMA PrefixStays ==
  ASSUME NEW S, NEW s \in Seq(S), NEW t \in Seq(S), NEW u \in Seq(S), Migration!IsPrefix(s, t)
  PROVE  Migration!IsPrefix(s, t \o u)
<1>1. Len(s) <= Len(t) /\ SubSeq(s, 1, Len(s)) = SubSeq(t, 1, Len(s))
  BY DEF Migration!IsPrefix
<1>2. SubSeq(t \o u, 1, Len(s)) = SubSeq(t, 1, Len(s))
  <2>1. Len(t \o u) = Len(t) + Len(u) /\ \A i \in 1..Len(t) : (t \o u)[i] = t[i]
    OBVIOUS
  <2>2. Len(s) \in Nat /\ Len(t) \in Nat /\ Len(u) \in Nat
    OBVIOUS
  <2> QED
    BY <1>1, <2>1, <2>2
<1> QED
  BY <1>1, <1>2 DEF Migration!IsPrefix

LEMMA PrefixOfItself == ASSUME NEW S, NEW s \in Seq(S) PROVE Migration!IsPrefix(s, s)
BY DEF Migration!IsPrefix

\* Two chains of migrations of which one starts where the other ends.
Linked(s) == \A i \in 1..(Len(s) - 1) : s[i][2] = s[i + 1][1]
Extends(s, t) == s # <<>> => s[Len(s)][2] = t[1][1]

LEMMA Concatenated ==
  ASSUME NEW S, NEW s \in Seq(S), NEW t \in Seq(S)
  PROVE  /\ s \o t \in Seq(S) /\ Len(s \o t) = Len(s) + Len(t) /\ Len(s) \in Nat /\ Len(t) \in Nat
         /\ \A i \in 1..Len(s) : (s \o t)[i] = s[i]
         /\ \A i \in 1..Len(t) : (s \o t)[Len(s) + i] = t[i]
         /\ (s = <<>> <=> Len(s) = 0) /\ (s \o t = <<>> <=> Len(s \o t) = 0)
OBVIOUS

LEMMA LinkedChains ==
  ASSUME NEW s \in Seq(Nat \X Nat), NEW t \in Seq(Nat \X Nat), Len(t) >= 1,
         Linked(s), Linked(t), Extends(s, t)
  PROVE  /\ Linked(s \o t) /\ s \o t # <<>>
         /\ (s \o t)[Len(s \o t)] = t[Len(t)]
<1> DEFINE u == s \o t  a == Len(s)  b == Len(t)
<1>1. /\ Len(u) = a + b /\ a \in Nat /\ b \in Nat /\ b >= 1
      /\ (s = <<>> <=> a = 0) /\ (u = <<>> <=> Len(u) = 0)
  BY Concatenated
<1>2. /\ \A i \in 1..a : u[i] = s[i]
      /\ \A i \in 1..b : u[a + i] = t[i]
  BY Concatenated
<1>3. /\ \A i \in 1..(a - 1) : s[i][2] = s[i + 1][1]
      /\ \A i \in 1..(b - 1) : t[i][2] = t[i + 1][1]
      /\ s # <<>> => s[a][2] = t[1][1]
  BY DEF Linked, Extends
<1> HIDE DEF u, a, b
<1>4. ASSUME NEW i \in 1..(a + b - 1) PROVE u[i][2] = u[i + 1][1]
  <2>1. i \in Nat /\ i >= 1 /\ i < a + b
    BY ONLY <1>1, <1>4
  <2>2. CASE i < a
    <3>1. i \in 1..a /\ i + 1 \in 1..a /\ i \in 1..(a - 1)
      BY ONLY <1>1, <2>1, <2>2
    <3> QED
      BY ONLY <1>2, <1>3, <3>1
  <2>3. CASE i = a
    <3>1. a \in 1..a /\ 1 \in 1..b /\ s # <<>>
      BY ONLY <1>1, <2>1, <2>3
    <3>2. u[a] = s[a] /\ u[a + 1] = t[1]
      BY ONLY <1>2, <3>1
    <3> QED
      BY ONLY <1>3, <2>3, <3>1, <3>2
  <2>4. CASE i > a
    <3> DEFINE j == i - a
    <3>1. j \in 1..(b - 1) /\ j \in 1..b /\ j + 1 \in 1..b /\ i = a + j /\ i + 1 = a + (j + 1)
      BY ONLY <1>1, <2>1, <2>4
    <3> HIDE DEF j
    <3>2. u[i] = t[j] /\ u[i + 1] = t[j + 1]
      BY ONLY <1>2, <3>1
    <3> QED
      BY ONLY <1>3, <3>1, <3>2
  <2> QED
    BY ONLY <1>1, <2>1, <2>2, <2>3, <2>4
<1>5. u # <<>> /\ u[a + b] = t[b]
  <2>1. Len(u) # 0 /\ b \in 1..b
    BY ONLY <1>1
  <2> QED
    BY ONLY <1>1, <1>2, <2>1
<1>6. Linked(u) /\ u # <<>> /\ u[Len(u)] = t[b]
  BY <1>1, <1>4, <1>5 DEF Linked
<1> QED
  BY <1>6 DEF u, b

\* The migrations of a plan leave a whole schema.
LEMMA AppliedIsWhole ==
  ASSUME NEW db \in Migration!Database, NEW steps \in Seq(Nat \X Nat), Migration!SchemaIsWhole(db), Len(steps) >= 1,
         steps[1][1] = db.version, \A i \in 1..(Len(steps) - 1) : steps[i][2] = steps[i + 1][1]
  PROVE  /\ Migration!Applied(db, steps) \in Migration!Database
         /\ Migration!SchemaIsWhole(Migration!Applied(db, steps))
         /\ Migration!Applied(db, steps).journal = db.journal
         /\ Migration!Applied(db, steps).schema = db.schema \o steps
         /\ Migration!Applied(db, steps).version = steps[Len(steps)][2]
<1> DEFINE new == Migration!Applied(db, steps)
<1>1. db.schema \in Seq(Nat \X Nat) /\ db.version \in Nat
  BY DEF Migration!Database
<1>2. steps[Len(steps)] \in Nat \X Nat
  OBVIOUS
<1>3. /\ new \in Migration!Database /\ new.journal = db.journal
      /\ new.schema = db.schema \o steps /\ new.version = steps[Len(steps)][2]
  <2>1. steps[Len(steps)][2] \in Nat /\ db.schema \o steps \in Seq(Nat \X Nat)
    BY <1>1, <1>2
  <2> QED
    BY <2>1 DEF Migration!Applied, Migration!Database
<1>4. Linked(db.schema) /\ Linked(steps) /\ Extends(db.schema, steps)
  BY DEF Migration!SchemaIsWhole, Linked, Extends
<1>5. /\ Linked(db.schema \o steps) /\ db.schema \o steps # <<>>
      /\ (db.schema \o steps)[Len(db.schema \o steps)] = steps[Len(steps)]
  BY <1>1, <1>4, LinkedChains
<1> HIDE DEF new
<1>6. Migration!SchemaIsWhole(new)
  BY <1>3, <1>5 DEF Migration!SchemaIsWhole, Linked
<1> QED
  BY <1>3, <1>6 DEF new

\* A further snapshot changes nothing for the attempts made on the others.
LEMMA WholeWithMore ==
  ASSUME NEW found \in Seq(Migration!Database), NEW db, NEW more \in Migration!Database, WholeUpgrades(db, found)
  PROVE  WholeUpgrades(db, Append(found, more))
<1>1. \A k \in DOMAIN found : k \in DOMAIN Append(found, more) /\ Append(found, more)[k] = found[k]
  OBVIOUS
<1> QED
  BY <1>1 DEF WholeUpgrades

LEMMA Appended ==
  ASSUME NEW S, NEW s \in Seq(S), NEW e \in S
  PROVE  LET t == Append(s, e) IN
         /\ Len(t) = Len(s) + 1 /\ t # <<>> /\ t[Len(t)] = e
         /\ \A i \in 1..(Len(t) - 1) : i \in DOMAIN s /\ t[i] = s[i]
         /\ \A i \in DOMAIN t : (i \in DOMAIN s /\ t[i] = s[i]) \/ t[i] = e
OBVIOUS

LEMMA MigrationInit == Migration!Init => MigrationInv
BY DEF Migration!Init, MigrationInv, Migration!NoCommand

LEMMA CommandTyped ==
  ASSUME Migration!MigrationAssumption, MigrationInv, command # Migration!NoCommand
  PROVE  /\ CommandRelies /\ command \in MigrationCommand /\ command.target \in Nat
         /\ command.registry \in Seq(Nat \X Nat)
         /\ database \in Migration!Database /\ WholeUpgrades(database, snapshots)
BY DEF MigrationInv, CommandRelies, MigrationCommand, WholeUpgrades, Migration!MigrationAssumption

LEMMA RunsCommand == \A s \in {"backup", "open", "begin", "apply", "complete"} :
  command.pc = s => command # Migration!NoCommand
BY DEF Migration!NoCommand

LEMMA MigrationStarts ==
  ASSUME Migration!MigrationAssumption, MigrationInv, Migration!InitializeDatabase \/ Migration!Execute
  PROVE  MigrationInv'
<1>1. CASE Migration!InitializeDatabase
  <2>1. command = Migration!NoCommand
    BY <1>1 DEF Migration!InitializeDatabase, MigrationInv, CommandRelies
  <2>2. WholeUpgrades(database', snapshots)
    <3> DEFINE db == [version |-> LOCAL_SCHEMA_VERSION, schema |-> <<>>, journal |-> <<>>]
    <3>1. db \in Migration!Database /\ Migration!SchemaIsWhole(db)
      BY DEF Migration!Database, Migration!SchemaIsWhole, Migration!MigrationAssumption
    <3> QED
      BY <1>1, <3>1 DEF Migration!InitializeDatabase, WholeUpgrades
  <2> QED
    BY <1>1, <2>1, <2>2 DEF Migration!InitializeDatabase, MigrationInv
<1>2. CASE Migration!Execute
  <2>1. PICK target \in Targets, registry \in Registries :
          LET state == Migration!inspect_schema(database, registry, target) IN
          IF state = "UPGRADE_REQUIRED"
            THEN /\ command' = [pc |-> "backup", id |-> Len(snapshots) + 1, target |-> target, registry |-> registry]
                 /\ UNCHANGED result
            ELSE result' = [state |-> state, id |-> None] /\ UNCHANGED command
    BY <1>2 DEF Migration!Execute
  <2>2. /\ command = Migration!NoCommand /\ result = None /\ database # None
        /\ UNCHANGED <<database, snapshots>>
    BY <1>2 DEF Migration!Execute
  <2>3. CASE Migration!inspect_schema(database, registry, target) = "UPGRADE_REQUIRED"
    <3>1. /\ command' = [pc |-> "backup", id |-> Len(snapshots) + 1, target |-> target, registry |-> registry]
          /\ result' = None
      BY <2>1, <2>2, <2>3
    <3>2. Len(snapshots) + 1 \in Nat
      BY DEF MigrationInv
    <3>3. CommandRelies'
      BY <2>2, <2>3, <3>1, <3>2 DEF CommandRelies, MigrationCommand
    <3> QED
      BY <2>2, <3>1, <3>3 DEF MigrationInv
  <2>4. CASE Migration!inspect_schema(database, registry, target) # "UPGRADE_REQUIRED"
    <3>1. result'.id = None /\ command' = Migration!NoCommand
      BY <2>1, <2>2, <2>4
    <3> QED
      BY <2>2, <3>1 DEF MigrationInv
  <2> QED
    BY <2>3, <2>4
<1> QED
  BY <1>1, <1>2

LEMMA MigrationBackup ==
  ASSUME Migration!MigrationAssumption, MigrationInv, Migration!Backup
  PROVE  MigrationInv'
<1>1. CommandRelies /\ command \in MigrationCommand /\ database \in Migration!Database
  BY RunsCommand, CommandTyped DEF Migration!Backup
<1>2. CASE ~ Migration!SnapshotAccepted(database)
  BY <1>2 DEF Migration!Backup, MigrationInv
<1>3. CASE Migration!SnapshotAccepted(database)
  <2>1. /\ snapshots' = Append(snapshots, database) /\ command' = [command EXCEPT !.pc = "open"]
        /\ command.pc = "backup" /\ UNCHANGED <<database, result>>
    BY <1>3 DEF Migration!Backup
  <2>2. /\ snapshots \in Seq(Migration!Database) /\ snapshots' \in Seq(Migration!Database)
        /\ Len(snapshots') = Len(snapshots) + 1 /\ snapshots'[Len(snapshots')] = database
        /\ Len(snapshots') \in DOMAIN snapshots'
        /\ \A k \in DOMAIN snapshots : k \in DOMAIN snapshots' /\ snapshots'[k] = snapshots[k]
        /\ \A k \in DOMAIN snapshots' : k \in DOMAIN snapshots \/ snapshots'[k] = database
    BY <1>1, <2>1 DEF MigrationInv
  <2>3. WholeUpgrades(database, snapshots')
    BY <1>1, <2>1, <2>2, WholeWithMore DEF MigrationInv, CommandRelies
  <2>4. \A k \in DOMAIN snapshots' : WholeUpgrades(snapshots'[k], snapshots')
    BY <1>1, <2>1, <2>2, <2>3, WholeWithMore DEF MigrationInv
  <2>5. command' \in MigrationCommand /\ command'.pc = "open" /\ command'.id = command.id
        /\ command'.target = command.target /\ command'.registry = command.registry
    BY <1>1, <2>1 DEF MigrationCommand
  <2>6. CommandRelies'
    BY <1>1, <2>1, <2>2, <2>5 DEF CommandRelies
  <2> QED
    BY <2>1, <2>2, <2>3, <2>4, <2>6 DEF MigrationInv
<1> QED
  BY <1>2, <1>3

\* Nothing is in progress where an upgrade is required: the journal stays as it is.
LEMMA MigrationMark ==
  ASSUME Migration!MigrationAssumption, MigrationInv, Migration!MarkInterrupted
  PROVE  MigrationInv'
<1>1. /\ CommandRelies /\ command \in MigrationCommand /\ command.target \in Nat
      /\ database \in Migration!Database
  BY RunsCommand, CommandTyped DEF Migration!MarkInterrupted
<1>2. /\ command.pc = "open" /\ command' = [command EXCEPT !.pc = "begin"] /\ UNCHANGED <<result, snapshots>>
      /\ database' = [database EXCEPT !.journal = Migration!Marked(@, "IN_PROGRESS", "INTERRUPTED")]
  BY DEF Migration!MarkInterrupted
<1>3. \A i \in DOMAIN database.journal : database.journal[i].status # "IN_PROGRESS"
  BY <1>1, <1>2, UpgradeRequired DEF CommandRelies
<1>4. Migration!Marked(database.journal, "IN_PROGRESS", "INTERRUPTED") = database.journal
  <2>1. database.journal \in Seq(Migration!Row)
    BY <1>1 DEF Migration!Database
  <2> QED
    BY <1>3, <2>1 DEF Migration!Marked
<1>5. database' = database
  BY <1>1, <1>2, <1>4 DEF Migration!Database
<1>6. command' \in MigrationCommand /\ command'.pc = "begin" /\ command'.id = command.id
      /\ command'.target = command.target /\ command'.registry = command.registry
  BY <1>1, <1>2 DEF MigrationCommand
<1>7. CommandRelies'
  BY <1>1, <1>2, <1>5, <1>6 DEF CommandRelies
<1> QED
  BY <1>2, <1>5, <1>7 DEF MigrationInv

LEMMA MigrationBegin ==
  ASSUME Migration!MigrationAssumption, MigrationInv, Migration!BeginAttempt
  PROVE  MigrationInv'
<1> DEFINE row == Migration!Attempt(command.id, database.version, command.target)
<1>1. /\ CommandRelies /\ command \in MigrationCommand /\ command.target \in Nat
      /\ database \in Migration!Database /\ WholeUpgrades(database, snapshots)
  BY RunsCommand, CommandTyped DEF Migration!BeginAttempt
<1>2. /\ command.pc = "begin" /\ command' = [command EXCEPT !.pc = "apply"] /\ UNCHANGED <<result, snapshots>>
      /\ database' = [database EXCEPT !.journal = Append(@, row)]
  BY DEF Migration!BeginAttempt
<1>3. /\ Migration!build_migration_plan(command.registry, database.version, command.target) # <<>>
      /\ database.version < command.target
      /\ \A i \in DOMAIN database.journal : database.journal[i].status \notin {"IN_PROGRESS", "FAILED"}
  BY <1>1, <1>2, UpgradeRequired DEF CommandRelies
<1>4. /\ row \in Migration!Row /\ row.id = command.id /\ row.from = database.version
      /\ row.target = command.target /\ row.status = "IN_PROGRESS"
  BY <1>1 DEF Migration!Attempt, Migration!Row, MigrationCommand, Migration!Database
<1> HIDE DEF row
<1>5. /\ database' \in Migration!Database /\ database'.journal = Append(database.journal, row)
      /\ database'.schema = database.schema /\ database'.version = database.version
      /\ database.journal \in Seq(Migration!Row) /\ database.schema \in Seq(Nat \X Nat)
  <2>1. database.journal \in Seq(Migration!Row) /\ database.schema \in Seq(Nat \X Nat)
    BY <1>1 DEF Migration!Database
  <2>2. Append(database.journal, row) \in Seq(Migration!Row)
    BY <1>4, <2>1
  <2>3. database' = [database EXCEPT !.journal = Append(database.journal, row)]
    BY <1>2
  <2> QED
    BY <1>1, <2>1, <2>2, <2>3 DEF Migration!Database
<1>6. \A i \in DOMAIN database.journal : database.journal[i].status = "COMPLETED"
  <2>1. \A i \in DOMAIN database.journal : database.journal[i] \in Migration!Row
    BY <1>5
  <2> QED
    BY <1>1, <1>3, <2>1 DEF WholeUpgrades, Migration!Row
<1>7. /\ Len(database'.journal) = Len(database.journal) + 1 /\ database'.journal # <<>>
      /\ database'.journal[Len(database'.journal)] = row
      /\ \A i \in 1..(Len(database'.journal) - 1) :
           i \in DOMAIN database.journal /\ database'.journal[i] = database.journal[i]
      /\ \A i \in DOMAIN database'.journal :
           \/ i \in DOMAIN database.journal /\ database'.journal[i] = database.journal[i]
           \/ database'.journal[i] = row
  <2> DEFINE old == database.journal  j == Append(old, row)
  <2>1. old \in Seq(Migration!Row) /\ row \in Migration!Row /\ database'.journal = j
    BY <1>4, <1>5, SMTT(60)
  <2> HIDE DEF old
  <2>2. /\ Len(j) = Len(old) + 1 /\ j # <<>> /\ j[Len(j)] = row
        /\ \A i \in 1..(Len(j) - 1) : i \in DOMAIN old /\ j[i] = old[i]
        /\ \A i \in DOMAIN j : (i \in DOMAIN old /\ j[i] = old[i]) \/ j[i] = row
    BY ONLY <2>1, Appended, SMTT(60)
  <2> HIDE DEF j
  <2> QED
    BY <2>1, <2>2 DEF old
<1>8. snapshots[row.id] = database /\ row.id \in DOMAIN snapshots
  BY <1>1, <1>2, <1>4, SMTT(60) DEF CommandRelies
<1>9. Migration!SchemaIsWhole(database')
  BY <1>1, <1>5 DEF WholeUpgrades, Migration!SchemaIsWhole
<1>10. Migration!IsPrefix(database.schema, database.schema)
  BY <1>5, PrefixOfItself
<1>11. WholeUpgrades(database', snapshots)
  <2>1. ASSUME NEW i \in DOMAIN database'.journal
        PROVE  LET r == database'.journal[i] IN
               /\ r.status # "INTERRUPTED" /\ r.id \in DOMAIN snapshots
               /\ Migration!SchemaIsWhole(snapshots[r.id]) /\ snapshots[r.id].version = r.from
               /\ Migration!IsPrefix(snapshots[r.id].schema, database'.schema)
               /\ r.status = "COMPLETED" => r.target <= database'.version
    <3>1. CASE database'.journal[i] = row
      BY <1>1, <1>4, <1>5, <1>8, <1>10, <3>1 DEF WholeUpgrades
    <3>2. CASE i \in DOMAIN database.journal /\ database'.journal[i] = database.journal[i]
      BY <1>1, <1>5, <3>2 DEF WholeUpgrades
    <3> QED
      BY <1>7, <3>1, <3>2
  <2>2. \A i \in 1..(Len(database'.journal) - 1) : database'.journal[i].status = "COMPLETED"
    BY <1>6, <1>7
  <2> QED
    BY <1>5, <1>9, <2>1, <2>2 DEF WholeUpgrades
<1>12. command' \in MigrationCommand /\ command'.pc = "apply" /\ command'.id = command.id
       /\ command'.target = command.target /\ command'.registry = command.registry
  BY <1>1, <1>2 DEF MigrationCommand
<1>13. database' # None
  BY <1>5 DEF Migration!MigrationAssumption
<1>14. CommandRelies'
  BY <1>1, <1>2, <1>3, <1>4, <1>5, <1>7, <1>12, <1>13 DEF CommandRelies, LastRow
<1> QED
  BY <1>2, <1>11, <1>14 DEF MigrationInv

LEMMA MigrationApply ==
  ASSUME Migration!MigrationAssumption, MigrationInv, Migration!ApplyMigrations
  PROVE  MigrationInv'
<1> DEFINE steps == Migration!build_migration_plan(command.registry, database.version, command.target)
<1>1. /\ CommandRelies /\ command \in MigrationCommand /\ command.target \in Nat
      /\ command.registry \in Seq(Nat \X Nat)
      /\ database \in Migration!Database /\ WholeUpgrades(database, snapshots)
  BY RunsCommand, CommandTyped DEF Migration!ApplyMigrations
<1>2. /\ command.pc = "apply" /\ command' = [command EXCEPT !.pc = "complete"] /\ UNCHANGED <<result, snapshots>>
      /\ database' = Migration!Applied(database, steps)
  BY DEF Migration!ApplyMigrations
<1>3. database.version \in Nat /\ database.schema \in Seq(Nat \X Nat) /\ Migration!SchemaIsWhole(database)
  BY <1>1 DEF Migration!Database, WholeUpgrades
<1>4. steps # <<>> /\ database.version < command.target
  BY <1>1, <1>2 DEF CommandRelies
<1>5. /\ steps \in Seq(Nat \X Nat) /\ Len(steps) >= 1
      /\ steps[1][1] = database.version /\ steps[Len(steps)][2] = command.target
      /\ \A i \in 1..(Len(steps) - 1) : steps[i][2] = steps[i + 1][1]
  <2>1. steps = Migration!build_migration_plan(command.registry, database.version, command.target)
    OBVIOUS
  <2> HIDE DEF steps
  <2>2. /\ command.registry \in Seq(Nat \X Nat) /\ database.version \in Nat /\ command.target \in Nat
        /\ steps # <<>>
    BY <1>1, <1>3, <1>4
  <2>3. LeadsFrom(steps, database.version, command.target)
    BY ONLY <2>1, <2>2, PlanIsChain
  <2> QED
    BY <2>3 DEF LeadsFrom
<1> HIDE DEF steps
<1>6. /\ database' \in Migration!Database /\ Migration!SchemaIsWhole(database')
      /\ database'.journal = database.journal /\ database'.schema = database.schema \o steps
      /\ database'.version = command.target
  BY <1>1, <1>2, <1>3, <1>5, AppliedIsWhole
<1>7. ASSUME NEW i \in DOMAIN database.journal
      PROVE  /\ Migration!IsPrefix(snapshots[database.journal[i].id].schema, database'.schema)
             /\ database.journal[i].status = "COMPLETED" => database.journal[i].target <= database'.version
  <2> DEFINE row == database.journal[i]  found == snapshots[row.id].schema
  <2>1. row.id \in DOMAIN snapshots /\ Migration!IsPrefix(found, database.schema)
    BY <1>1 DEF WholeUpgrades
  <2>2. found \in Seq(Nat \X Nat)
    <3>1. snapshots[row.id] \in Migration!Database
      BY <2>1 DEF MigrationInv
    <3> QED
      BY <3>1 DEF Migration!Database
  <2>3. Migration!IsPrefix(found, database.schema \o steps)
    <3> HIDE DEF found
    <3> QED
      BY <1>3, <1>5, <2>1, <2>2, PrefixStays
  <2>4. row \in Migration!Row
    BY <1>1 DEF Migration!Database
  <2>5. row.status = "COMPLETED" => row.target <= command.target
    BY <1>1, <1>3, <1>4, <2>4 DEF WholeUpgrades, Migration!Row
  <2> QED
    BY <1>6, <2>3, <2>5
<1>8. WholeUpgrades(database', snapshots)
  BY <1>1, <1>6, <1>7 DEF WholeUpgrades
<1>9. command' \in MigrationCommand /\ command'.pc = "complete" /\ command'.id = command.id
      /\ command'.target = command.target /\ command'.registry = command.registry
  BY <1>1, <1>2 DEF MigrationCommand
<1>10. database' # None
  BY <1>6 DEF Migration!MigrationAssumption
<1>11. CommandRelies'
  BY <1>1, <1>2, <1>6, <1>9, <1>10 DEF CommandRelies, LastRow
<1> QED
  BY <1>2, <1>8, <1>11 DEF MigrationInv

\* The attempt that ends is the last row of the journal.
LEMMA MigrationRecord ==
  ASSUME Migration!MigrationAssumption, MigrationInv, Migration!RecordCompleted \/ Migration!RecordFailed
  PROVE  MigrationInv'
<1> DEFINE n == Len(database.journal)
<1>1. PICK outcome \in {"COMPLETED", "FAILED"} :
        /\ database' = [database EXCEPT !.journal[n].status = outcome]
        /\ command.pc \in {"apply", "complete"}
        /\ outcome = "COMPLETED" => command.pc = "complete"
        /\ command' = Migration!NoCommand /\ result'.id = command.id /\ UNCHANGED snapshots
  BY DEF Migration!RecordCompleted, Migration!RecordFailed
<1>2. /\ CommandRelies /\ command \in MigrationCommand /\ command.target \in Nat
      /\ database \in Migration!Database /\ WholeUpgrades(database, snapshots)
  BY <1>1, RunsCommand, CommandTyped
<1>3. /\ database.journal \in Seq(Migration!Row) /\ database.journal # <<>>
      /\ n \in Nat /\ n >= 1 /\ DOMAIN database.journal = 1..n
  BY <1>1, <1>2 DEF CommandRelies, Migration!Database
<1>4. database.journal[n] \in Migration!Row /\ database.journal[n].target = command.target
  BY <1>1, <1>2, <1>3 DEF CommandRelies, LastRow
<1> DEFINE row == [database.journal[n] EXCEPT !.status = outcome]
           j == [database.journal EXCEPT ![n] = row]
<1>5. /\ row \in Migration!Row /\ row.id = database.journal[n].id /\ row.from = database.journal[n].from
      /\ row.target = command.target /\ row.status = outcome
  BY <1>4 DEF Migration!Row
<1>6. j \in Seq(Migration!Row) /\ Len(j) = n /\ j[n] = row /\ \A i \in 1..n : i # n => j[i] = database.journal[i]
  <2> HIDE DEF row
  <2> QED
    BY <1>3, <1>5
<1>7. /\ database' \in Migration!Database /\ database'.journal = j
      /\ database'.schema = database.schema /\ database'.version = database.version
  <2>1. database' = [database EXCEPT !.journal = j]
    BY <1>1, <1>2, SMTT(60) DEF Migration!Database
  <2> HIDE DEF j
  <2> QED
    BY <1>2, <1>6, <2>1 DEF Migration!Database
<1> HIDE DEF row, j
<1>8. Migration!SchemaIsWhole(database')
  BY <1>2, <1>7 DEF WholeUpgrades, Migration!SchemaIsWhole
<1>9. outcome = "COMPLETED" => row.target <= database.version
  <2>1. outcome = "COMPLETED" => row.target = database.version
    BY <1>1, <1>2, <1>5 DEF CommandRelies
  <2> QED
    BY <1>2, <1>5, <2>1
<1>10. ASSUME NEW i \in 1..n
       PROVE  /\ j[i].status # "INTERRUPTED" /\ j[i].id \in DOMAIN snapshots
              /\ Migration!SchemaIsWhole(snapshots[j[i].id]) /\ snapshots[j[i].id].version = j[i].from
              /\ Migration!IsPrefix(snapshots[j[i].id].schema, database.schema)
              /\ j[i].status = "COMPLETED" => j[i].target <= database.version
  <2>1. CASE i = n
    BY <1>2, <1>3, <1>5, <1>6, <1>9, <2>1 DEF WholeUpgrades
  <2>2. CASE i # n
    BY <1>2, <1>3, <1>6, <2>2 DEF WholeUpgrades
  <2> QED
    BY <2>1, <2>2
<1>11. \A i \in 1..(n - 1) : j[i].status = "COMPLETED"
  BY <1>2, <1>3, <1>6 DEF WholeUpgrades
<1>12. WholeUpgrades(database', snapshots)
  <2>1. DOMAIN j = 1..n
    BY <1>6
  <2> QED
    BY <1>6, <1>7, <1>8, <1>10, <1>11, <2>1 DEF WholeUpgrades
<1>13. result'.id \in DOMAIN snapshots
  BY <1>1, <1>2 DEF CommandRelies
<1> QED
  BY <1>1, <1>12, <1>13 DEF MigrationInv

\* The shell puts back the database the last attempt found, which was whole.
LEMMA MigrationEnds ==
  ASSUME Migration!MigrationAssumption, MigrationInv,
         Migration!Die \/ Migration!RollBack \/ Migration!Settle \/ UNCHANGED Migration!vars
  PROVE  MigrationInv'
<1>1. CASE Migration!Die
  BY <1>1 DEF Migration!Die, MigrationInv
<1>2. CASE Migration!RollBack
  <2>1. /\ result # None /\ result.id # None /\ result' = None
        /\ database' = snapshots[result.id] /\ UNCHANGED <<command, snapshots>>
    BY <1>2 DEF Migration!RollBack
  <2>2. command = Migration!NoCommand
    BY <2>1 DEF MigrationInv, CommandRelies
  <2>3. WholeUpgrades(database', snapshots)
    BY <2>1 DEF MigrationInv
  <2> QED
    BY <2>1, <2>2, <2>3 DEF MigrationInv
<1>3. CASE Migration!Settle
  <2>1. result # None /\ result' = None /\ UNCHANGED <<database, command, snapshots>>
    BY <1>3 DEF Migration!Settle
  <2>2. command = Migration!NoCommand
    BY <2>1 DEF MigrationInv, CommandRelies
  <2> QED
    BY <2>1, <2>2 DEF MigrationInv
<1>4. CASE UNCHANGED Migration!vars
  <2>1. UNCHANGED <<database, command, result, snapshots>>
    BY <1>4 DEF Migration!vars
  <2> QED
    BY <2>1 DEF MigrationInv, CommandRelies, LastRow
<1> QED
  BY <1>1, <1>2, <1>3, <1>4

LEMMA MigrationKeeps ==
  ASSUME Migration!MigrationAssumption, MigrationInv, [Migration!Next]_(Migration!vars)
  PROVE  MigrationInv'
BY MigrationStarts, MigrationBackup, MigrationMark, MigrationBegin, MigrationApply, MigrationRecord,
   MigrationEnds DEF Migration!Next

\* UpgradesAreWhole, for any declared migrations, any targets and any number of attempts,
\* wherever the command dies or fails and whenever the shell rolls back: the database is
\* one that whole upgrades left, and each attempt has the snapshot of what it found.
THEOREM UpgradesStayWhole == LocalSpec => []UpgradesAreWhole
<1>1. Migration!MigrationAssumption
  BY ServiceConstants
<1>2. MigrationInv => UpgradesAreWhole
  BY DEF MigrationInv, WholeUpgrades, UpgradesAreWhole, Migration!UpgradesAreWhole
<1> QED
  BY <1>1, <1>2, MigrationInit, MigrationKeeps, EachServiceRuns, PTL DEF Migration!Spec
-----------------------------------------------------------------------------
(* The processes of the shell                                              *)
(*                                                                         *)
(* The creation time tells processes of one id apart. A parent that is     *)
(* older than its child is the one that started it: the id cannot have     *)
(* been passed on since. So every process below the child the shell        *)
(* spawned carries the instance id of this start.                          *)

Alive(p) == process[p] # None
ProcessesKnown ==
  /\ \A p \in Pids : Alive(p) => process[p].pid = p /\ process[p].born <= born /\ process[p].parent # p
  /\ \A p, q \in Pids : Alive(p) /\ Alive(q) /\ process[p].born = process[q].born => p = q
ParentsKnown ==
  \A p, q \in Pids :
    /\ Alive(p) /\ Alive(q) /\ process[p].parent = q /\ process[q].born < process[p].born
    => process[q].instance = process[p].instance
\* No other process has the creation time of an identity.
Captured(identity) ==
  /\ identity.born <= born
  /\ \A p \in Pids : Alive(p) /\ process[p].born = identity.born => process[p] = identity
OfThisStart(p) == process[p].instance = starts
RootKnown ==
  shell.root # None =>
    /\ Captured(shell.root) /\ shell.root.instance = starts
    /\ \A p \in Pids : Alive(p) /\ process[p].parent = ShellPid /\ process[p].born > shell.launch => OfThisStart(p)
    /\ shell.held => \A p \in Pids : Alive(p) =>
         /\ p = shell.root.pid => process[p] = shell.root
         /\ process[p].parent = shell.root.pid /\ process[p].born > shell.root.born => OfThisStart(p)
RuntimeKnown ==
  shell.runtime # None =>
    /\ Captured(shell.runtime)
    /\ ~ shell.astray => shell.runtime.instance = starts
    /\ shell.phase # "stopped" => discovery # None
RuntimeLives == shell.runtime # None /\ process[shell.runtime.pid] = shell.runtime
PhaseKnown ==
  /\ shell.phase = "locked" => starts \in Ownership!Instances
  /\ shell.phase \in {"down", "locked"} => shell.root = None /\ shell.runtime = None
  /\ shell.phase \in {"wait", "running", "kill"} => shell.root # None
  /\ shell.phase \in {"wait", "running"} => shell.held
  /\ shell.phase \in {"compare", "end", "gone"} => shell.runtime # None
  /\ shell.phase = "end" => shell.seen = shell.runtime
  /\ shell.phase = "gone" /\ RuntimeLives => shell.refused
  /\ shell.phase = "cleanup" /\ RuntimeLives => shell.refused /\ ~ shell.allowed
  /\ shell.phase = "stopped" /\ RuntimeLives => shell.refused /\ discovery # None
OwnershipTyped == Ownership!TypeOK /\ discovery \in Ownership!Discovery \cup {None}
OwnershipInv ==
  /\ OwnershipTyped /\ ~ wronged
  /\ ProcessesKnown /\ ParentsKnown /\ RootKnown /\ RuntimeKnown /\ PhaseKnown

LEMMA SmallestNumber ==
  ASSUME NEW S \in SUBSET Nat, S # {}
  PROVE  \E n \in S : \A m \in S : n <= m
<1>1. PICK n \in S : \A m \in S : ~ (<<m, n>> \in OpToRel(<, Nat))
  BY NatLessThanWellFounded, WFMin
<1>2. \A m \in S : ~ (m < n)
  BY <1>1, Zenon DEF OpToRel
<1> QED
  BY <1>2

\* The ids above a candidate, as far as m steps up.
Anchors == {shell.root.pid, ShellPid}
Upwards(p) == IF p \notin Pids \/ process[p] = None THEN None ELSE process[p].parent
StepUp(up, c, n) ==
  LET p == IF n = 1 THEN c ELSE up[n - 1] IN IF n > 1 /\ p \in Anchors THEN p ELSE Upwards(p)
Climbs(up, c, m) == up = [n \in 1..m |-> StepUp(up, c, n)]

LEMMA ClimbsFurther ==
  ASSUME NEW c, NEW m \in Nat, NEW up, Climbs(up, c, m)
  PROVE  \E further : Climbs(further, c, m + 1)
<1> DEFINE further == [n \in 1..(m + 1) |-> IF n <= m THEN up[n] ELSE StepUp(up, c, n)]
<1>1. \A n \in 1..m : up[n] = StepUp(up, c, n)
  BY DEF Climbs
<1>2. ASSUME NEW n \in 1..(m + 1) PROVE StepUp(further, c, n) = StepUp(up, c, n)
  <2>1. n > 1 => further[n - 1] = up[n - 1]
    OBVIOUS
  <2> HIDE DEF further
  <2> QED
    BY <2>1 DEF StepUp
<1>3. \A n \in 1..(m + 1) : further[n] = StepUp(further, c, n)
  BY <1>1, <1>2
<1>4. Climbs(further, c, m + 1)
  <2>1. further = [n \in 1..(m + 1) |-> further[n]]
    OBVIOUS
  <2> HIDE DEF further
  <2> QED
    BY <1>3, <2>1 DEF Climbs
<1> QED
  BY <1>4

LEMMA AncestorsClimb ==
  ASSUME NEW c, MaxDepth \in Nat
  PROVE  Climbs(Ownership!Ancestors(c), c, MaxDepth)
<1> DEFINE Stuck == {m \in Nat : ~ \E up : Climbs(up, c, m)}
<1>1. Stuck = {}
  <2> SUFFICES ASSUME Stuck # {} PROVE FALSE
    OBVIOUS
  <2>1. PICK m \in Stuck : \A k \in Stuck : m <= k
    BY SmallestNumber
  <2>2. m # 0
    <3>1. Climbs([n \in 1..0 |-> None], c, 0)
      BY DEF Climbs
    <3> QED
      BY <2>1, <3>1
  <2>3. m - 1 \in Nat /\ m - 1 \notin Stuck
    BY <2>1, <2>2
  <2>4. PICK up : Climbs(up, c, m - 1)
    BY <2>3
  <2> QED
    BY <2>1, <2>3, <2>4, ClimbsFurther
<1>2. \E up : Climbs(up, c, MaxDepth)
  BY <1>1
<1>3. Ownership!Ancestors(c) = CHOOSE up : Climbs(up, c, MaxDepth)
  BY Zenon DEF Ownership!Ancestors, Climbs, StepUp, Anchors, Upwards
<1> QED
  BY <1>2, <1>3

LEMMA ProcessTypes ==
  ASSUME Ownership!OwnershipAssumption, OwnershipTyped
  PROVE  /\ born \in Nat /\ None \notin Pids /\ ShellPid \notin Pids /\ None # ShellPid
         /\ \A p \in Pids : Alive(p) =>
              /\ process[p] \in Ownership!Process
              /\ process[p].born \in Nat /\ process[p].parent \in Pids \cup {ShellPid, None}
         /\ shell.launch \in Nat /\ starts \in Nat
         /\ \A identity \in {shell.root, shell.runtime} : identity # None =>
              identity \in Ownership!Process /\ identity.pid \in Pids /\ identity.born \in Nat
<1>1. \A identity \in Ownership!Process :
        /\ identity.pid \in Pids /\ identity.born \in Nat
        /\ identity.parent \in Pids \cup {ShellPid, None}
  BY DEF Ownership!Process
<1>2. /\ shell.launch \in Nat /\ born \in Nat /\ starts \in Nat
      /\ shell.root \in Ownership!Process \cup {None} /\ shell.runtime \in Ownership!Process \cup {None}
      /\ process \in [Pids -> Ownership!Process \cup {None}]
  BY DEF OwnershipTyped, Ownership!TypeOK, Ownership!Shell, Ownership!OwnershipAssumption
<1>3. None \notin Pids /\ ShellPid \notin Pids /\ None # ShellPid
  BY DEF Ownership!OwnershipAssumption
<1> QED
  BY <1>1, <1>2, <1>3 DEF Alive

\* A process that an unbroken chain of older parents leads from to the child of the shell,
\* or to the shell itself, was started by this start of the shell.
LEMMA LineageIsOfThisStart ==
  ASSUME Ownership!OwnershipAssumption, OwnershipTyped, ProcessesKnown, ParentsKnown, RootKnown,
         shell.root # None, shell.held, NEW c \in Pids, Alive(c), c # shell.root.pid,
         Ownership!lineage_reaches(c), ~ Ownership!PassedOn(c)
  PROVE  OfThisStart(c)
<1> DEFINE up == Ownership!Ancestors(c)
           Below(n) == IF n = 1 THEN c ELSE up[n - 1]
<1>1. MaxDepth \in Nat /\ MaxDepth >= 1
  BY DEF Ownership!OwnershipAssumption
<1>2. /\ None \notin Pids /\ ShellPid \notin Pids /\ None # ShellPid /\ shell.root.pid \in Pids
      /\ None \notin Anchors /\ c \notin Anchors
  BY ProcessTypes DEF Anchors
<1>3. \A n \in 1..MaxDepth : up[n] = IF n > 1 /\ Below(n) \in Anchors THEN Below(n) ELSE Upwards(Below(n))
  BY <1>1, AncestorsClimb DEF Climbs, StepUp
<1>4. up[MaxDepth] \in Anchors
  BY DEF Ownership!lineage_reaches, Anchors
<1>5. \A n \in 1..MaxDepth :
        up[n] # None /\ up[n] # Below(n)
          => ~ (Ownership!BornAt(up[n]) >= Ownership!BornAt(Below(n)))
  BY DEF Ownership!PassedOn
<1>6. \A n \in 2..MaxDepth : Below(n) = up[n - 1]
  OBVIOUS
<1>7. Below(1) = c
  OBVIOUS
<1> HIDE DEF up, Below
\* The first id that is an anchor or missing
<1> DEFINE Halts == {n \in 1..MaxDepth : up[n] \in Anchors \cup {None}}
<1>8. PICK m \in Halts : \A n \in Halts : m <= n
  <2>1. Halts \in SUBSET Nat /\ Halts # {}
    BY <1>1, <1>4
  <2> HIDE DEF Halts
  <2> QED
    BY <2>1, SmallestNumber
<1>9. m \in 1..MaxDepth /\ \A n \in 1..(m - 1) : up[n] \notin Anchors /\ up[n] # None
  BY <1>1, <1>8
\* From a missing id on every further one is missing.
<1>10. up[m] \in Anchors
  <2> DEFINE Beyond == {n \in m..MaxDepth : up[n] # None}
  <2>1. CASE up[m] = None
    <3>1. Beyond \in SUBSET Nat /\ Beyond # {}
      BY <1>1, <1>2, <1>4, <1>9
    <3>2. PICK n \in Beyond : \A k \in Beyond : n <= k
      <4> HIDE DEF Beyond
      <4> QED
        BY <3>1, SmallestNumber
    <3>3. n \in 2..MaxDepth /\ n - 1 \in m..MaxDepth /\ n - 1 \notin Beyond
      BY <1>1, <1>9, <2>1, <3>2
    <3>4. up[n - 1] = None
      BY <3>3
    <3>5. up[n] = None
      <4>1. Below(n) = None /\ n \in 1..MaxDepth
        BY <1>6, <3>3, <3>4
      <4> QED
        BY <1>2, <1>3, <4>1 DEF Upwards
    <3> QED
      BY <3>2, <3>5
  <2> QED
    BY <1>8, <2>1
<1> DEFINE Same(n) == /\ Below(n) \in Pids /\ Below(n) \notin Anchors /\ Alive(Below(n))
                       /\ process[Below(n)].instance = process[c].instance
           Other == {n \in 1..m : ~ Same(n)}
<1>11. ASSUME NEW n \in 1..m, Same(n)
       PROVE  /\ up[n] = process[Below(n)].parent /\ up[n] # Below(n)
              /\ Ownership!BornAt(up[n]) < process[Below(n)].born \/ ~ (Ownership!BornAt(up[n]) \in Nat)
  <2>1. n \in 1..MaxDepth
    BY <1>1, <1>9
  <2>2. up[n] = process[Below(n)].parent
    BY <1>3, <1>11, <2>1 DEF Upwards, Alive
  <2>3. up[n] # Below(n)
    BY <1>11, <2>2 DEF ProcessesKnown
  <2>4. Ownership!BornAt(Below(n)) = process[Below(n)].born
    BY <1>11 DEF Ownership!BornAt, Anchors
  <2>5. up[n] # None
    BY <1>2, <1>9, <1>10, <1>11
  <2>6. process[Below(n)].born \in Nat
    BY <1>11, ProcessTypes
  <2> QED
    BY <1>5, <2>1, <2>2, <2>3, <2>4, <2>5, <2>6
<1>12. ASSUME NEW n \in 1..(m - 1), Same(n) PROVE Same(n + 1)
  <2>1. n \in 1..m /\ n + 1 \in 2..MaxDepth /\ n + 1 \in 1..m /\ (n + 1) - 1 = n /\ n + 1 \in 1..MaxDepth
    BY <1>1, <1>9
  <2>2. Below(n + 1) = up[n]
    BY <1>6, <2>1
  <2>3. up[n] \in Pids /\ up[n] \notin Anchors
    <3>1. up[n] \in Pids \cup {ShellPid, None}
      BY <1>11, <1>12, <2>1, ProcessTypes
    <3> QED
      BY <1>9, <3>1 DEF Anchors
  <2>4. up[n + 1] # None
    BY <1>2, <1>9, <1>10, <2>1
  <2>5. Alive(up[n])
    BY <1>3, <2>1, <2>2, <2>3, <2>4 DEF Upwards, Alive
  <2>6. Ownership!BornAt(up[n]) = process[up[n]].born
    BY <2>3 DEF Ownership!BornAt, Anchors
  <2>7. process[up[n]].born < process[Below(n)].born /\ up[n] = process[Below(n)].parent
    BY <1>11, <1>12, <2>1, <2>3, <2>5, <2>6, ProcessTypes
  <2>8. process[up[n]].instance = process[Below(n)].instance
    BY <1>12, <2>3, <2>5, <2>7 DEF ParentsKnown
  <2> QED
    BY <1>12, <2>2, <2>3, <2>5, <2>8
<1>13. Same(1)
  BY <1>2, <1>7
<1>14. Other = {}
  <2> SUFFICES ASSUME Other # {} PROVE FALSE
    OBVIOUS
  <2>1. PICK n \in Other : \A k \in Other : n <= k
    <3>1. Other \in SUBSET Nat
      BY <1>9
    <3> HIDE DEF Other
    <3> QED
      BY <3>1, SmallestNumber
  <2>2. n \in 1..m /\ n # 1
    BY <1>13, <2>1
  <2>3. n - 1 \in 1..(m - 1) /\ n - 1 \notin Other /\ n - 1 \in 1..m /\ (n - 1) + 1 = n
    BY <1>9, <2>1, <2>2
  <2>4. Same(n - 1)
    BY <2>3
  <2> HIDE DEF Same
  <2> QED
    BY <1>12, <2>1, <2>3, <2>4
<1>15. m \in 1..m /\ Same(m)
  BY <1>9, <1>14
<1> DEFINE b == Below(m)
<1>16. /\ b \in Pids /\ Alive(b) /\ process[b].instance = process[c].instance
       /\ process[b].parent = up[m] /\ up[m] \in Anchors
       /\ Ownership!BornAt(up[m]) < process[b].born \/ ~ (Ownership!BornAt(up[m]) \in Nat)
  BY <1>10, <1>11, <1>15
<1>17. CASE up[m] = ShellPid
  <2>1. Ownership!BornAt(up[m]) = shell.launch
    BY <1>17 DEF Ownership!BornAt
  <2>2. process[b].parent = ShellPid /\ process[b].born > shell.launch
    BY <1>16, <1>17, <2>1, ProcessTypes
  <2> QED
    BY <1>16, <2>2 DEF RootKnown, OfThisStart
<1>18. CASE up[m] = shell.root.pid
  <2>1. Ownership!BornAt(up[m]) = shell.root.born
    BY <1>2, <1>18 DEF Ownership!BornAt
  <2>2. process[b].parent = shell.root.pid /\ process[b].born > shell.root.born
    BY <1>16, <1>18, <2>1, ProcessTypes
  <2> QED
    BY <1>16, <2>2 DEF RootKnown, OfThisStart
<1> QED
  BY <1>16, <1>17, <1>18 DEF Anchors

\* Processes end or stay, and none is started.
Fewer ==
  /\ born' = born /\ process' \in [Pids -> Ownership!Process \cup {None}]
  /\ \A p \in Pids : process'[p] = None \/ process'[p] = process[p]
\* The shell keeps what it knows of its child, or lets it go.
ChildStays ==
  /\ starts' = starts /\ shell'.root = shell.root /\ shell'.launch = shell.launch
  /\ shell'.held => shell.held

LEMMA FewerKnown ==
  ASSUME Ownership!OwnershipAssumption, OwnershipTyped, ProcessesKnown, ParentsKnown, Fewer
  PROVE  /\ ProcessesKnown' /\ ParentsKnown'
         /\ \A identity : Captured(identity) => Captured(identity)'
<1>1. \A p \in Pids : Alive(p)' => process'[p] = process[p] /\ Alive(p)
  BY DEF Fewer, Alive
<1>2. ProcessesKnown'
  BY <1>1 DEF Fewer, ProcessesKnown
<1>3. ParentsKnown'
  BY <1>1 DEF ParentsKnown
<1>4. ASSUME NEW identity, Captured(identity) PROVE Captured(identity)'
  BY <1>1, <1>4 DEF Fewer, Captured
<1> QED
  BY <1>2, <1>3, <1>4

LEMMA FewerChild ==
  ASSUME Ownership!OwnershipAssumption, OwnershipTyped, ProcessesKnown, ParentsKnown, RootKnown,
         Fewer, ChildStays
  PROVE  RootKnown'
<1>1. \A p \in Pids : Alive(p)' => process'[p] = process[p] /\ Alive(p)
  BY DEF Fewer, Alive
<1>2. \A identity : Captured(identity) => Captured(identity)'
  BY FewerKnown
<1>3. shell.root # None => Captured(shell.root)'
  BY <1>2 DEF RootKnown, ChildStays, Captured
<1> QED
  BY <1>1, <1>3 DEF RootKnown, ChildStays, OfThisStart

\* A process is started under an id that is free.
Spawned(q, parent, image, id) ==
  /\ Ownership!Begin(q, parent, image, id)
  /\ parent \in Pids \cup {ShellPid, None} /\ image \in Images /\ id \in Ownership!Instances \cup {None}
  /\ parent \in Pids => Alive(parent) /\ process[parent].instance = id
Newcomer(q, parent, image, id) ==
  [pid |-> q, born |-> born + 1, parent |-> parent, image |-> image, instance |-> id]

LEMMA SpawnedKnown ==
  ASSUME Ownership!OwnershipAssumption, OwnershipTyped, ProcessesKnown, ParentsKnown,
         NEW q \in Pids, NEW parent, NEW image, NEW id, Spawned(q, parent, image, id)
  PROVE  /\ born' = born + 1 /\ born' \in 0..MaxBorn
         /\ process' \in [Pids -> Ownership!Process \cup {None}]
         /\ ~ Alive(q) /\ ~ Ownership!Held(q)
         /\ process'[q] = Newcomer(q, parent, image, id) /\ process'[q] \in Ownership!Process
         /\ \A p \in Pids : p # q => process'[p] = process[p]
         /\ ProcessesKnown' /\ ParentsKnown'
         /\ \A identity \in Ownership!Process : Captured(identity) => Captured(identity)'
<1> DEFINE new == Newcomer(q, parent, image, id)
<1>1. /\ process[q] = None /\ ~ Ownership!Held(q) /\ born < MaxBorn /\ born' = born + 1
      /\ process' = [process EXCEPT ![q] = new]
  BY DEF Spawned, Ownership!Begin, Newcomer
<1>2. /\ born \in 0..MaxBorn /\ MaxBorn \in Nat /\ process \in [Pids -> Ownership!Process \cup {None}]
      /\ None \notin Ownership!Process
  BY DEF OwnershipTyped, Ownership!TypeOK, Ownership!OwnershipAssumption
<1>3. new \in Ownership!Process /\ new # None
  BY <1>1, <1>2 DEF Spawned, Newcomer, Ownership!Process
<1>4. new.pid = q /\ new.born = born + 1 /\ new.parent = parent /\ new.instance = id
  BY DEF Newcomer
<1> HIDE DEF new
<1>5. /\ process'[q] = new /\ \A p \in Pids : p # q => process'[p] = process[p]
      /\ process' \in [Pids -> Ownership!Process \cup {None}] /\ born' \in 0..MaxBorn /\ born \in Nat
  BY <1>1, <1>2, <1>3
<1>6. /\ \A p \in Pids : p # q => (Alive(p)' <=> Alive(p))
      /\ \A p \in Pids : Alive(p) => process[p].born \in Nat /\ process[p].born <= born
      /\ ~ Alive(q) /\ Alive(q)'
  BY <1>1, <1>3, <1>5, ProcessTypes DEF Alive, ProcessesKnown
<1>7. parent # q
  BY <1>6 DEF Spawned
<1>8. ProcessesKnown'
  <2>1. \A p \in Pids : Alive(p)' => process'[p].pid = p /\ process'[p].born <= born' /\ process'[p].parent # p
    BY <1>1, <1>4, <1>5, <1>6, <1>7 DEF ProcessesKnown
  <2>2. ASSUME NEW p \in Pids, NEW r \in Pids, Alive(p)', Alive(r)', process'[p].born = process'[r].born
        PROVE  p = r
    BY <1>4, <1>5, <1>6, <2>2 DEF ProcessesKnown
  <2> QED
    BY <2>1, <2>2 DEF ProcessesKnown
<1>9. ParentsKnown'
  <2> SUFFICES ASSUME NEW p \in Pids, NEW r \in Pids, Alive(p)', Alive(r)',
                      process'[p].parent = r, process'[r].born < process'[p].born
               PROVE  process'[r].instance = process'[p].instance
    BY DEF ParentsKnown
  <2>1. CASE p = q
    BY <1>4, <1>5, <1>7, <2>1 DEF Spawned
  <2>2. CASE p # q /\ r = q
    BY <1>4, <1>5, <1>6, <2>2
  <2>3. CASE p # q /\ r # q
    BY <1>5, <1>6, <2>3 DEF ParentsKnown
  <2> QED
    BY <2>1, <2>2, <2>3
<1>10. ASSUME NEW identity \in Ownership!Process, Captured(identity) PROVE Captured(identity)'
  <2>1. identity.born \in Nat /\ identity.born <= born
    BY <1>2, <1>10 DEF Captured, Ownership!Process
  <2>2. ASSUME NEW p \in Pids, Alive(p)', process'[p].born = identity.born PROVE process'[p] = identity
    <3>1. p # q
      BY <1>4, <1>5, <2>1, <2>2
    <3> QED
      BY <1>5, <1>6, <1>10, <2>2, <3>1 DEF Captured
  <2> QED
    BY <1>1, <1>5, <2>1, <2>2 DEF Captured
<1> QED
  BY <1>1, <1>3, <1>5, <1>6, <1>8, <1>9, <1>10 DEF new

LEMMA OwnershipForks ==
  ASSUME Ownership!OwnershipAssumption, OwnershipInv,
         NEW q \in Pids, NEW parent \in Pids \cup {None}, NEW image, NEW id, Spawned(q, parent, image, id),
         UNCHANGED <<discovery, shell, starts, wronged>>
  PROVE  OwnershipInv'
<1>1. /\ OwnershipTyped /\ ProcessesKnown /\ ParentsKnown /\ RootKnown /\ RuntimeKnown /\ PhaseKnown
      /\ None \notin Pids /\ parent # ShellPid
  BY DEF OwnershipInv, Ownership!OwnershipAssumption
<1> DEFINE new == Newcomer(q, parent, image, id)
<1>2. /\ born' = born + 1 /\ born' \in 0..MaxBorn
      /\ process' \in [Pids -> Ownership!Process \cup {None}]
      /\ ~ Alive(q) /\ ~ Ownership!Held(q)
      /\ process'[q] = new /\ \A p \in Pids : p # q => process'[p] = process[p]
      /\ ProcessesKnown' /\ ParentsKnown'
      /\ \A identity \in Ownership!Process : Captured(identity) => Captured(identity)'
  BY <1>1, SpawnedKnown
<1>3. new.born = born + 1 /\ new.parent = parent /\ new.instance = id
  BY DEF Newcomer
<1> HIDE DEF new
<1>4. OwnershipTyped' /\ ~ wronged'
  BY <1>1, <1>2 DEF OwnershipTyped, Ownership!TypeOK, OwnershipInv
<1>5. RootKnown'
  <2> SUFFICES ASSUME shell.root # None
               PROVE  /\ Captured(shell.root)' /\ shell'.root.instance = starts'
                      /\ \A p \in Pids : Alive(p)' /\ process'[p].parent = ShellPid /\ process'[p].born > shell'.launch
                           => OfThisStart(p)'
                      /\ shell'.held => \A p \in Pids : Alive(p)' =>
                           /\ p = shell'.root.pid => process'[p] = shell'.root
                           /\ process'[p].parent = shell'.root.pid /\ process'[p].born > shell'.root.born
                                => OfThisStart(p)'
    BY DEF RootKnown
  <2>1. shell.root \in Ownership!Process /\ Captured(shell.root) /\ shell.root.instance = starts
    BY <1>1, ProcessTypes DEF RootKnown
  <2>2. Captured(shell.root)' /\ shell'.root.instance = starts'
    BY <1>2, <2>1 DEF Captured
  <2>3. \A p \in Pids : Alive(p)' /\ process'[p].parent = ShellPid /\ process'[p].born > shell'.launch
          => OfThisStart(p)'
    BY <1>1, <1>2, <1>3 DEF RootKnown, Alive, OfThisStart
  <2>4. ASSUME shell.held, NEW p \in Pids, Alive(p)'
        PROVE  /\ p = shell.root.pid => process'[p] = shell.root
               /\ process'[p].parent = shell.root.pid /\ process'[p].born > shell.root.born => OfThisStart(p)'
    <3>1. shell.root.pid # q
      BY <1>2, <2>4 DEF Ownership!Held
    <3>2. CASE p # q
      BY <1>1, <1>2, <2>4, <3>2 DEF RootKnown, Alive, OfThisStart
    <3>3. CASE p = q
      <4>1. parent \in Pids => Alive(parent) /\ process[parent].instance = id
        BY DEF Spawned
      <4>2. ASSUME parent = shell.root.pid PROVE id = starts
        <5>1. parent \in Pids
          BY <1>1, <2>1, <4>2 DEF Ownership!Process
        <5>2. process[parent] = shell.root
          BY <1>1, <2>4, <4>1, <4>2, <5>1 DEF RootKnown
        <5> QED
          BY <2>1, <4>1, <5>1, <5>2
      <4> QED
        BY <1>2, <1>3, <3>1, <3>3, <4>2 DEF OfThisStart
    <3> QED
      BY <3>2, <3>3
  <2> QED
    BY <2>2, <2>3, <2>4
<1>6. RuntimeKnown'
  <2>1. shell.runtime # None => shell.runtime \in Ownership!Process /\ Captured(shell.runtime)
    BY <1>1, ProcessTypes DEF RuntimeKnown
  <2>2. shell.runtime # None => Captured(shell.runtime)'
    BY <1>2, <2>1 DEF Captured
  <2> QED
    BY <1>1, <2>2 DEF RuntimeKnown
<1>7. RuntimeLives' => RuntimeLives
  <2> SUFFICES ASSUME shell.runtime # None, process'[shell.runtime.pid] = shell.runtime
               PROVE  process[shell.runtime.pid] = shell.runtime
    BY DEF RuntimeLives
  <2>1. shell.runtime.pid \in Pids /\ shell.runtime.born \in Nat /\ shell.runtime.born <= born /\ born \in Nat
    BY <1>1, ProcessTypes DEF RuntimeKnown, Captured
  <2> QED
    BY <1>2, <1>3, <2>1
<1>8. PhaseKnown'
  BY <1>1, <1>7 DEF PhaseKnown
<1> QED
  BY <1>2, <1>4, <1>5, <1>6, <1>8 DEF OwnershipInv

LEMMA OwnershipBegins ==
  ASSUME Ownership!OwnershipAssumption, OwnershipInv, (\E p \in Pids : Ownership!Fork(p)) \/ Ownership!Foreign
  PROVE  OwnershipInv'
<1>1. OwnershipTyped /\ "api" \in Images /\ \A p \in Pids : Alive(p) => process[p] \in Ownership!Process
  BY ProcessTypes DEF OwnershipInv, Ownership!OwnershipAssumption
<1>2. ASSUME NEW p \in Pids, Ownership!Fork(p) PROVE OwnershipInv'
  <2>1. PICK q \in Pids, image \in Images : Ownership!Begin(q, p, image, process[p].instance)
    BY <1>2 DEF Ownership!Fork
  <2>2. Alive(p) /\ UNCHANGED <<discovery, shell, starts, wronged>>
    BY <1>2 DEF Ownership!Fork, Alive
  <2>3. process[p].instance \in Ownership!Instances \cup {None}
    BY <1>1, <2>2 DEF Ownership!Process
  <2>4. Spawned(q, p, image, process[p].instance)
    BY <2>1, <2>2, <2>3 DEF Spawned
  <2> QED
    BY <2>2, <2>4, OwnershipForks
<1>3. CASE Ownership!Foreign
  <2>1. PICK q \in Pids, parent \in {p \in Pids : process[p] # None /\ process[p].instance = None} \cup {None},
             image \in Images : Ownership!Begin(q, parent, image, None)
    BY <1>3 DEF Ownership!Foreign
  <2>2. UNCHANGED <<discovery, shell, starts, wronged>>
    BY <1>3 DEF Ownership!Foreign
  <2>3. None \notin Pids
    BY DEF Ownership!OwnershipAssumption
  <2>4. Spawned(q, parent, image, None)
    BY <2>1, <2>3 DEF Spawned, Alive
  <2> QED
    BY <2>1, <2>2, <2>4, OwnershipForks
<1> QED
  BY <1>2, <1>3

\* What the shell knows after a start that failed, or when it has not started
LEMMA DownTyped ==
  ASSUME Ownership!OwnershipAssumption, NEW next \in Ownership!Phase
  PROVE  LET down == [Ownership!Down EXCEPT !.phase = next] IN
         down \in Ownership!Shell /\ down.phase = next /\ down.root = None /\ down.runtime = None
<1>1. 0 \in 0..MaxBorn
  BY DEF Ownership!OwnershipAssumption
<1>2. Ownership!Down \in Ownership!Shell /\ Ownership!Down.root = None /\ Ownership!Down.runtime = None
  BY <1>1 DEF Ownership!Down, Ownership!Shell, Ownership!Phase
<1> QED
  BY <1>2 DEF Ownership!Shell

LEMMA OwnershipSpawns ==
  ASSUME Ownership!OwnershipAssumption, OwnershipInv, Ownership!Spawn
  PROVE  OwnershipInv'
<1>1. /\ OwnershipTyped /\ ProcessesKnown /\ ParentsKnown /\ RootKnown /\ RuntimeKnown /\ PhaseKnown
      /\ None \notin Pids /\ ShellPid \notin Pids /\ None # ShellPid /\ "api" \in Images
  BY DEF OwnershipInv, Ownership!OwnershipAssumption
<1>2. PICK q \in Pids :
        /\ Ownership!Begin(q, ShellPid, "api", starts)
        /\ \/ shell' = [shell EXCEPT !.phase = "wait", !.launch = born, !.root = process'[q], !.held = TRUE]
           \/ shell' = [Ownership!Down EXCEPT !.phase = "stopped"]
  BY Zenon DEF Ownership!Spawn
<1>3. shell.phase = "locked" /\ UNCHANGED <<discovery, starts, wronged>>
  BY DEF Ownership!Spawn
<1>4. starts \in Ownership!Instances /\ shell.root = None /\ shell.runtime = None
  BY <1>1, <1>3 DEF PhaseKnown
<1>5. Spawned(q, ShellPid, "api", starts)
  BY <1>1, <1>2, <1>4 DEF Spawned
<1> DEFINE new == Newcomer(q, ShellPid, "api", starts)
<1>6. /\ born' = born + 1 /\ born' \in 0..MaxBorn
      /\ process' \in [Pids -> Ownership!Process \cup {None}]
      /\ process'[q] = new /\ new \in Ownership!Process
      /\ \A p \in Pids : p # q => process'[p] = process[p]
      /\ ProcessesKnown' /\ ParentsKnown'
  BY <1>1, <1>5, SpawnedKnown
<1>7. new.pid = q /\ new.born = born + 1 /\ new.parent = ShellPid /\ new.instance = starts
  BY DEF Newcomer
<1> HIDE DEF new
<1>8. born \in 0..MaxBorn /\ shell \in Ownership!Shell /\ MaxBorn \in Nat
  BY <1>1 DEF OwnershipTyped, Ownership!TypeOK, Ownership!OwnershipAssumption
<1>9. CASE shell' = [shell EXCEPT !.phase = "wait", !.launch = born, !.root = process'[q], !.held = TRUE]
  <2>1. /\ shell'.phase = "wait" /\ shell'.launch = born /\ shell'.root = new /\ shell'.held
        /\ shell'.runtime = None /\ shell' \in Ownership!Shell
    BY <1>4, <1>6, <1>8, <1>9 DEF Ownership!Shell, Ownership!Phase
  <2>2. new # None
    BY <1>6 DEF Ownership!OwnershipAssumption
  <2>3. \A p \in Pids : Alive(p)' /\ p # q => process'[p].born <= born /\ process'[p].born \in Nat
    BY <1>1, <1>6, ProcessTypes DEF ProcessesKnown, Alive
  <2>4. Captured(shell.root)'
    BY <1>6, <1>7, <1>8, <2>1, <2>3 DEF Captured
  <2>5. RootKnown'
    <3>1. ASSUME NEW p \in Pids, Alive(p)', process'[p].parent = ShellPid, process'[p].born > shell'.launch
          PROVE  OfThisStart(p)'
      BY <1>3, <1>6, <1>7, <1>8, <2>1, <2>3, <3>1 DEF OfThisStart
    <3>2. ASSUME NEW p \in Pids, Alive(p)'
          PROVE  /\ p = shell'.root.pid => process'[p] = shell'.root
                 /\ ~ (process'[p].parent = shell'.root.pid /\ process'[p].born > shell'.root.born)
      BY <1>6, <1>7, <1>8, <2>1, <2>3, <3>2
    <3> QED
      BY <1>3, <1>7, <2>1, <2>4, <3>1, <3>2 DEF RootKnown
  <2>6. RuntimeKnown' /\ PhaseKnown'
    BY <2>1, <2>2 DEF RuntimeKnown, PhaseKnown, RuntimeLives
  <2>7. OwnershipTyped' /\ ~ wronged'
    BY <1>1, <1>3, <1>6, <2>1 DEF OwnershipTyped, Ownership!TypeOK, OwnershipInv
  <2> QED
    BY <1>6, <2>5, <2>6, <2>7 DEF OwnershipInv
<1>10. CASE shell' = [Ownership!Down EXCEPT !.phase = "stopped"]
  <2>1. /\ shell'.phase = "stopped" /\ shell'.root = None /\ shell'.runtime = None
        /\ shell' \in Ownership!Shell
    <3>1. "stopped" \in Ownership!Phase
      BY DEF Ownership!Phase
    <3> QED
      BY ONLY <1>10, <3>1, DownTyped, Ownership!OwnershipAssumption
  <2>2. RootKnown' /\ RuntimeKnown' /\ PhaseKnown'
    BY <2>1 DEF RootKnown, RuntimeKnown, PhaseKnown, RuntimeLives
  <2>3. OwnershipTyped' /\ ~ wronged'
    BY <1>1, <1>3, <1>6, <2>1 DEF OwnershipTyped, Ownership!TypeOK, OwnershipInv
  <2> QED
    BY <1>6, <2>2, <2>3 DEF OwnershipInv
<1> QED
  BY <1>2, <1>9, <1>10

LEMMA ShellTypes ==
  ASSUME Ownership!OwnershipAssumption, OwnershipTyped
  PROVE  /\ shell \in Ownership!Shell /\ process \in [Pids -> Ownership!Process \cup {None}]
         /\ None \notin Ownership!Process /\ None \notin Ownership!Discovery
         /\ discovery # None => discovery \in Ownership!Discovery /\ discovery.pid \in Pids
BY DEF OwnershipTyped, Ownership!TypeOK, Ownership!OwnershipAssumption, Ownership!Discovery

\* The process that is trusted is the child, or the lineage of its ids leads there.
LEMMA TrustedIsOfThisStart ==
  ASSUME Ownership!OwnershipAssumption, OwnershipInv, shell.root # None, shell.held,
         NEW c \in Pids, Ownership!trusted_runtime(c, discovery.instance),
         c # shell.root.pid => ~ Ownership!PassedOn(c)
  PROVE  OfThisStart(c)
<1>1. /\ OwnershipTyped /\ ProcessesKnown /\ ParentsKnown /\ RootKnown /\ Alive(c)
  BY DEF OwnershipInv, Ownership!trusted_runtime, Alive
<1>2. CASE c = shell.root.pid
  <2>1. Ownership!same_process_identity(shell.root, process[c])
    BY <1>2 DEF Ownership!trusted_runtime
  <2>2. process[c] = shell.root
    BY <1>1, <2>1 DEF Ownership!same_process_identity, RootKnown, Captured
  <2> QED
    BY <1>1, <2>2 DEF RootKnown, OfThisStart
<1>3. CASE c # shell.root.pid
  <2>1. Ownership!lineage_reaches(c)
    BY <1>3 DEF Ownership!trusted_runtime
  <2> QED
    BY <1>1, <1>3, <2>1, LineageIsOfThisStart
<1> QED
  BY <1>2, <1>3

LEMMA OwnershipTrusts ==
  ASSUME Ownership!OwnershipAssumption, OwnershipInv, Ownership!Trust
  PROVE  OwnershipInv'
<1> DEFINE c == discovery.pid
           passed == c # shell.root.pid /\ Ownership!PassedOn(c)
<1>1. /\ OwnershipTyped /\ ProcessesKnown /\ ParentsKnown /\ RootKnown /\ RuntimeKnown /\ PhaseKnown
      /\ ~ wronged
  BY DEF OwnershipInv
<1>2. /\ shell.phase = "wait" /\ discovery # None /\ Ownership!trusted_runtime(c, discovery.instance)
      /\ shell' = [shell EXCEPT !.runtime = process[c], !.astray = passed]
      /\ UNCHANGED <<process, born, discovery, starts, wronged>>
  BY DEF Ownership!Trust
<1>3. c \in Pids /\ shell \in Ownership!Shell /\ process \in [Pids -> Ownership!Process \cup {None}]
  BY <1>1, <1>2, ShellTypes
<1>4. Alive(c) /\ process[c] \in Ownership!Process /\ process[c].pid = c
  BY <1>1, <1>2, <1>3, ProcessTypes DEF Ownership!trusted_runtime, Alive, ProcessesKnown
<1>5. passed \in BOOLEAN
  OBVIOUS
<1>6. shell.root # None /\ shell.held /\ (~ passed => OfThisStart(c))
  <2>1. shell.root # None /\ shell.held
    BY <1>1, <1>2 DEF PhaseKnown
  <2> QED
    BY <1>2, <1>3, <2>1, TrustedIsOfThisStart
<1> HIDE DEF passed, c
<1>7. /\ shell' \in Ownership!Shell /\ shell'.runtime = process[c] /\ shell'.astray = passed
      /\ shell'.phase = "wait" /\ shell'.held = shell.held
      /\ shell'.root = shell.root /\ shell'.launch = shell.launch
  BY <1>2, <1>3, <1>4, <1>5 DEF Ownership!Shell
<1>8. Fewer /\ ChildStays
  BY <1>2, <1>3, <1>7 DEF Fewer, ChildStays
<1>9. ProcessesKnown' /\ ParentsKnown' /\ RootKnown'
  BY <1>1, <1>8, FewerKnown, FewerChild
<1>10. RuntimeKnown'
  <2>1. Captured(process[c])
    BY <1>1, <1>3, <1>4 DEF Captured, ProcessesKnown
  <2>2. Captured(shell.runtime)'
    BY <1>2, <1>7, <2>1 DEF Captured, Alive
  <2>3. ~ shell'.astray => shell'.runtime.instance = starts'
    BY <1>2, <1>6, <1>7 DEF OfThisStart
  <2> QED
    BY <1>2, <2>2, <2>3 DEF RuntimeKnown
<1>11. PhaseKnown'
  BY <1>6, <1>7 DEF PhaseKnown
<1>12. OwnershipTyped'
  BY <1>1, <1>2, <1>7 DEF OwnershipTyped, Ownership!TypeOK
<1> QED
  BY <1>1, <1>2, <1>9, <1>10, <1>11, <1>12 DEF OwnershipInv

\* What remains when the shell, its child and the processes it knows stay as they are.
LEMMA OwnershipStays ==
  ASSUME Ownership!OwnershipAssumption, OwnershipInv, Fewer, ChildStays,
         shell' \in Ownership!Shell, wronged' = FALSE, discovery' \in Ownership!Discovery \cup {None},
         shell'.runtime = shell.runtime, shell'.astray = shell.astray,
         shell'.phase # "stopped" => shell.phase # "stopped" /\ (discovery # None => discovery' # None),
         PhaseKnown'
  PROVE  OwnershipInv'
<1>1. OwnershipTyped /\ ProcessesKnown /\ ParentsKnown /\ RootKnown /\ RuntimeKnown
  BY DEF OwnershipInv
<1>2. ProcessesKnown' /\ ParentsKnown' /\ RootKnown' /\ \A identity : Captured(identity) => Captured(identity)'
  BY <1>1, FewerKnown, FewerChild
<1>3. OwnershipTyped'
  BY <1>1 DEF OwnershipTyped, Ownership!TypeOK, Fewer, ChildStays
<1>4. shell.runtime # None => Captured(shell.runtime)'
  BY <1>1, <1>2 DEF RuntimeKnown, Captured
<1>5. RuntimeKnown'
  BY <1>1, <1>4 DEF RuntimeKnown, ChildStays
<1> QED
  BY <1>2, <1>3, <1>5 DEF OwnershipInv

LEMMA OwnershipMoves ==
  ASSUME Ownership!OwnershipAssumption, OwnershipInv,
         \/ \E p \in Pids : Ownership!Publish(p)
         \/ Ownership!Ready \/ Ownership!Close \/ Ownership!Compare \/ Ownership!WaitUntilGone
         \/ Ownership!RemoveManifest \/ UNCHANGED Ownership!vars
  PROVE  OwnershipInv'
<1>1. /\ OwnershipTyped /\ RuntimeKnown /\ PhaseKnown /\ wronged = FALSE
      /\ discovery \in Ownership!Discovery \cup {None}
  BY DEF OwnershipInv, OwnershipTyped, Ownership!TypeOK
<1>2. /\ shell \in Ownership!Shell /\ process \in [Pids -> Ownership!Process \cup {None}]
      /\ None \notin Ownership!Process /\ None \notin Ownership!Discovery
  BY <1>1, ShellTypes
<1>3. ASSUME UNCHANGED <<process, born, starts>>, shell'.root = shell.root, shell'.launch = shell.launch,
             shell'.held = shell.held
      PROVE  Fewer /\ ChildStays
  BY <1>2, <1>3 DEF Fewer, ChildStays
<1>4. ASSUME NEW p \in Pids, Ownership!Publish(p) PROVE OwnershipInv'
  <2>1. /\ Alive(p) /\ process[p].instance # None /\ discovery' = [instance |-> process[p].instance, pid |-> p]
        /\ UNCHANGED <<process, born, shell, starts, wronged>>
    BY <1>4 DEF Ownership!Publish, Alive
  <2>2. process[p].instance \in Ownership!Instances
    BY <1>1, <2>1, ProcessTypes DEF Ownership!Process
  <2>3. discovery' \in Ownership!Discovery
    BY <2>1, <2>2 DEF Ownership!Discovery
  <2>4. PhaseKnown'
    BY <1>1, <1>2, <2>1, <2>3 DEF PhaseKnown, RuntimeLives
  <2> QED
    BY <1>1, <1>2, <1>3, <2>1, <2>3, <2>4, OwnershipStays
<1>5. CASE Ownership!Ready
  <2>1. /\ shell.phase = "wait" /\ shell' = [shell EXCEPT !.phase = "running"]
        /\ UNCHANGED <<process, born, discovery, starts, wronged>>
    BY <1>5 DEF Ownership!Ready, Ownership!To
  <2>2. /\ shell' \in Ownership!Shell /\ shell'.phase = "running"
        /\ shell'.root = shell.root /\ shell'.runtime = shell.runtime /\ shell'.launch = shell.launch
        /\ shell'.held = shell.held /\ shell'.astray = shell.astray
    BY <1>2, <2>1 DEF Ownership!Shell, Ownership!Phase
  <2>3. PhaseKnown'
    BY <1>1, <2>1, <2>2 DEF PhaseKnown
  <2> QED
    BY <1>1, <1>3, <2>1, <2>2, <2>3, OwnershipStays
<1>6. CASE Ownership!Close
  <2>1. /\ shell.phase \in {"wait", "running"} /\ shell' = [shell EXCEPT !.phase = "kill"]
        /\ UNCHANGED <<process, born, discovery, starts, wronged>>
    BY <1>6 DEF Ownership!Close, Ownership!To
  <2>2. /\ shell' \in Ownership!Shell /\ shell'.phase = "kill"
        /\ shell'.root = shell.root /\ shell'.runtime = shell.runtime /\ shell'.launch = shell.launch
        /\ shell'.held = shell.held /\ shell'.astray = shell.astray
    BY <1>2, <2>1 DEF Ownership!Shell, Ownership!Phase
  <2>3. PhaseKnown'
    BY <1>1, <2>1, <2>2 DEF PhaseKnown
  <2> QED
    BY <1>1, <1>3, <2>1, <2>2, <2>3, OwnershipStays
<1>7. CASE Ownership!Compare
  <2> DEFINE next == IF Ownership!Runs(shell.runtime) THEN "end" ELSE "gone"
             found == process[shell.runtime.pid]
  <2>1. /\ shell.phase = "compare" /\ shell' = [shell EXCEPT !.phase = next, !.seen = found]
        /\ UNCHANGED <<process, born, discovery, starts, wronged>>
    BY <1>7 DEF Ownership!Compare
  <2>2. shell.runtime # None
    BY <1>1, <2>1 DEF PhaseKnown
  <2>3. shell.runtime.pid \in Pids /\ found \in Ownership!Process \cup {None} /\ next \in Ownership!Phase
    BY <1>1, <1>2, <2>2, ProcessTypes DEF Ownership!Phase
  <2>4. next = "end" => found = shell.runtime
    BY <1>1, <2>2, <2>3 DEF Ownership!Runs, Ownership!same_process_identity, RuntimeKnown, Captured, Alive
  <2>5. RuntimeLives => next = "end"
    BY <1>1, <1>2, <2>2, ProcessTypes
    DEF RuntimeLives, Ownership!Runs, Ownership!same_process_identity
  <2>6. next \in {"end", "gone"}
    OBVIOUS
  <2> HIDE DEF next, found
  <2>7. /\ shell' \in Ownership!Shell /\ shell'.phase = next /\ shell'.seen = found
        /\ shell'.root = shell.root /\ shell'.runtime = shell.runtime /\ shell'.launch = shell.launch
        /\ shell'.held = shell.held /\ shell'.astray = shell.astray
    BY <1>2, <2>1, <2>3 DEF Ownership!Shell
  <2>8. RuntimeLives' = RuntimeLives
    BY <2>1, <2>7 DEF RuntimeLives
  <2>9. PhaseKnown'
    BY <2>2, <2>4, <2>5, <2>6, <2>7, <2>8 DEF PhaseKnown
  <2> QED
    BY <1>1, <1>3, <2>1, <2>6, <2>7, <2>9, OwnershipStays
<1>8. CASE Ownership!WaitUntilGone
  <2> DEFINE gone == process[shell.runtime.pid] = None
  <2>1. /\ shell.phase = "gone" /\ shell' = [shell EXCEPT !.phase = "cleanup", !.allowed = gone]
        /\ UNCHANGED <<process, born, discovery, starts, wronged>>
    BY <1>8 DEF Ownership!WaitUntilGone
  <2>2. shell.runtime # None
    BY <1>1, <2>1 DEF PhaseKnown
  <2>3. gone \in BOOLEAN /\ (RuntimeLives => ~ gone)
    BY <2>2 DEF RuntimeLives
  <2> HIDE DEF gone
  <2>4. /\ shell' \in Ownership!Shell /\ shell'.phase = "cleanup" /\ shell'.allowed = gone
        /\ shell'.root = shell.root /\ shell'.runtime = shell.runtime /\ shell'.launch = shell.launch
        /\ shell'.held = shell.held /\ shell'.astray = shell.astray /\ shell'.refused = shell.refused
    BY <1>2, <2>1, <2>3 DEF Ownership!Shell, Ownership!Phase
  <2>5. RuntimeLives' => RuntimeLives
    BY <2>1, <2>4 DEF RuntimeLives
  <2>6. PhaseKnown'
    BY <1>1, <2>1, <2>3, <2>4, <2>5 DEF PhaseKnown
  <2> QED
    BY <1>1, <1>3, <2>1, <2>4, <2>6, OwnershipStays
<1>9. CASE Ownership!RemoveManifest
  <2>1. /\ shell.phase = "cleanup" /\ shell' = [shell EXCEPT !.phase = "stopped"]
        /\ discovery' = IF discovery # None /\ discovery.instance = starts /\ shell.allowed THEN None ELSE discovery
        /\ UNCHANGED <<process, born, starts, wronged>>
    BY <1>9 DEF Ownership!RemoveManifest, Ownership!To
  <2>2. /\ shell' \in Ownership!Shell /\ shell'.phase = "stopped"
        /\ shell'.root = shell.root /\ shell'.runtime = shell.runtime /\ shell'.launch = shell.launch
        /\ shell'.held = shell.held /\ shell'.astray = shell.astray /\ shell'.refused = shell.refused
    BY <1>2, <2>1 DEF Ownership!Shell, Ownership!Phase
  <2>3. RuntimeLives' => RuntimeLives
    BY <2>1, <2>2 DEF RuntimeLives
  <2>4. RuntimeLives => shell.refused /\ discovery' = discovery /\ discovery # None
    BY <1>1, <2>1 DEF PhaseKnown, RuntimeKnown, RuntimeLives
  <2>5. PhaseKnown'
    BY <2>2, <2>3, <2>4 DEF PhaseKnown
  <2> QED
    BY <1>1, <1>3, <2>1, <2>2, <2>5, OwnershipStays
<1>10. CASE UNCHANGED Ownership!vars
  <2>1. UNCHANGED <<process, born, discovery, shell, starts, wronged>>
    BY <1>10 DEF Ownership!vars
  <2>2. PhaseKnown'
    BY <1>1, <2>1 DEF PhaseKnown, RuntimeLives
  <2> QED
    BY <1>1, <1>2, <1>3, <2>1, <2>2, OwnershipStays
<1> QED
  BY <1>4, <1>5, <1>6, <1>7, <1>8, <1>9, <1>10

LEMMA OwnershipAnew ==
  ASSUME Ownership!OwnershipAssumption, OwnershipInv, Ownership!Acquire \/ Ownership!ShellCrash
  PROVE  OwnershipInv'
<1>1. /\ OwnershipTyped /\ ProcessesKnown /\ ParentsKnown /\ wronged = FALSE /\ starts \in 0..MaxStarts
      /\ MaxStarts \in Nat
  BY DEF OwnershipInv, OwnershipTyped, Ownership!TypeOK, Ownership!OwnershipAssumption
<1>2. UNCHANGED <<process, born, discovery, wronged>>
  BY DEF Ownership!Acquire, Ownership!ShellCrash
<1>3. PICK next \in {"locked", "down"} :
        /\ shell' \in Ownership!Shell /\ shell'.phase = next /\ shell'.root = None /\ shell'.runtime = None
        /\ starts' \in 0..MaxStarts /\ (next = "locked" => starts' \in Ownership!Instances)
  <2>1. CASE Ownership!Acquire
    <3>1. shell' = [Ownership!Down EXCEPT !.phase = "locked"] /\ starts' = starts + 1 /\ starts < MaxStarts
      BY <2>1 DEF Ownership!Acquire
    <3>2. "locked" \in Ownership!Phase
      BY DEF Ownership!Phase
    <3>3. shell' \in Ownership!Shell /\ shell'.phase = "locked" /\ shell'.root = None /\ shell'.runtime = None
      BY ONLY <3>1, <3>2, DownTyped, Ownership!OwnershipAssumption
    <3>4. starts' \in 0..MaxStarts /\ starts' \in Ownership!Instances
      BY <1>1, <3>1 DEF Ownership!Instances
    <3> QED
      BY <3>3, <3>4
  <2>2. CASE Ownership!ShellCrash
    <3>1. shell' = Ownership!Down /\ starts' = starts
      BY <2>2 DEF Ownership!ShellCrash
    <3>2. 0 \in 0..MaxBorn
      BY DEF Ownership!OwnershipAssumption
    <3>3. /\ Ownership!Down \in Ownership!Shell /\ Ownership!Down.phase = "down"
          /\ Ownership!Down.root = None /\ Ownership!Down.runtime = None
      BY <3>2 DEF Ownership!Down, Ownership!Shell, Ownership!Phase
    <3> QED
      BY <1>1, <3>1, <3>3
  <2> QED
    BY <2>1, <2>2
<1>4. ProcessesKnown' /\ ParentsKnown'
  <2>1. Fewer
    BY <1>1, <1>2, ShellTypes DEF Fewer
  <2> QED
    BY <1>1, <2>1, FewerKnown
<1>5. RootKnown' /\ RuntimeKnown' /\ PhaseKnown'
  BY <1>3 DEF RootKnown, RuntimeKnown, PhaseKnown, RuntimeLives
<1>6. OwnershipTyped'
  BY <1>1, <1>2, <1>3 DEF OwnershipTyped, Ownership!TypeOK
<1> QED
  BY <1>1, <1>2, <1>4, <1>5, <1>6 DEF OwnershipInv

\* The process that ends is the child, by its handle, or the one that was compared.
LEMMA OwnershipKills ==
  ASSUME Ownership!OwnershipAssumption, OwnershipInv,
         (\E p \in Pids : Ownership!Exit(p)) \/ Ownership!KillChild \/ Ownership!Terminate
  PROVE  OwnershipInv'
<1>1. /\ OwnershipTyped /\ RootKnown /\ RuntimeKnown /\ PhaseKnown /\ wronged = FALSE
      /\ discovery \in Ownership!Discovery \cup {None}
  BY DEF OwnershipInv, OwnershipTyped, Ownership!TypeOK
<1>2. /\ shell \in Ownership!Shell /\ process \in [Pids -> Ownership!Process \cup {None}]
      /\ None \notin Ownership!Process
  BY <1>1, ShellTypes
<1>3. ASSUME NEW p \in Pids, process' = [process EXCEPT ![p] = None] \/ process' = process, born' = born
      PROVE  Fewer
  BY <1>2, <1>3 DEF Fewer
<1>4. Fewer /\ shell'.runtime = shell.runtime => (RuntimeLives' => RuntimeLives)
  <2> SUFFICES ASSUME Fewer, shell'.runtime = shell.runtime, RuntimeLives' PROVE RuntimeLives
    OBVIOUS
  <2>1. shell.runtime # None /\ process'[shell.runtime.pid] = shell.runtime
    BY DEF RuntimeLives
  <2>2. shell.runtime.pid \in Pids
    BY <1>1, <2>1, ProcessTypes
  <2> QED
    BY <2>1, <2>2 DEF Fewer, RuntimeLives
<1>5. ASSUME NEW p \in Pids, Ownership!Exit(p) PROVE OwnershipInv'
  <2>1. process' = [process EXCEPT ![p] = None] /\ UNCHANGED <<born, discovery, shell, starts, wronged>>
    BY <1>5 DEF Ownership!Exit
  <2>2. Fewer /\ ChildStays
    BY <1>3, <2>1 DEF ChildStays
  <2>3. PhaseKnown'
    BY <1>1, <1>4, <2>1, <2>2 DEF PhaseKnown
  <2> QED
    BY <1>1, <1>2, <2>1, <2>2, <2>3, OwnershipStays
<1>6. CASE Ownership!KillChild
  <2> DEFINE next == IF shell.runtime = None THEN "cleanup" ELSE "compare"
  <2>1. /\ shell.phase = "kill" /\ process' = [process EXCEPT ![shell.root.pid] = None]
        /\ shell' = [shell EXCEPT !.held = FALSE, !.phase = next]
        /\ UNCHANGED <<born, discovery, starts, wronged>>
    BY <1>6 DEF Ownership!KillChild
  <2>2. shell.root.pid \in Pids
    BY <1>1, <2>1, ProcessTypes DEF PhaseKnown
  <2>3. /\ next \in Ownership!Phase /\ next \in {"cleanup", "compare"}
        /\ next = "cleanup" => shell.runtime = None
        /\ next = "compare" => shell.runtime # None
    BY DEF Ownership!Phase
  <2> HIDE DEF next
  <2>4. /\ shell' \in Ownership!Shell /\ shell'.phase = next /\ ~ shell'.held
        /\ shell'.root = shell.root /\ shell'.runtime = shell.runtime /\ shell'.launch = shell.launch
        /\ shell'.astray = shell.astray
    BY <1>2, <2>1, <2>3 DEF Ownership!Shell
  <2>5. Fewer /\ ChildStays
    BY <1>3, <2>1, <2>2, <2>4 DEF ChildStays
  <2>6. PhaseKnown'
    BY <2>3, <2>4 DEF PhaseKnown, RuntimeLives
  <2> QED
    BY <1>1, <2>1, <2>3, <2>4, <2>5, <2>6, OwnershipStays
<1>7. CASE Ownership!Terminate
  <2>1. shell.phase = "end" /\ UNCHANGED <<born, discovery, starts>>
    BY <1>7 DEF Ownership!Terminate
  <2>2. shell.runtime # None /\ shell.seen = shell.runtime
    BY <1>1, <2>1 DEF PhaseKnown
  <2> DEFINE p == shell.runtime.pid
             strange == /\ process[p] # None /\ process[p].instance # starts
                        /\ process[p] = shell.seen /\ ~ shell.astray
  <2>3. p \in Pids /\ ~ strange
    BY <1>1, <2>2, ProcessTypes DEF RuntimeKnown
  <2>4. \/ /\ process' = [process EXCEPT ![p] = None] /\ shell' = [shell EXCEPT !.phase = "gone"]
           /\ wronged' = (wronged \/ strange)
        \/ /\ shell' = [shell EXCEPT !.phase = "gone", !.refused = TRUE] /\ UNCHANGED <<process, wronged>>
    BY <1>7 DEF Ownership!Terminate, Ownership!To
  <2>5. process' = [process EXCEPT ![p] = None] => ~ RuntimeLives' \/ shell'.runtime # shell.runtime
    BY <1>2, <2>2, <2>3 DEF RuntimeLives
  <2>6. (process' = [process EXCEPT ![p] = None] \/ process' = process) /\ wronged' = FALSE
    BY <1>1, <2>3, <2>4
  <2> HIDE DEF p, strange
  <2>7. /\ shell' \in Ownership!Shell /\ shell'.phase = "gone" /\ shell'.held = shell.held
        /\ shell'.root = shell.root /\ shell'.runtime = shell.runtime /\ shell'.launch = shell.launch
        /\ shell'.astray = shell.astray
    BY <1>2, <2>4, ZenonT(60) DEF Ownership!Shell, Ownership!Phase
  <2>8. RuntimeLives' => shell'.refused
    BY <1>2, <2>4, <2>5, <2>7 DEF Ownership!Shell
  <2>9. Fewer /\ ChildStays
    BY <1>3, <2>1, <2>3, <2>6, <2>7 DEF ChildStays
  <2>10. PhaseKnown'
    BY <2>2, <2>7, <2>8 DEF PhaseKnown
  <2> QED
    BY <1>1, <2>1, <2>6, <2>7, <2>9, <2>10, OwnershipStays
<1> QED
  BY <1>5, <1>6, <1>7

LEMMA OwnershipInit ==
  ASSUME Ownership!OwnershipAssumption, Ownership!Init
  PROVE  OwnershipInv
<1>1. /\ process = [p \in Pids |-> None] /\ born = 0 /\ discovery = None
      /\ shell = Ownership!Down /\ starts = 0 /\ wronged = FALSE
  BY DEF Ownership!Init
<1>2. 0 \in 0..MaxBorn /\ 0 \in 0..MaxStarts
  BY DEF Ownership!OwnershipAssumption
<1>3. /\ Ownership!Down \in Ownership!Shell /\ Ownership!Down.phase = "down"
      /\ Ownership!Down.root = None /\ Ownership!Down.runtime = None
  BY <1>2 DEF Ownership!Down, Ownership!Shell, Ownership!Phase
<1>4. OwnershipTyped
  BY <1>1, <1>2, <1>3 DEF OwnershipTyped, Ownership!TypeOK
<1>5. RootKnown /\ RuntimeKnown /\ PhaseKnown
  BY <1>1, <1>3 DEF RootKnown, RuntimeKnown, PhaseKnown, RuntimeLives
<1>6. ProcessesKnown /\ ParentsKnown
  BY <1>1 DEF ProcessesKnown, ParentsKnown, Alive
<1> QED
  BY <1>1, <1>4, <1>5, <1>6 DEF OwnershipInv

LEMMA OwnershipKeeps ==
  ASSUME Ownership!OwnershipAssumption, OwnershipInv, [Ownership!Next]_(Ownership!vars)
  PROVE  OwnershipInv'
BY OwnershipBegins, OwnershipSpawns, OwnershipTrusts, OwnershipMoves, OwnershipAnew, OwnershipKills
DEF Ownership!Next

\* StopIsExact, for any ids, images and depth of ancestry and any number of starts: a stop
\* ends the API of its own start and nothing else, unless an id was passed on where no
\* creation time is compared, and the manifest is only taken from a process that has gone.
THEOREM StopsStayExact == LocalSpec => []StopIsExact
<1>1. Ownership!OwnershipAssumption
  BY ServiceConstants
<1>2. OwnershipInv => StopIsExact
  BY DEF OwnershipInv, OwnershipTyped, RuntimeKnown, PhaseKnown, RuntimeLives, StopIsExact, Ownership!StopIsExact
<1> QED
  BY <1>1, <1>2, OwnershipInit, OwnershipKeeps, EachServiceRuns, PTL DEF Ownership!Spec
=============================================================================
