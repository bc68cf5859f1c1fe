-------------------------- MODULE ExtensionPairing --------------------------
(***************************************************************************)
(* The pairing of the browser extension with the desktop app               *)
(* (security/pairing.py, api/local_pairing.py).                            *)
(*                                                                         *)
(* Every request makes a PairingStore of its own, so neither its lock nor  *)
(* its count of attempts is shared: a request reads the file, writes one   *)
(* temporary file of a fixed name and renames it, while others do the      *)
(* same. The limit of attempts is never reached and left out.              *)
(***************************************************************************)
EXTENDS Integers, FiniteSets

CONSTANTS
  Threads, Extensions,
  Codes,        \* codes and, with them, the credentials they may give
  TTL,          \* PAIRING_CODE_TTL
  MaxClock, MaxStarts,
  None

VARIABLES
  store,     \* the pairing file, or None
  temp,      \* its temporary file, or None
  request,   \* of each thread: what it has read and will write
  instance,  \* of the API, renewed by a start
  clock,
  made,      \* of each code: the instance and time of its session
  issued     \* the credentials handed out

vars == <<store, temp, request, instance, clock, made, issued>>

Session == [code : Codes, expires : 0..(MaxClock + TTL), instance : 1..MaxStarts]
Credential == [extension : Extensions, code : Codes, revoked : BOOLEAN]
File == [instance : 1..MaxStarts, session : Session \cup {None},
         credential : Credential \cup {None}]
Idle == [pc |-> "idle"]

PairingAssumption ==
  /\ TTL \in Nat \ {0} /\ MaxClock \in Nat /\ MaxStarts \in Nat \ {0}
  /\ None \notin Session /\ None \notin Extensions

Init ==
  /\ store = None /\ temp = None /\ instance = 1 /\ clock = 0
  /\ request = [t \in Threads |-> Idle]
  /\ made = [c \in Codes |-> None] /\ issued = {}

\* _read: no file gives an empty state, another instance's session is dropped.
Read ==
  IF store = None THEN [instance |-> instance, session |-> None, credential |-> None]
  ELSE [store EXCEPT !.instance = instance,
                     !.session = IF store.instance = instance THEN @ ELSE None]

Will(t, file, answer) ==
  request' = [request EXCEPT ![t] = [pc |-> "write", file |-> file, answer |-> answer]]
-----------------------------------------------------------------------------
\* create_code: the code and its expiry are made before the file is read.
BeginCreate(t, c) ==
  /\ request[t].pc = "idle" /\ made[c] = None
  /\ LET session == [code |-> c, expires |-> clock + TTL, instance |-> instance]
     IN /\ made' = [made EXCEPT ![c] = session]
        /\ request' = [request EXCEPT ![t] = [pc |-> "create", session |-> session]]
  /\ UNCHANGED <<store, temp, instance, clock, issued>>
CreateCode(t) ==
  /\ request[t].pc = "create" /\ Will(t, [Read EXCEPT !.session = request[t].session], None)
  /\ UNCHANGED <<store, temp, instance, clock, made, issued>>

\* complete: the time is taken before the file is read.
BeginComplete(t) ==
  /\ request[t].pc = "idle"
  /\ request' = [request EXCEPT ![t] = [pc |-> "complete", now |-> clock]]
  /\ UNCHANGED <<store, temp, instance, clock, made, issued>>
\* No session, or the wrong code
RefuseCode(t) ==
  /\ request[t].pc = "complete"
  /\ \/ Read.session = None
     \/ Read.session # None /\ Read.session.expires > request[t].now
  /\ request' = [request EXCEPT ![t] = Idle]
  /\ UNCHANGED <<store, temp, instance, clock, made, issued>>
ExpireCode(t) ==
  /\ request[t].pc = "complete" /\ Read.session # None /\ Read.session.expires <= request[t].now
  /\ Will(t, [Read EXCEPT !.session = None], None)
  /\ UNCHANGED <<store, temp, instance, clock, made, issued>>
\* mutant: the time of expiry is not looked at
IsGoodSessionEver(session, now) == session # None
IsGoodSession(session, now) == session # None /\ session.expires > now
CompleteCode(t, extension) ==
  /\ request[t].pc = "complete" /\ IsGoodSession(Read.session, request[t].now)
  /\ LET credential == [extension |-> extension, code |-> Read.session.code, revoked |-> FALSE]
     IN Will(t, [Read EXCEPT !.session = None, !.credential = credential],
             [extension |-> extension, code |-> Read.session.code, at |-> request[t].now,
              instance |-> instance])
  /\ UNCHANGED <<store, temp, instance, clock, made, issued>>
\* revoke
Revoked(credential) == IF credential = None THEN None ELSE [credential EXCEPT !.revoked = TRUE]
Revoke(t) ==
  /\ request[t].pc = "idle"
  /\ Will(t, [Read EXCEPT !.credential = Revoked(@)], None)
  /\ UNCHANGED <<store, temp, instance, clock, made, issued>>

\* _write: the temporary file has one name for all requests
WriteTemp(t) ==
  /\ request[t].pc = "write" /\ temp' = request[t].file
  /\ request' = [request EXCEPT ![t].pc = "replace"]
  /\ UNCHANGED <<store, instance, clock, made, issued>>
Replace(t) ==
  /\ request[t].pc = "replace" /\ request' = [request EXCEPT ![t] = Idle]
  /\ IF temp = None THEN UNCHANGED <<store, temp, issued>>
     ELSE /\ store' = temp /\ temp' = None
          /\ issued' = IF request[t].answer = None THEN issued
                       ELSE issued \cup {request[t].answer}
  /\ UNCHANGED <<instance, clock, made>>

\* A new start of the app: its requests are gone, the file stays.
Restart ==
  /\ instance < MaxStarts /\ instance' = instance + 1
  /\ request' = [t \in Threads |-> Idle]
  /\ UNCHANGED <<store, temp, clock, made, issued>>
Tick ==
  /\ clock < MaxClock /\ clock' = clock + 1
  /\ UNCHANGED <<store, temp, request, instance, made, issued>>

Next ==
  \/ \E t \in Threads :
       \/ \E c \in Codes : BeginCreate(t, c)
       \/ CreateCode(t) \/ BeginComplete(t) \/ RefuseCode(t) \/ ExpireCode(t)
       \/ \E extension \in Extensions : CompleteCode(t, extension)
       \/ Revoke(t) \/ WriteTemp(t) \/ Replace(t)
  \/ Restart \/ Tick
Spec == Init /\ [][Next]_vars
-----------------------------------------------------------------------------
\* A credential is handed out only for a code that this run of the app made less
\* than PAIRING_CODE_TTL before the request, also when other requests write back
\* an older session or one that was used, or the app was restarted. That a code
\* gives one credential only is CodeUsedOnce, which does not hold.
PairedInTime ==
  \A c \in issued : /\ made[c.code].instance = c.instance
                    /\ c.at < made[c.code].expires
-----------------------------------------------------------------------------
(* What the documents say and the code does not do *)

\* docs/LOCAL_EXTENSION_PAIRING.md: "The code is consumed before a credential is
\* issued, so it cannot be reused."  The code is consumed by the write that comes
\* with the credential, and two requests can have read it before.
CodeUsedOnce == \A c, d \in issued : c.code = d.code => c = d
=============================================================================
