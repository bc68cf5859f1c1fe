---------------------------- MODULE LocalRequest ----------------------------
(***************************************************************************)
(* The boundary of the local API (security/local_request.py): which        *)
(* request is refused, with which error, and the table of used nonces.     *)
(*                                                                         *)
(* A request is what the boundary looks at: its Host, path, Origin and the *)
(* headers of the extension. Times are in units of which the allowed skew  *)
(* of a request's timestamp has Skew and the life of a nonce NonceTTL.     *)
(***************************************************************************)
EXTENDS Integers, FiniteSets, Sequences

CONSTANTS
  Requests,      \* see RequestType
  Skew, NonceTTL, MaxNonces,
  FailureWindow, MaxFailures,
  MaxClock, MaxAccepted,
  None

VARIABLES
  pairedTo,   \* what the pairing file holds: extension and credential, or None
  nonces,     \* the table of used nonces: when each was used, and which turn it had
  failures,   \* of each origin: times of its counted failures
  clock,
  accepted    \* extension requests let through: request and time, in order

vars == <<pairedTo, nonces, failures, clock, accepted>>

\* host: loopback with the port of the running app; origin: the desktop, an
\* extension, or none that is known
RequestType ==
  [host : {"ok", "malformed", "foreign", "wrongPort"}, path : {"probe", "pairing", "api", "other"},
   origin : {"desktop", "x", "y", "none"}, bearer : BOOLEAN, credential : {"k", "l", "none"},
   malformed : {"none", "nonce", "timestamp"}, nonce : Nat, sent : Int]
ExtensionIds == {"x", "y"}
Pairing == [extension : ExtensionIds, credential : {"k", "l"}, revoked : BOOLEAN]

RequestAssumption ==
  /\ Requests \subseteq RequestType
  /\ Skew \in Nat /\ NonceTTL \in Nat /\ 2 * Skew <= NonceTTL
  /\ MaxNonces \in Nat /\ MaxFailures \in Nat
  /\ MaxClock \in Nat /\ MaxAccepted \in Nat

Init ==
  /\ pairedTo = None /\ nonces = {} /\ clock = 0 /\ accepted = <<>>
  /\ failures = [o \in {"desktop", "x", "y", "none"} |-> <<>>]

\* _origin_allowed: a revoked pairing still names its extension.
OriginAllowed(r, bootstrap) ==
  \/ r.origin = "desktop"
  \/ r.origin \in ExtensionIds /\ (bootstrap \/ (pairedTo # None /\ pairedTo.extension = r.origin))

\* PairingStore.verify
Verified(r) ==
  /\ pairedTo # None /\ ~ pairedTo.revoked
  /\ pairedTo.extension = r.origin /\ pairedTo.credential = r.credential

\* _validate_extension_request, up to the use of the nonce and in the order of its returns
ExtensionRefusal(r) ==
  IF pairedTo = None \/ (pairedTo # None /\ pairedTo.extension # r.origin) THEN "paired_extension_required"
  ELSE IF ~ Verified(r) THEN "invalid_extension_credential"
  ELSE IF r.malformed = "nonce" THEN "invalid_request_nonce"
  ELSE IF r.malformed = "timestamp" THEN "invalid_request_timestamp"
  ELSE IF r.sent - clock > Skew \/ clock - r.sent > Skew THEN "stale_request_timestamp"
  ELSE "none"

\* _validate_host; run.py sets the port before it serves, so the port is known here.
HostRefusal(r) ==
  CASE r.host = "malformed" -> "invalid_host"
    [] r.host = "foreign" -> "loopback_host_required"
    [] r.host = "wrongPort" -> "invalid_host_port"
    [] OTHER -> "none"

\* _validate_local_request, in the order of its returns
Refusal(r) ==
  IF HostRefusal(r) # "none" THEN HostRefusal(r)
  ELSE IF r.path = "probe" THEN "none"
  ELSE IF r.path = "api" /\ r.bearer THEN "local_bearer_rejected"
  ELSE IF ~ OriginAllowed(r, r.path = "pairing") THEN "approved_origin_required"
  ELSE IF r.path # "api" THEN "none"
  ELSE IF r.origin \in ExtensionIds THEN ExtensionRefusal(r)
  ELSE IF r.credential # "none" THEN "extension_origin_required"
  ELSE "none"

NeedsNonce(r) == r.path = "api" /\ r.origin \in ExtensionIds

\* mutant: a nonce is forgotten when a request of its age would be stale
PrunedBySkew(table) == {e \in table : e.used + Skew > clock}
\* _prune: what has expired, then the oldest beyond the limit
Live(table) == {e \in table : e.used + NonceTTL > clock}
Younger(table, e) == {f \in table : f.turn > e.turn}
Pruned(table) == {e \in Live(table) : Cardinality(Younger(Live(table), e)) < MaxNonces}
Uses(table, n) == \E e \in table : e.nonce = n

\* allow_failure: beyond the limit the answer is another and nothing is counted
Count(r) ==
  LET recent == SelectSeq(failures[r.origin], LAMBDA at : clock - at < FailureWindow)
  IN failures' = [failures EXCEPT ![r.origin] =
       IF Len(recent) >= MaxFailures THEN recent ELSE Append(recent, clock)]
-----------------------------------------------------------------------------
Pass(r) ==
  /\ Refusal(r) = "none" /\ ~ NeedsNonce(r)
  /\ UNCHANGED vars
PassExtension(r) ==
  /\ Refusal(r) = "none" /\ NeedsNonce(r) /\ ~ Uses(Pruned(nonces), r.nonce)
  /\ Len(accepted) < MaxAccepted
  /\ nonces' = Pruned(nonces) \cup {[nonce |-> r.nonce, used |-> clock, turn |-> Len(accepted) + 1]}
  /\ accepted' = Append(accepted, [request |-> r, at |-> clock])
  /\ UNCHANGED <<pairedTo, failures, clock>>
RefuseReplay(r) ==
  /\ Refusal(r) = "none" /\ NeedsNonce(r) /\ Uses(Pruned(nonces), r.nonce)
  /\ nonces' = Pruned(nonces) /\ Count(r)
  /\ UNCHANGED <<pairedTo, clock, accepted>>
Reject(r) ==
  /\ Refusal(r) # "none" /\ Count(r)
  /\ UNCHANGED <<pairedTo, nonces, clock, accepted>>

\* What requests to /local/pairing do to the file.
ChangePairing ==
  /\ pairedTo' \in Pairing /\ pairedTo' # pairedTo
  /\ pairedTo'.revoked => pairedTo # None /\ pairedTo' = [pairedTo EXCEPT !.revoked = TRUE]
  /\ UNCHANGED <<nonces, failures, clock, accepted>>
Tick ==
  /\ clock < MaxClock /\ clock' = clock + 1
  /\ UNCHANGED <<pairedTo, nonces, failures, accepted>>

Next ==
  \/ \E r \in Requests : Pass(r) \/ PassExtension(r) \/ RefuseReplay(r) \/ Reject(r)
  \/ ChangePairing \/ Tick
Spec == Init /\ [][Next]_vars
-----------------------------------------------------------------------------
\* One request of the extension passes twice in one run of the API only when the
\* two times are the life of a nonce apart (both still within the skew of its
\* timestamp, at exactly twice the skew) or when at least MaxNonces requests
\* passed in between.
ReplayWindow ==
  \A i, j \in DOMAIN accepted : i < j /\ accepted[i].request = accepted[j].request =>
    \/ accepted[j].at - accepted[i].at = NonceTTL /\ NonceTTL = 2 * Skew
    \/ j - i > MaxNonces
=============================================================================
