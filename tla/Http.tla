-------------------------------- MODULE Http --------------------------------
(***************************************************************************)
(* What the client makes of one response of KeeperHub (packages/keeperhub, *)
(* http.ts, client.ts and reason.ts): the kind of error, whether to retry, *)
(* whether it is a fault of the transport, and which denial of the guard a *)
(* revert reason spells.                                                   *)
(***************************************************************************)
EXTENDS Integers, Sequences

CONSTANTS
    Digits,       \* numerals
    SafeDigits    \* those of safe integers

ASSUME DigitsAssumption ==
    /\ SafeDigits \subseteq Digits
    /\ Digits \cap {"null", "glued"} = {}

None == "null"
-----------------------------------------------------------------------------
(* Responses.  Status 0 is a fetch that threw; code is the envelope's, or  *)
(* the name of what was thrown.  A revert reason is a text, as it is or    *)
(* wrapped in Error(...): what stands before the prefix NOYEET/1:, the     *)
(* fields behind it, split at the colons, and what comes after them:       *)
(* nothing, blanks ("blank"), a colon and more fields ("more"), or else    *)
(* anything that does not go on with a digit.  Other texts have no fields. *)

Text(wrapped, before, fields, after) ==
    [wrapped |-> wrapped, before |-> before, fields |-> fields, after |-> after]
NoReason == Text(FALSE, "", <<>>, "")

Plain(status, code) ==
    [status |-> status, code |-> code, wouldRevert |-> FALSE, failureKind |-> None, reason |-> NoReason]

Reverts(failureKind, reason) ==
    [Plain(400, None) EXCEPT !.wouldRevert = TRUE, !.failureKind = failureKind, !.reason = reason]

\* toError, and the error of a fetch that threw.
ErrorKind(r) ==
    CASE r.status = 0 -> IF r.code = "TimeoutError" THEN "timeout" ELSE "network"
      [] r.status = 401 -> "unauthorized"
      [] r.status = 403 -> "forbidden"
      [] r.status = 404 -> "not_found"
      [] r.status = 413 -> "payload_too_large"
      [] r.status = 429 -> "rate_limited"
      [] r.status >= 500 -> IF r.code = "upstream_cold_start" THEN "cold_start" ELSE "upstream"
      [] OTHER -> "invalid_request"

\* Slip: a request that is turned away counts as a fault of KeeperHub.
IsAnyFault(kind) == TRUE

IsTransportFault(kind) == kind \in {"network", "timeout", "rate_limited", "cold_start", "upstream"}

\* A predicted revert is a result; a conflict is retried while the first
\* request runs.
IsResult(r) == r.status \in 1 .. 399 \/ (r.status = 400 /\ r.wouldRevert)

IsRetried(r) ==
    \/ r.status = 409 /\ r.code = "idempotency_in_progress"
    \/ r.status = 0 \/ r.status = 429 \/ r.status >= 500
-----------------------------------------------------------------------------
(* reason.ts: the denial a revert reason spells.                           *)

\* Does what comes after the payload stick to its last field?  A text is trimmed,
\* and fields that are not read do no harm; Error(...) is taken off, and what it
\* wraps is trimmed, only where that begins with the prefix.
Sticks(text) ==
    /\ text.after # "more"
    /\ text.after \notin {"", "blank"} \/ (text.wrapped /\ text.before # "")

Glued(fields) == [fields EXCEPT ![Len(fields)] = "glued"]

\* Slip: the wrapper of Error(...) is not taken off.
ExtractEmbedded(text) ==
    IF text.fields # <<>> /\ (Sticks(text) \/ (text.wrapped /\ text.after # "more"))
      THEN Glued(text.fields) ELSE text.fields

ExtractPayload(text) ==
    IF text.fields # <<>> /\ Sticks(text) THEN Glued(text.fields) ELSE text.fields

Field(fields, i) == IF i \in DOMAIN fields THEN fields[i] ELSE None
ToIndex(value) == IF value \in SafeDigits THEN value ELSE None
ToBig(value) == IF value \in Digits THEN value ELSE None

Bare == {"NOT_EXECUTOR", "NOT_ADMIN", "REENTRANT", "CALL_FAILED"}

\* What NoYeetGuard says when it denies, its numbers among these.
GuardDenials(numbers) ==
    {<<"INV", i, got, want>> : i \in numbers, got \in Digits, want \in Digits}
    \cup {<<"PROBE_FAILED", i>> : i \in numbers}
    \cup {<<"PROBE_SHORT", i, length, needed>> : i \in numbers, length \in numbers, needed \in numbers}
    \cup {<<kind>> : kind \in Bare}

\* parseGuardDenial: a kind and its numbers, or null if one of them is none.
\* Null is the empty sequence.
Denial(d) == IF \E n \in DOMAIN d : d[n] = None THEN <<>> ELSE d

ParseGuardDenial(reason) ==
    LET p == ExtractPayload(reason)
        kind == Field(p, 1) IN
    CASE kind = "INV" -> Denial(<<kind, ToIndex(Field(p, 2)), ToBig(Field(p, 3)), ToBig(Field(p, 4))>>)
      [] kind = "PROBE_FAILED" -> Denial(<<kind, ToIndex(Field(p, 2))>>)
      [] kind = "PROBE_SHORT" ->
           Denial(<<kind, ToIndex(Field(p, 2)), ToIndex(Field(p, 3)), ToIndex(Field(p, 4))>>)
      [] kind \in Bare -> <<kind>>
      [] OTHER -> <<>>

\* toSimulation: revertReason, or else error.
ToSimulation(r) ==
    [wouldRevert |-> r.wouldRevert, failureKind |-> r.failureKind,
     denial |-> ParseGuardDenial(r.reason)]

\* The reason authorize gives for a simulation, with its invariantIndex.
Ruling(s) ==
    CASE ~s.wouldRevert -> [verdict |-> "ALLOW", code |-> None, denial |-> <<>>]
      [] s.wouldRevert /\ s.denial # <<>> ->
           [verdict |-> "DENY", code |-> IF s.denial[1] = "INV" THEN "INVARIANT_BROKEN" ELSE "GUARD",
            denial |-> s.denial]
      [] OTHER ->
           [verdict |-> "DENY", denial |-> <<>>,
            code |-> IF s.failureKind = "validation" THEN "PREFLIGHT_REJECTED" ELSE "SIMULATION_REVERTED"]
=============================================================================
