------------------------------ MODULE Receipts ------------------------------
(***************************************************************************)
(* packages/receipts/src: canonical JSON (RFC 8785), the digest of a       *)
(* receipt, and the programs that recompute it.  A JSON value is a record  *)
(* of its type, what it consists of, and its canonical text, which is made *)
(* of the texts of its parts; an object keeps its members in the order     *)
(* they were written.  Neither the texts of two values nor the keccak256   *)
(* of two texts are confused.                                              *)
(***************************************************************************)
EXTENDS Integers, SequencesExt

\* A CanonicalizationError, which a part of a value passes on to the whole.
Throws == <<"throws">>

Scalar(type, value) == [type |-> type, text |-> <<type, value>>]
Str(s) == Scalar("string", <<s>>)
Hex(digest) == Scalar("string", digest)
Num(n) == Scalar("number", n)
Bool(b) == Scalar("boolean", b)
Null == Scalar("null", "null")
Undefined == [type |-> "undefined", text |-> Throws]
\* A number too large for one: JSON.parse reads it, canonicalize refuses it.
Infinite == [type |-> "number", text |-> Throws]

Arr(items) ==
    [type |-> "array", items |-> items,
     text |-> IF \E i \in DOMAIN items : items[i].text = Throws THEN Throws
              ELSE <<"array", [i \in DOMAIN items |-> items[i].text]>>]

\* Slip: the members are written as they come.
SortedAsWritten(members) == [i \in DOMAIN members |-> <<members[i][1], members[i][2].text>>]

\* The members as canonicalize writes them, in the order of their keys: in one
\* order, whichever they are in, so a set.
Sorted(members) == {<<members[i][1], members[i][2].text>> : i \in DOMAIN members}

Obj(members) ==
    [type |-> "object", members |-> members,
     text |-> IF \E i \in DOMAIN members : members[i][2].text = Throws THEN Throws
              ELSE <<"object", Sorted(members)>>]

HashJson(v) == IF v.text = Throws THEN Throws ELSE <<"keccak", v.text>>
-----------------------------------------------------------------------------
(* Members                                                                 *)

Keys(v) == {v.members[i][1] : i \in DOMAIN v.members}
Place(members, key) == CHOOSE i \in DOMAIN members : members[i][1] = key

\* record[key]; on anything but an object it is undefined, or throws.
Get(v, key) ==
    IF v.type # "object" \/ key \notin Keys(v) THEN Undefined
    ELSE v.members[Place(v.members, key)][2]

\* { ...v, [key]: value }
With(v, key, value) ==
    IF key \in Keys(v)
      THEN Obj([v.members EXCEPT ![Place(v.members, key)] = <<key, value>>])
      ELSE Obj(Append(v.members, <<key, value>>))

Without(v, key) == Obj(RemoveAt(v.members, Place(v.members, key)))
-----------------------------------------------------------------------------
(* receiptDigest                                                           *)

Pick(v, keys) == Obj([i \in DOMAIN keys |-> <<keys[i], Get(v, keys[i])>>])

\* Falsy: a missing record reads as null.
Absent(v) ==
    \/ v.type \in {"null", "undefined"}
    \/ v.text \in {Bool(FALSE).text, Num(0).text, Str("").text}

SimulationPayload(v) ==
    IF Absent(v) THEN Null
    ELSE IF Get(v, "invariantIndex") = Undefined THEN Pick(v, <<"wouldRevert", "gasEstimate">>)
    ELSE Pick(v, <<"wouldRevert", "gasEstimate", "invariantIndex">>)

ExecutionPayload(v) ==
    IF Absent(v) THEN Null ELSE Pick(v, <<"txHash", "gasUsed", "block">>)

\* Slip: the reasons are committed to by their codes only.
ReasonsPayloadOfCodes(v) ==
    IF v.type # "array" THEN Undefined
    ELSE Arr([i \in DOMAIN v.items |-> Pick(v.items[i], <<"code">>)])

\* reasons.map on anything but an array throws, which undefined stands for.
ReasonsPayload(v) ==
    IF v.type # "array" THEN Undefined
    ELSE Arr([i \in DOMAIN v.items |-> Pick(v.items[i], <<"code", "severity", "message">>)])

DigestPayload(r) ==
    Obj(<<<<"intentId", Get(r, "intentId")>>, <<"intentHash", Get(r, "intentHash")>>,
          <<"policyHash", Get(r, "policyHash")>>, <<"guard", Get(r, "guard")>>,
          <<"chainId", Get(r, "chainId")>>, <<"verdict", Get(r, "verdict")>>,
          <<"reasons", ReasonsPayload(Get(r, "reasons"))>>,
          <<"simulation", SimulationPayload(Get(r, "simulation"))>>,
          <<"execution", ExecutionPayload(Get(r, "execution"))>>, <<"at", Get(r, "at")>>>>)

ReceiptDigest(r) == HashJson(DigestPayload(r))
-----------------------------------------------------------------------------
(* hashIntent, the same in the gateway and in the dashboard: the digest of *)
(* a receipt that stands for the calls, and not for the invariants that    *)
(* are executed with them.  An intent is a record, in which value and data *)
(* of a call are sequences of characters.                                  *)

\* `${call.value}:${call.data}`
Message(call) == call.value \o <<":">> \o call.data

\* Slip: the calls are told apart by their targets only.
HashIntentByTargets(i) ==
    ReceiptDigest(Obj(<<
        <<"intentId", Str(i.id)>>, <<"intentHash", Str("0x")>>, <<"policyHash", Str("0x")>>,
        <<"guard", Str("0x")>>, <<"chainId", Num(i.chainId)>>, <<"verdict", Str("ALLOW")>>,
        <<"reasons", Arr([k \in DOMAIN i.calls |->
            Obj(<<<<"code", Str(i.calls[k].target)>>, <<"severity", Str("deny")>>,
                  <<"message", Str("")>>>>)])>>,
        <<"simulation", Null>>, <<"execution", Null>>, <<"at", Str(i.submittedAt)>>>>))

HashIntent(i) ==
    ReceiptDigest(Obj(<<
        <<"intentId", Str(i.id)>>, <<"intentHash", Str("0x")>>, <<"policyHash", Str("0x")>>,
        <<"guard", Str("0x")>>, <<"chainId", Num(i.chainId)>>, <<"verdict", Str("ALLOW")>>,
        <<"reasons", Arr([k \in DOMAIN i.calls |->
            Obj(<<<<"code", Str(i.calls[k].target)>>, <<"severity", Str("deny")>>,
                  <<"message", Hex(Message(i.calls[k]))>>>>)])>>,
        <<"simulation", Null>>, <<"execution", Null>>, <<"at", Str(i.submittedAt)>>>>))
-----------------------------------------------------------------------------
(* The verifiers.                                                          *)

NoDigest == <<>>

\* POST /v1/verify of the gateway: no claim, no verdict.
GatewayVerify(r, claimed) ==
    LET computed == ReceiptDigest(r) IN
    IF r.type = "undefined" \/ computed = Throws
      THEN [status |-> 400, digest |-> NoDigest, matches |-> "none"]
      ELSE [status |-> 200, digest |-> computed,
            matches |-> IF claimed = NoDigest THEN "none"
                        ELSE IF computed = claimed THEN "yes" ELSE "no"]

\* POST /v1/verify of the dashboard: the digest only.
DashboardVerify(r) ==
    LET computed == ReceiptDigest(r) IN
    IF r.type # "object" \/ computed = Throws THEN [status |-> 400, digest |-> NoDigest]
    ELSE [status |-> 200, digest |-> computed]

\* The verifier pages hash the document that is pasted, whatever it holds.
PageDigest(document) == HashJson(document)
=============================================================================
