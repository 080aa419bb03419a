------------------------------ MODULE Evidence ------------------------------
(***************************************************************************)
(* The life of one receipt as evidence: decided and digested by the        *)
(* gateway, put into a store, perhaps marked with an anchor, handed out    *)
(* as a document that others rewrite, and judged by the verifiers.         *)
(***************************************************************************)
EXTENDS Receipts, FiniteSets

CONSTANTS
    Submitted,    \* intents a caller may submit
    Decisions,    \* verdict, reasons and simulation a policy may give
    Values,       \* Values[key]: other values an editor may write there
    MaxEdits      \* bound: rewritings of a handed-out document

Committed == {"intentId", "intentHash", "policyHash", "guard", "chainId", "verdict",
              "reasons", "simulation", "execution", "at"}
Records == {"reasons", "simulation", "execution"}
SimulationFields == {"wouldRevert", "gasEstimate", "invariantIndex"}
ExecutionFields == {"txHash", "gasUsed", "block"}
ReasonFields == {"code", "severity", "message"}

\* No key twice.
IsObject(v) ==
    /\ v = Obj(v.members) /\ v.members \in Seq(Range(v.members))
    /\ \A i \in DOMAIN v.members : v.members[i] = <<v.members[i][1], v.members[i][2]>>
    /\ \A i, j \in DOMAIN v.members : v.members[i][1] = v.members[j][1] => i = j

Is(v) ==
    /\ v.text # Throws
    /\ v.type = "null" => v = Null
    /\ v.type = "array" => v = Arr(v.items) /\ v.items \in Seq(Range(v.items))
    /\ v.type = "object" => IsObject(v)

\* What JSON.parse or the code makes: in it is nothing canonicalize refuses.
IsJson(v) == Is(v) /\ (v.type = "array" => \A i \in DOMAIN v.items : Is(v.items[i]))

\* A pasted object: in it a number may be too large.
IsMember(v) == v = Infinite \/ IsJson(v)
IsDocument(v) == IsObject(v) /\ \A i \in DOMAIN v.members : IsMember(v.members[i][2])

Has(v, fields) == v.type = "object" /\ Keys(v) \subseteq fields

ASSUME EvidenceConstants ==
    /\ \A i \in Submitted :
         /\ i = [id |-> i.id, chainId |-> i.chainId, calls |-> i.calls, invariants |-> i.invariants,
                 rationale |-> i.rationale, submittedAt |-> i.submittedAt]
         /\ i.calls \in Seq(Range(i.calls))
         /\ \A c \in Range(i.calls) :
              /\ c = [target |-> c.target, value |-> c.value, data |-> c.data]
              /\ c.value \in Seq(Range(c.value)) /\ c.data \in Seq(Range(c.data))
    /\ \A d \in Decisions :
         /\ IsJson(Arr(d.reasons))
         /\ \A r \in Range(d.reasons) : r.type = "object" /\ Keys(r) = ReasonFields
         /\ IsJson(d.simulation)
         /\ \/ d.simulation = Null
            \/ /\ Has(d.simulation, SimulationFields)
               /\ {"wouldRevert", "gasEstimate"} \subseteq Keys(d.simulation)
    /\ \A key \in DOMAIN Values : \A v \in Values[key] : IsMember(v)

\* Nobody checks the texts of a submitted call; but evaluate, which comes before the
\* hash (authorize.ts:67, execute.ts:215), adds up the values, and BigInt throws on
\* one with a colon (rules.ts:10-12), and then there is no receipt.
ASSUME ValuesAreSummed ==
    \A i \in Submitted : \A c \in Range(i.calls) : ":" \notin Range(c.value)

VARIABLES
    intent,     \* the intent decided
    decided,    \* the receipt authorize returned
    digest,     \* the digest returned and stored with it
    stored,     \* the store's document
    copy,       \* the document someone holds, typed into both pages
    edits,      \* how often it was rewritten
    page,       \* the dashboard's verifier: its state and the digest it shows
    app         \* the verifier of its own: what it says of the claimed digest

evidenceVars == <<intent, decided, digest, stored, copy, edits, page, app>>

Idle == [state |-> "idle", digest |-> NoDigest]
-----------------------------------------------------------------------------
EvidenceInit ==
    /\ intent \in Submitted
    /\ decided = Undefined /\ digest = NoDigest /\ stored = Undefined
    /\ copy = Undefined /\ edits = 0 /\ page = Idle /\ app = "nothing"

\* finish: the receipt of a decision and its digest.
Finish(d) ==
    /\ decided.type = "undefined"
    /\ decided' = Obj(<<
        <<"intentId", Str(intent.id)>>, <<"intentHash", Hex(HashIntent(intent))>>,
        <<"policyHash", Str("policy")>>, <<"guard", Str("guard")>>,
        <<"chainId", Num(intent.chainId)>>, <<"verdict", Str(d.verdict)>>,
        <<"reasons", Arr(d.reasons)>>, <<"simulation", d.simulation>>,
        <<"execution", Null>>, <<"at", Str("now")>>>>)
    /\ digest' = ReceiptDigest(decided')
    /\ UNCHANGED <<intent, stored, copy, edits, page, app>>

\* store.put({ ...receipt, digest }); jsonb gives the members back in an order
\* of its own.
Put ==
    /\ decided.type = "object" /\ stored.type = "undefined"
    /\ LET document == With(decided, "digest", Hex(digest)) IN
       \E written \in {document.members, Reverse(document.members)} : stored' = Obj(written)
    /\ UNCHANGED <<intent, decided, digest, copy, edits, page, app>>

\* The anchoring script puts the receipt back with its anchor.
Mark ==
    /\ stored.type = "object" /\ "anchor" \notin Keys(stored)
    /\ stored' = With(stored, "anchor", Obj(<<<<"leafIndex", Num(0)>>, <<"root", Str("root")>>>>))
    /\ UNCHANGED <<intent, decided, digest, copy, edits, page, app>>

\* Slip: typing leaves the digest of the earlier text in place.
TypedOver(shown) == shown

\* Typing into the dashboard's page puts it back to idle; the other page keeps
\* what it said of the earlier text.
Typed(shown) == Idle

\* The receipt leaves as it was answered, or as it was stored.
HandOut ==
    /\ edits = 0
    /\ \E document \in {decided, stored} :
         /\ document.type = "object"
         /\ document # copy
         /\ copy' = document
    /\ page' = Typed(page)
    /\ UNCHANGED <<intent, decided, digest, stored, edits, app>>

Rewrite(document) ==
    /\ copy.type = "object" /\ edits < MaxEdits
    /\ document # copy
    /\ copy' = document
    /\ edits' = edits + 1
    /\ page' = Typed(page)
    /\ UNCHANGED <<intent, decided, digest, stored, app>>

Items == IF Get(copy, "reasons").type = "array" THEN Get(copy, "reasons").items ELSE <<>>

EditField == \E key \in DOMAIN Values : \E v \in Values[key] : Rewrite(With(copy, key, v))
DropField == copy.type = "object" /\ \E key \in Keys(copy) : Rewrite(Without(copy, key))
Reorder == copy.type = "object" /\ Rewrite(Obj(Reverse(copy.members)))
\* One reason with a member changed or added, left out, or repeated.
EditedItems(i) ==
    {Items \o <<Items[i]>>, RemoveAt(Items, i)}
    \cup (IF Items[i].type = "object"
            THEN {[Items EXCEPT ![i] = With(Items[i], key, Str("other"))] :
                     key \in ReasonFields \cup {"detail"}}
            ELSE {})

EditReasons ==
    /\ copy.type = "object"
    /\ \E i \in DOMAIN Items : \E items \in EditedItems(i) : Rewrite(With(copy, "reasons", Arr(items)))

ComputeOnPage ==
    /\ copy.type = "object" /\ page.state = "idle"
    /\ page' = LET computed == PageDigest(copy) IN
                IF computed = Throws THEN [state |-> "error", digest |-> NoDigest]
                ELSE [state |-> "done", digest |-> computed]
    /\ UNCHANGED <<intent, decided, digest, stored, copy, edits, app>>

\* The other page compares with the digest the reader pastes, if any.
ComputeInApp ==
    /\ copy.type = "object"
    /\ \E claimed \in {NoDigest, digest} :
         app' = LET computed == PageDigest(copy) IN
                IF computed = Throws THEN "error"
                ELSE IF claimed = NoDigest THEN "digest"
                ELSE IF computed = claimed THEN "MATCH" ELSE "MISMATCH"
    /\ app' # app
    /\ UNCHANGED <<intent, decided, digest, stored, copy, edits, page>>

EvidenceNext ==
    \/ \E d \in Decisions : Finish(d)
    \/ Put \/ Mark \/ HandOut
    \/ EditField \/ DropField \/ Reorder \/ EditReasons
    \/ ComputeOnPage \/ ComputeInApp

EvidenceSpec == EvidenceInit /\ [][EvidenceNext]_evidenceVars
-----------------------------------------------------------------------------
(* Properties.  SameEvidence is what a reader would compare by hand.       *)

SameMembers(v, w, keys) == \A key \in keys : Get(v, key).text = Get(w, key).text

SameRecord(v, w, keys) ==
    \/ Absent(v) /\ Absent(w)
    \/ ~Absent(v) /\ ~Absent(w) /\ SameMembers(v, w, keys)

SameReasons(v, w) ==
    /\ v.type = "array" /\ w.type = "array"
    /\ Len(v.items) = Len(w.items)
    /\ \A i \in DOMAIN v.items : SameMembers(v.items[i], w.items[i], ReasonFields)

SameEvidence(v, w) ==
    /\ SameMembers(v, w, Committed \ Records)
    /\ SameReasons(Get(v, "reasons"), Get(w, "reasons"))
    /\ SameRecord(Get(v, "simulation"), Get(w, "simulation"), SimulationFields)
    /\ SameRecord(Get(v, "execution"), Get(w, "execution"), ExecutionFields)

\* A document verifies under the stored digest exactly when it says what was
\* decided: no change of a committed field passes, and no reordering, no
\* anchor, no trip through the store and no added field breaks it.  A simulation
\* or execution that is missing, null or anything else that is falsy says one
\* and the same (receipt.ts:68,77).
DigestIsTheEvidence ==
    copy.type = "object" =>
        (GatewayVerify(copy, digest).matches = "yes") = SameEvidence(copy, decided)

\* The two /v1/verify routes agree on every document.  On one with exactly the
\* members of a decided receipt both pages agree with them: the digest shown is
\* the stored one, and a comparison ends in MATCH, exactly when the text now in
\* the page says what was decided.
Shaped(v) ==
    /\ Keys(v) = Committed
    /\ Get(v, "reasons").type = "array"
    /\ \A r \in Range(Get(v, "reasons").items) : Has(r, ReasonFields)
    /\ Get(v, "simulation").type = "null" \/ Has(Get(v, "simulation"), SimulationFields)
    /\ Get(v, "execution").type = "null" \/ Has(Get(v, "execution"), ExecutionFields)

VerifiersAgree ==
    [][/\ copy'.type = "object" =>
            DashboardVerify(copy').digest = GatewayVerify(copy', NoDigest).digest
       /\ page'.state = "done" /\ Shaped(copy') =>
            (page'.digest = digest) = SameEvidence(copy', decided)
       /\ app' \in {"MATCH", "MISMATCH"} \ {app} /\ Shaped(copy) =>
            (app' = "MATCH") = SameEvidence(copy, decided)]_evidenceVars

\* The receipt of a decision names the calls it decided on: another intent has its
\* hash exactly when id, chain, time and every call are the same, however a value and
\* data are joined, and no digest of a receipt is the hash of an intent.  It does not
\* name the invariants: of two intents that differ in them alone the hash is the same,
\* though they are executed with the calls (authorize.ts:43-59), against "the intent's
\* executable content" (authorize.ts:141).
ReceiptNamesItsCalls ==
    [][decided' # decided =>
        \A i \in Submitted :
            LET hash == HashIntent(i) IN
            /\ (Hex(hash) = Get(decided', "intentHash")) =
                 (/\ i.id = intent.id /\ i.chainId = intent.chainId
                  /\ i.submittedAt = intent.submittedAt /\ i.calls = intent.calls)
            /\ hash # digest']_evidenceVars
=============================================================================
