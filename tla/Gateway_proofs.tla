--------------------------- MODULE Gateway_proofs ---------------------------
(***************************************************************************)
(* Theorems about Gateway, for any requests, intents, keys and policies:   *)
(* what reaches KeeperHub was decided, recorded, and is sent once.  And    *)
(* about Evidence, for any intents, decisions and rewritings: what the     *)
(* digest of a recorded receipt is evidence of.                            *)
(***************************************************************************)
EXTENDS Gateway, Evidence, SequenceTheorems, TLAPS
-----------------------------------------------------------------------------
(* Types                                                                   *)

LEMMA RespondType ==
    ASSUME TypeOK, NEW r \in Requests, NEW says \in Verdicts \cup {"none", "submitted", "held", "error"},
           NEW persisted \in {"unsaid", "yes", "no"}, Respond(r, says, persisted)
    PROVE  /\ pc' \in [Requests -> Busy \cup {"new", "responded", "lost"}]
           /\ response' \in [Requests -> Response]
<1>1. [says |-> says, persisted |-> persisted] \in Response
  BY DEF Response
<1> QED
  BY <1>1 DEF Respond, Goes, TypeOK

LEMMA SimulatedVerdictType == \A answer : SimulatedVerdict(answer) \in Verdicts
BY DEF SimulatedVerdict, Verdicts

LEMMA AuthorizeType ==
    ASSUME TypeOK, NEW r \in Requests, Authorize(r)
    PROVE  TypeOK'
<1>1. Intent[r] \in Intents
  BY DEF Intents
<1>2. PICK v \in Policy[Intent[r]] :
        IF v = "ALLOW" THEN Goes(r, "simulate") /\ UNCHANGED verdict ELSE Decide(r, v)
  BY DEF Authorize
<1>3. v \in Verdicts
  BY <1>1, <1>2, GatewayConstants
<1>4. /\ verdict' \in [Requests -> Verdicts \cup {"none"}]
      /\ pc' \in [Requests -> Busy \cup {"new", "responded", "lost"}]
  BY <1>2, <1>3 DEF Decide, Goes, TypeOK, Busy
<1>5. route' \in [Requests -> Routes \cup {"none"}]
  BY DEF Authorize, TypeOK
<1> QED
  BY <1>4, <1>5 DEF Authorize, TypeOK

LEMMA SimulateType ==
    ASSUME TypeOK, NEW r \in Requests, Simulate(r)
    PROVE  TypeOK'
<1>1. PICK answer \in {"passes", "reverts", "garbled", "fault"} :
        /\ simulation' = [simulation EXCEPT ![r] = answer]
        /\ IF answer = "fault"
             THEN Respond(r, "error", "unsaid") /\ UNCHANGED verdict
             ELSE Decide(r, SimulatedVerdict(answer)) /\ UNCHANGED response
  BY DEF Simulate
<1>2. simulation' \in [Requests -> {"none", "passes", "reverts", "garbled", "fault"}]
  BY <1>1 DEF TypeOK
<1>3. /\ verdict' \in [Requests -> Verdicts \cup {"none"}]
      /\ pc' \in [Requests -> Busy \cup {"new", "responded", "lost"}]
      /\ response' \in [Requests -> Response]
  <2>1. CASE answer = "fault"
    BY <1>1, <2>1, RespondType DEF TypeOK
  <2>2. CASE answer # "fault"
    BY <1>1, <2>2, SimulatedVerdictType DEF TypeOK, Decide, Goes, Busy
  <2> QED
    BY <2>1, <2>2
<1> QED
  BY <1>2, <1>3 DEF Simulate, TypeOK

LEMMA PersistType ==
    ASSUME TypeOK, NEW r \in Requests, Persist(r)
    PROVE  TypeOK'
<1>1. /\ put' \in [Requests -> {"none", "stored", "failed"}]
      /\ store' \in [Intents -> Requests \cup {NoReceipt}]
  BY DEF Persist, TypeOK, Intents
<1>2. pc' \in [Requests -> Busy \cup {"new", "responded", "lost"}]
  BY DEF Persist, Goes, TypeOK, Busy
<1> QED
  BY <1>1, <1>2 DEF Persist, TypeOK

LEMMA SendType ==
    ASSUME TypeOK, NEW c \in Calls, Send(c)
    PROVE  /\ call' \in [Calls -> {"idle", "waiting", "accepted", "thrown", "lost"}]
           /\ wire' \subseteq Calls
BY DEF Send, TypeOK

LEMMA PublishType ==
    ASSUME TypeOK, NEW r \in Requests, Publish(r), verdict[r] # "none"
    PROVE  TypeOK'
<1>1. log' \subseteq Requests
  BY DEF Publish, TypeOK
<1>2. CASE Broadcasts(r) /\ Goes(r, "broadcast") /\ Send(<<"execute", r>>) /\ UNCHANGED <<response, hold>>
  <2>1. <<"execute", r>> \in Calls
    BY DEF Calls
  <2>2. pc' \in [Requests -> Busy \cup {"new", "responded", "lost"}]
    BY <1>2 DEF Goes, TypeOK, Busy
  <2> QED
    BY <1>1, <1>2, <2>1, <2>2, SendType DEF Publish, TypeOK
<1>3. CASE Queues(r) /\ Goes(r, "notify") /\ hold' = [hold EXCEPT ![r] = "held"]
           /\ UNCHANGED <<response, call, wire>>
  <2>1. pc' \in [Requests -> Busy \cup {"new", "responded", "lost"}]
    BY <1>3 DEF Goes, TypeOK, Busy
  <2> QED
    BY <1>1, <1>3, <2>1 DEF Publish, TypeOK
<1>4. CASE Respond(r, verdict[r], Says(r)) /\ UNCHANGED <<hold, call, wire>>
  <2>1. verdict[r] \in Verdicts /\ Says(r) \in {"unsaid", "yes", "no"}
    BY DEF TypeOK, Says
  <2>2. /\ pc' \in [Requests -> Busy \cup {"new", "responded", "lost"}]
        /\ response' \in [Requests -> Response]
    BY <1>4, <2>1, RespondType
  <2> QED
    BY <1>1, <1>4, <2>2 DEF Publish, TypeOK
<1> QED
  BY <1>2, <1>3, <1>4 DEF Publish

LEMMA NotifiedType ==
    ASSUME TypeOK, NEW r \in Requests, Notified(r)
    PROVE  TypeOK'
<1>1. /\ pc' \in [Requests -> Busy \cup {"new", "responded", "lost"}]
      /\ response' \in [Requests -> Response]
  BY RespondType DEF Notified
<1> QED
  BY <1>1 DEF Notified, TypeOK

LEMMA SettleType ==
    ASSUME TypeOK, NEW c \in Calls, NEW outcome \in {"accepted", "thrown"},
           NEW says \in {"submitted", "error"}, Settle(c, outcome, says)
    PROVE  TypeOK'
<1>1. By(c) \in Requests
  BY DEF Calls, By
<1>2. /\ pc' \in [Requests -> Busy \cup {"new", "responded", "lost"}]
      /\ response' \in [Requests -> Response]
  BY <1>1, RespondType DEF Settle, TypeOK
<1> QED
  BY <1>2 DEF Settle, TypeOK

LEMMA ApplyType ==
    ASSUME TypeOK, NEW c \in Calls, Apply(c)
    PROVE  TypeOK'
<1>1. By(c) \in Requests
  BY DEF Calls, By
<1>2. [key |-> KeyOf(c), intent |-> Intent[By(c)], call |-> c] \in Entry
  BY <1>1 DEF Entry, Intents
<1> QED
  BY <1>2 DEF Apply, TypeOK

LEMMA RestartType ==
    ASSUME TypeOK, Restart
    PROVE  TypeOK'
<1>1. pc' \in [Requests -> Busy \cup {"new", "responded", "lost"}]
  BY DEF Restart, TypeOK
<1>2. hold' \in [Requests -> {"none", "held", "released", "cancelled", "forgotten"}]
  BY DEF Restart, TypeOK
<1>3. call' \in [Calls -> {"idle", "waiting", "accepted", "thrown", "lost"}]
  BY DEF Restart, TypeOK
<1>4. store' \in [Intents -> Requests \cup {NoReceipt}]
  BY DEF Restart, TypeOK
<1> QED
  BY <1>1, <1>2, <1>3, <1>4 DEF Restart, TypeOK
-----------------------------------------------------------------------------
(* The order of a handler: decide, record, and only then act               *)

Early == {"new", "simulate", "persist", "publish"}

DecisionInv ==
    \A r \in Requests :
        /\ verdict[r] = "ALLOW" => simulation[r] \in {"passes", "garbled"}
        /\ pc[r] \in {"new", "simulate"} => verdict[r] = "none"
        /\ pc[r] \in {"persist", "publish"} => verdict[r] # "none"
        /\ pc[r] = "publish" => put[r] # "none"

\* Only a held verdict, already recorded, enters the hold ledger.
HoldInv ==
    \A r \in Requests : hold[r] # "none" =>
        pc[r] \notin Early /\ verdict[r] = "HOLD" /\ put[r] # "none"

Sent(c) == c \in wire \/ \E e \in applied : e.call = c

\* A call that was sent has its decision and its record behind it.
SentInv ==
    \A c \in Calls : Sent(c) =>
        /\ pc[By(c)] \notin Early
        /\ put[By(c)] # "none"
        /\ c[1] = "execute" => verdict[By(c)] = "ALLOW"
        /\ c[1] = "release" => verdict[By(c)] = "HOLD" /\ hold[By(c)] \in {"released", "forgotten"}

RecordInv ==
    \A r \in Requests : Durable /\ put[r] = "stored" => store[Intent[r]] # NoReceipt

\* KeeperHub applies a key once, whatever else is sent under it.
KeyInv ==
    /\ \A e \in applied : e.key = KeyOf(e.call) /\ e.intent = Intent[By(e.call)]
    /\ \A d, e \in applied : d.key = e.key => d = e

SafeInv == DecisionInv /\ HoldInv /\ SentInv /\ RecordInv /\ KeyInv

GateInv == TypeOK /\ SafeInv

LEMMA CallParts ==
    ASSUME NEW c \in Calls
    PROVE  By(c) \in Requests /\ c[1] \in {"execute", "release"} /\ c = <<c[1], By(c)>>
BY DEF Calls, By

\* A step of r's handler before it acts, or one that only ends it.
LEMMA HandlerSafe ==
    ASSUME GateInv, NEW r \in Requests, TypeOK',
           \/ Authorize(r) \/ Simulate(r) \/ Persist(r) \/ Notified(r)
    PROVE  SafeInv'
<1> USE DEF GateInv, SafeInv
<1>1. UNCHANGED <<hold, wire, applied>>
  BY DEF Authorize, Simulate, Persist, Notified
<1>2. \A q \in Requests : q # r =>
        pc'[q] = pc[q] /\ verdict'[q] = verdict[q] /\ simulation'[q] = simulation[q]
          /\ put'[q] = put[q]
  BY DEF Authorize, Simulate, Persist, Notified, Decide, Respond, Goes, TypeOK
\* r has sent nothing and holds nothing, or its decision is left alone.
<1>3. \/ pc[r] \in Early
      \/ /\ UNCHANGED <<verdict, simulation, put>>
         /\ pc'[r] = "responded"
  BY DEF Authorize, Simulate, Persist, Notified, Respond, Goes, TypeOK, Early
<1>4. DecisionInv'
  <2>1. CASE Authorize(r)
    <3>1. PICK v \in Policy[Intent[r]] :
            IF v = "ALLOW" THEN Goes(r, "simulate") /\ UNCHANGED verdict ELSE Decide(r, v)
      BY <2>1 DEF Authorize
    <3>2. v \in Verdicts /\ pc[r] = "new" /\ UNCHANGED <<simulation, put>>
      BY <2>1, <3>1, GatewayConstants DEF Authorize, Intents
    <3>3. CASE v = "ALLOW"
      BY <1>2, <3>1, <3>2, <3>3 DEF Goes, TypeOK, DecisionInv
    <3>4. CASE v # "ALLOW"
      BY <1>2, <3>1, <3>2, <3>4 DEF Decide, Goes, TypeOK, DecisionInv, Verdicts
    <3> QED
      BY <3>3, <3>4
  <2>2. CASE Simulate(r)
    BY <1>2, <2>2 DEF Simulate, Decide, Respond, Goes, TypeOK, DecisionInv, SimulatedVerdict
  <2>3. CASE Persist(r)
    BY <1>2, <2>3 DEF Persist, Goes, TypeOK, DecisionInv
  <2>4. CASE Notified(r)
    BY <1>2, <2>4 DEF Notified, Respond, Goes, TypeOK, DecisionInv
  <2> QED
    BY <2>1, <2>2, <2>3, <2>4
<1>5. HoldInv'
  <2> SUFFICES ASSUME NEW q \in Requests, hold'[q] # "none"
               PROVE  pc'[q] \notin Early /\ verdict'[q] = "HOLD" /\ put'[q] # "none"
    BY DEF HoldInv
  <2>1. pc[q] \notin Early /\ verdict[q] = "HOLD" /\ put[q] # "none"
    BY <1>1 DEF HoldInv
  <2> QED
    BY <1>2, <1>3, <2>1 DEF Early
<1>6. SentInv'
  <2> SUFFICES ASSUME NEW c \in Calls, Sent(c)'
               PROVE  /\ pc'[By(c)] \notin Early
                      /\ put'[By(c)] # "none"
                      /\ c[1] = "execute" => verdict'[By(c)] = "ALLOW"
                      /\ c[1] = "release" =>
                           verdict'[By(c)] = "HOLD" /\ hold'[By(c)] \in {"released", "forgotten"}
    BY DEF SentInv, By
  <2>1. Sent(c)
    BY <1>1 DEF Sent
  <2>2. pc[By(c)] \notin Early /\ By(c) \in Requests
    BY <2>1, CallParts DEF SentInv
  <2>3. UNCHANGED <<verdict[By(c)], put[By(c)], hold[By(c)]>> /\ pc'[By(c)] \notin Early
    BY <1>1, <1>2, <1>3, <2>2 DEF Early
  <2> QED
    BY <2>1, <2>3 DEF SentInv
<1>7. RecordInv'
  <2>1. CASE Persist(r)
    BY <2>1, GatewayConstants DEF Persist, TypeOK, RecordInv, Intents
  <2>2. CASE UNCHANGED <<put, store>>
    BY <2>2 DEF RecordInv
  <2> QED
    BY <2>1, <2>2 DEF Authorize, Simulate, Notified
<1>8. KeyInv'
  BY <1>1 DEF KeyInv, KeyOf, By
<1> QED
  BY <1>4, <1>5, <1>6, <1>7, <1>8

\* Sending c once its decision is recorded keeps everything.
LEMMA SendSafe ==
    ASSUME GateInv, NEW c \in Calls, NEW r \in Requests, By(c) = r,
           UNCHANGED <<verdict, simulation, put, store, applied>>,
           wire' = wire \cup {c}, put[r] # "none",
           c[1] = "execute" => verdict[r] = "ALLOW" /\ UNCHANGED hold,
           c[1] = "release" => verdict[r] = "HOLD" /\ hold[r] = "held"
                                 /\ hold' = [hold EXCEPT ![r] = "released"],
           \/ pc[r] = "publish" /\ pc' = [pc EXCEPT ![r] = "broadcast"]
           \/ pc[r] \notin Early /\ UNCHANGED pc
    PROVE  SafeInv'
<1> USE DEF GateInv, SafeInv
<1>1. pc'[r] \notin Early
  BY DEF TypeOK, Early
<1>2. \A q \in Requests : q # r => pc'[q] = pc[q] /\ hold'[q] = hold[q]
  BY CallParts DEF TypeOK
<1>3. hold'[r] # "none" => hold[r] # "none"
  BY CallParts DEF TypeOK
<1>4. DecisionInv'
  BY <1>1, <1>2 DEF DecisionInv, Early
<1>5. HoldInv'
  BY <1>1, <1>2, <1>3 DEF HoldInv
<1>6. SentInv'
  <2> SUFFICES ASSUME NEW d \in Calls, Sent(d)'
               PROVE  /\ pc'[By(d)] \notin Early
                      /\ put'[By(d)] # "none"
                      /\ d[1] = "execute" => verdict'[By(d)] = "ALLOW"
                      /\ d[1] = "release" =>
                           verdict'[By(d)] = "HOLD" /\ hold'[By(d)] \in {"released", "forgotten"}
    BY DEF SentInv, By
  <2>1. CASE d = c
    <3>1. c[1] = "release" => hold'[r] = "released"
      BY DEF TypeOK
    <3> QED
      BY <1>1, <2>1, <3>1
  <2>2. CASE d # c
    <3>1. Sent(d)
      BY <2>2 DEF Sent
    <3>2. By(d) \in Requests
      BY CallParts
    <3>3. pc'[By(d)] \notin Early
      BY <1>1, <1>2, <3>1, <3>2 DEF SentInv
    <3>4. d[1] = "release" => hold'[By(d)] \in {"released", "forgotten"}
      <4>1. CASE By(d) = r /\ c[1] = "release"
        BY <4>1 DEF TypeOK
      <4>2. CASE By(d) # r \/ c[1] = "execute"
        BY <1>2, <3>1, <3>2, <4>2 DEF SentInv
      <4> QED
        BY <4>1, <4>2, CallParts
    <3> QED
      BY <3>1, <3>3, <3>4 DEF SentInv
  <2> QED
    BY <2>1, <2>2
<1>7. RecordInv' /\ KeyInv'
  BY DEF RecordInv, KeyInv, KeyOf, By
<1> QED
  BY <1>4, <1>5, <1>6, <1>7

LEMMA PublishSafe ==
    ASSUME GateInv, NEW r \in Requests, Publish(r)
    PROVE  SafeInv'
<1> USE DEF GateInv, SafeInv
<1>1. pc[r] = "publish" /\ put[r] # "none" /\ hold[r] = "none"
        /\ UNCHANGED <<verdict, simulation, put, store, applied>>
  BY DEF Publish, DecisionInv, HoldInv, Early
<1>2. CASE Broadcasts(r) /\ Goes(r, "broadcast") /\ Send(<<"execute", r>>) /\ UNCHANGED hold
  <2> DEFINE c == <<"execute", r>>
  <2>1. c \in Calls /\ By(c) = r /\ c[1] = "execute"
    BY DEF Calls, By
  <2>2. verdict[r] = "ALLOW" /\ pc' = [pc EXCEPT ![r] = "broadcast"] /\ wire' = wire \cup {c}
    BY <1>2 DEF Broadcasts, Goes, Send
  <2> HIDE DEF c
  <2> QED
    BY <1>1, <1>2, <2>1, <2>2, SendSafe
<1>3. ASSUME NEW says, NEW persisted,
             \/ Queues(r) /\ Goes(r, "notify") /\ hold' = [hold EXCEPT ![r] = "held"]
             \/ Respond(r, says, persisted) /\ UNCHANGED hold,
             UNCHANGED wire
      PROVE  SafeInv'
  <2>1. pc'[r] \in {"notify", "responded"} /\ \A q \in Requests : q # r => pc'[q] = pc[q]
    BY <1>3 DEF Goes, Respond, TypeOK
  <2>2. /\ \A q \in Requests : q # r => hold'[q] = hold[q]
        /\ hold'[r] # "none" => verdict[r] = "HOLD"
    BY <1>1, <1>3 DEF Queues, TypeOK
  <2>3. DecisionInv'
    BY <1>1, <2>1 DEF DecisionInv
  <2>4. HoldInv'
    BY <1>1, <2>1, <2>2 DEF HoldInv, Early
  <2>5. \A c \in Calls : Sent(c)' => Sent(c) /\ By(c) \in Requests /\ By(c) # r
    BY <1>1, <1>3, CallParts DEF Sent, SentInv, Early
  <2>6. SentInv'
    BY <1>1, <2>1, <2>2, <2>5 DEF SentInv, By
  <2>7. RecordInv' /\ KeyInv'
    BY <1>1 DEF RecordInv, KeyInv, KeyOf, By
  <2> QED
    BY <2>3, <2>4, <2>6, <2>7
<1> QED
  BY <1>2, <1>3 DEF Publish

\* The operator's two actions.
LEMMA OperatorSafe ==
    ASSUME GateInv, NEW r \in Requests, Release(r) \/ Cancel(r)
    PROVE  SafeInv'
<1> USE DEF GateInv, SafeInv
<1>1. hold[r] = "held" /\ pc[r] \notin Early /\ verdict[r] = "HOLD" /\ put[r] # "none"
        /\ UNCHANGED <<pc, verdict, simulation, put, store, applied>>
  BY DEF Release, Cancel, Resolve, HoldInv
<1>2. CASE Release(r)
  <2> DEFINE c == <<"release", r>>
  <2>1. c \in Calls /\ By(c) = r /\ c[1] = "release"
    BY DEF Calls, By
  <2>2. wire' = wire \cup {c} /\ hold' = [hold EXCEPT ![r] = "released"]
    BY <1>2 DEF Release, Resolve, Send
  <2> HIDE DEF c
  <2> QED
    BY <1>1, <2>1, <2>2, SendSafe
<1>3. CASE Cancel(r)
  <2>1. hold' = [hold EXCEPT ![r] = "cancelled"] /\ wire' = wire
    BY <1>3 DEF Cancel, Resolve
  <2>2. DecisionInv' /\ RecordInv' /\ KeyInv'
    BY <1>1 DEF DecisionInv, RecordInv, KeyInv, KeyOf, By
  <2>3. HoldInv'
    BY <1>1, <2>1 DEF HoldInv, TypeOK
  \* A hold that is still held has no release on the wire.
  <2>4. SentInv'
    <3> SUFFICES ASSUME NEW c \in Calls, Sent(c)', c[1] = "release"
                 PROVE  hold'[By(c)] \in {"released", "forgotten"}
      BY <1>1, <2>1 DEF SentInv, Sent, By
    <3>1. hold[By(c)] \in {"released", "forgotten"}
      BY <1>1, <2>1 DEF SentInv, Sent
    <3> QED
      BY <1>1, <2>1, <3>1, CallParts DEF TypeOK
  <2> QED
    BY <2>2, <2>3, <2>4
<1> QED
  BY <1>2, <1>3

\* Steps of KeeperHub and the answers it gives.
LEMMA CallSafe ==
    ASSUME GateInv, NEW c \in Calls, Accepted(c) \/ Thrown(c) \/ Apply(c) \/ Lose(c)
    PROVE  SafeInv'
<1> USE DEF GateInv, SafeInv
<1>1. UNCHANGED <<verdict, simulation, put, store, hold>>
  BY DEF Accepted, Thrown, Settle, Apply, Lose
<1>2. \A r \in Requests : pc'[r] = pc[r] \/ pc'[r] = "responded"
  <2>1. CASE UNCHANGED pc
    BY <2>1
  <2>2. ASSUME NEW says, Respond(By(c), says, "unsaid") PROVE pc' = [pc EXCEPT ![By(c)] = "responded"]
    BY <2>2 DEF Respond, Goes
  <2> QED
    BY <2>1, <2>2 DEF Accepted, Thrown, Settle, Apply, Lose, TypeOK
<1>3. DecisionInv' /\ HoldInv' /\ RecordInv'
  BY <1>1, <1>2 DEF DecisionInv, HoldInv, RecordInv, Early
<1>4. ASSUME NEW d \in Calls, Sent(d)' PROVE Sent(d)
  <2>1. CASE UNCHANGED <<wire, applied>>
    BY <1>4, <2>1 DEF Sent
  <2>2. CASE Apply(c)
    <3> DEFINE e == [key |-> KeyOf(c), intent |-> Intent[By(c)], call |-> c]
    <3>1. wire' \subseteq wire /\ c \in wire /\ applied' \subseteq applied \cup {e} /\ e.call = c
      BY <2>2 DEF Apply
    <3> HIDE DEF e
    <3> QED
      BY <1>4, <3>1 DEF Sent
  <2>3. CASE Lose(c)
    BY <1>4, <2>3 DEF Lose, Sent
  <2> QED
    BY <2>1, <2>2, <2>3 DEF Accepted, Thrown, Settle
<1>5. SentInv'
  <2> SUFFICES ASSUME NEW d \in Calls, Sent(d)'
               PROVE  /\ pc'[By(d)] \notin Early
                      /\ put'[By(d)] # "none"
                      /\ d[1] = "execute" => verdict'[By(d)] = "ALLOW"
                      /\ d[1] = "release" =>
                           verdict'[By(d)] = "HOLD" /\ hold'[By(d)] \in {"released", "forgotten"}
    BY DEF SentInv, By
  <2>1. Sent(d) /\ By(d) \in Requests
    BY <1>4, CallParts
  <2>2. pc'[By(d)] \notin Early
    BY <1>2, <2>1 DEF SentInv, Early
  <2> QED
    BY <1>1, <2>1, <2>2 DEF SentInv
<1>6. KeyInv'
  <2>1. CASE UNCHANGED applied
    BY <2>1 DEF KeyInv, KeyOf, By
  <2>2. CASE Apply(c) /\ applied' # applied
    <3> DEFINE e == [key |-> KeyOf(c), intent |-> Intent[By(c)], call |-> c]
    <3>1. applied' = applied \cup {e} /\ \A d \in applied : d.key # KeyOf(c)
      BY <2>2 DEF Apply
    <3>2. e.key = KeyOf(c) /\ e.intent = Intent[By(c)] /\ e.call = c
      OBVIOUS
    <3> HIDE DEF e
    <3> QED
      BY <3>1, <3>2 DEF KeyInv, KeyOf, By
  <2> QED
    BY <2>1, <2>2 DEF Accepted, Thrown, Settle, Lose
<1> QED
  BY <1>3, <1>5, <1>6

LEMMA RestartSafe ==
    ASSUME GateInv, Restart
    PROVE  SafeInv'
<1> USE DEF GateInv, SafeInv
<1>1. UNCHANGED <<verdict, simulation, put, wire, applied>>
  BY DEF Restart
<1>2. \A r \in Requests :
        /\ pc'[r] = pc[r] \/ pc'[r] = "lost"
        /\ hold'[r] = IF hold[r] = "none" THEN "none" ELSE "forgotten"
  BY DEF Restart
<1>3. DecisionInv' /\ HoldInv'
  BY <1>1, <1>2 DEF DecisionInv, HoldInv, Early
<1>4. SentInv'
  <2> SUFFICES ASSUME NEW d \in Calls, Sent(d)
               PROVE  /\ pc'[By(d)] \notin Early
                      /\ put[By(d)] # "none"
                      /\ d[1] = "execute" => verdict[By(d)] = "ALLOW"
                      /\ d[1] = "release" =>
                           verdict[By(d)] = "HOLD" /\ hold'[By(d)] \in {"released", "forgotten"}
    BY <1>1 DEF SentInv, Sent, By
  <2>1. By(d) \in Requests
    BY CallParts
  <2> QED
    BY <1>2, <2>1 DEF SentInv, Early
\* Only a durable store is asked for what it had.
<1>5. RecordInv'
  BY <1>1 DEF Restart, RecordInv
<1>6. KeyInv'
  BY <1>1 DEF KeyInv, KeyOf, By
<1> QED
  BY <1>3, <1>4, <1>5, <1>6
-----------------------------------------------------------------------------
(* Theorems                                                                *)

LEMMA GateStep ==
    ASSUME GateInv, Next
    PROVE  GateInv'
<1>1. TypeOK
  BY DEF GateInv
<1>2. ASSUME NEW r \in Requests, Authorize(r) \/ Simulate(r) \/ Persist(r) \/ Notified(r)
      PROVE  GateInv'
  <2>1. TypeOK'
    BY <1>1, <1>2, AuthorizeType, SimulateType, PersistType, NotifiedType
  <2> QED
    BY <1>2, <2>1, HandlerSafe DEF GateInv
<1>3. ASSUME NEW r \in Requests, Publish(r) PROVE GateInv'
  <2>1. verdict[r] # "none"
    BY <1>3 DEF Publish, GateInv, SafeInv, DecisionInv
  <2> QED
    BY <1>1, <1>3, <2>1, PublishType, PublishSafe DEF GateInv
<1>4. ASSUME NEW r \in Requests, Release(r) \/ Cancel(r) PROVE GateInv'
  <2>1. <<"release", r>> \in Calls
    BY DEF Calls
  <2>2. TypeOK'
    <3>1. hold' \in [Requests -> {"none", "held", "released", "cancelled", "forgotten"}]
      BY <1>1, <1>4 DEF Release, Cancel, Resolve, TypeOK
    <3> QED
      BY <1>1, <1>4, <2>1, <3>1, SendType DEF Release, Cancel, TypeOK
  <2> QED
    BY <1>4, <2>2, OperatorSafe DEF GateInv
<1>5. ASSUME NEW c \in Calls, Accepted(c) \/ Thrown(c) \/ Apply(c) \/ Lose(c) PROVE GateInv'
  <2>1. TypeOK'
    <3>1. CASE Accepted(c) \/ Thrown(c)
      BY <1>1, <3>1, SettleType DEF Accepted, Thrown
    <3>2. CASE Apply(c)
      BY <1>1, <3>2, ApplyType
    <3>3. CASE Lose(c)
      BY <1>1, <3>3 DEF Lose, TypeOK
    <3> QED
      BY <1>5, <3>1, <3>2, <3>3
  <2> QED
    BY <1>5, <2>1, CallSafe DEF GateInv
<1>6. CASE Restart
  BY <1>1, <1>6, RestartType, RestartSafe DEF GateInv
<1> QED
  BY <1>2, <1>3, <1>4, <1>5, <1>6 DEF Next

LEMMA GateInvHolds == Spec => []GateInv
<1>1. Init => GateInv
  <2> SUFFICES ASSUME Init PROVE GateInv
    OBVIOUS
  <2>1. Unsaid \in Response
    BY DEF Unsaid, Response
  <2>2. TypeOK
    BY <2>1 DEF Init, TypeOK
  <2>3. SafeInv
    BY DEF Init, SafeInv, DecisionInv, HoldInv, SentInv, Sent, RecordInv, KeyInv
  <2> QED
    BY <2>2, <2>3 DEF GateInv
<1>2. GateInv /\ [Next]_vars => GateInv'
  <2>1. ASSUME GateInv, UNCHANGED vars PROVE GateInv'
    BY <2>1 DEF GateInv, TypeOK, SafeInv, DecisionInv, HoldInv, SentInv, Sent, RecordInv,
                KeyInv, KeyOf, By, vars
  <2> QED
    BY <2>1, GateStep
<1> QED
  BY <1>1, <1>2, PTL DEF Spec

\* The gateway's state stays in its types.
THEOREM TypeCorrect == Spec => []TypeOK
BY GateInvHolds, PTL DEF GateInv

\* Nothing reaches KeeperHub without an ALLOW that survived simulation, or an
\* operator's release of a HOLD, on whatever route it came.
THEOREM OnlyAuthorizedIsSent == Spec => []SentWasAuthorized
<1>1. GateInv => SentWasAuthorized
  <2> SUFFICES ASSUME GateInv, NEW e \in applied
               PROVE  LET r == By(e.call) IN
                      IF e.call[1] = "execute"
                        THEN verdict[r] = "ALLOW" /\ simulation[r] \in {"passes", "garbled"}
                        ELSE verdict[r] = "HOLD" /\ hold[r] \in {"released", "forgotten"}
    BY DEF SentWasAuthorized
  <2>1. e.call \in Calls /\ Sent(e.call)
    BY DEF GateInv, TypeOK, Entry, Sent
  <2> QED
    BY <2>1, CallParts DEF GateInv, SafeInv, SentInv, DecisionInv
<1> QED
  BY <1>1, GateInvHolds, PTL

\* An intent whose requests keep to one key is sent at most once, through
\* every route, hold and resubmission.
THEOREM IntentsAreSentOnce == Spec => []SentOnce
<1>1. GateInv => SentOnce
  <2> SUFFICES ASSUME GateInv,
                      \A q, r \in Requests : Intent[q] = Intent[r] => Key[q] = Key[r],
                      NEW d \in applied, NEW e \in applied, d.intent = e.intent
               PROVE  d = e
    BY DEF SentOnce
  <2>1. By(d.call) \in Requests /\ By(e.call) \in Requests
    BY CallParts DEF GateInv, TypeOK, Entry
  <2> QED
    BY <2>1 DEF GateInv, SafeInv, KeyInv, KeyOf
<1> QED
  BY <1>1, GateInvHolds, PTL

\* The receipt of whatever is on its way or applied was put before, and is
\* there still if the store is durable.
THEOREM EvidenceComesFirst == Spec => []SentWasRecorded
<1>1. GateInv => SentWasRecorded
  <2> SUFFICES ASSUME GateInv, NEW c \in wire \cup {e.call : e \in applied}
               PROVE  /\ put[By(c)] # "none"
                      /\ Durable /\ put[By(c)] = "stored" => store[Intent[By(c)]] # NoReceipt
    BY DEF SentWasRecorded
  <2>1. c \in Calls /\ Sent(c)
    BY DEF GateInv, TypeOK, Entry, Sent
  <2> QED
    BY <2>1, CallParts DEF GateInv, SafeInv, SentInv, RecordInv
<1> QED
  BY <1>1, GateInvHolds, PTL

\* No step gives a resolved hold another resolution.
THEOREM ResolutionIsFinal == Spec => ResolvedOnce
<1>1. GateInv /\ [Next]_vars =>
        [\A r \in Requests :
           hold[r] \in {"released", "cancelled"} => hold'[r] \in {hold[r], "forgotten"}]_vars
  <2> SUFFICES ASSUME GateInv, Next, NEW r \in Requests, hold[r] \in {"released", "cancelled"}
               PROVE  hold'[r] \in {hold[r], "forgotten"}
    OBVIOUS
  <2>1. ASSUME NEW q \in Requests, Release(q) \/ Cancel(q) PROVE hold'[r] = hold[r]
    BY <2>1 DEF Release, Cancel, Resolve, GateInv, TypeOK
  <2>2. ASSUME NEW q \in Requests, Publish(q) PROVE hold'[r] = hold[r]
    <3>1. hold[q] = "none"
      BY <2>2 DEF Publish, GateInv, SafeInv, HoldInv, Early
    <3> QED
      BY <2>2, <3>1 DEF Publish, GateInv, TypeOK
  <2>3. CASE Restart
    BY <2>3 DEF Restart
  <2> QED
    BY <2>1, <2>2, <2>3 DEF Next, Authorize, Simulate, Persist, Notified, Accepted, Thrown,
                            Settle, Apply, Lose
<1> QED
  BY <1>1, GateInvHolds, PTL DEF Spec, ResolvedOnce
-----------------------------------------------------------------------------
(* Evidence: the members of an object, and its text                        *)

\* The member of an object under a key is the one written there.
LEMMA GetAt ==
    ASSUME NEW v, IsObject(v), NEW i \in DOMAIN v.members
    PROVE  /\ v.members[i][1] \in Keys(v)
           /\ Place(v.members, v.members[i][1]) = i
           /\ Get(v, v.members[i][1]) = v.members[i][2]
<1> DEFINE k == v.members[i][1]
<1>1. k \in Keys(v)
  BY DEF Keys
<1>2. Place(v.members, k) \in DOMAIN v.members /\ v.members[Place(v.members, k)][1] = k
  BY DEF Place
<1>3. Place(v.members, k) = i
  BY <1>2 DEF IsObject
<1>4. v.type = "object"
  BY DEF IsObject, Obj
<1> QED
  BY <1>1, <1>3, <1>4 DEF Get

LEMMA KeyAt ==
    ASSUME NEW v, IsObject(v), NEW k \in Keys(v)
    PROVE  /\ Place(v.members, k) \in DOMAIN v.members
           /\ v.members[Place(v.members, k)] = <<k, Get(v, k)>>
<1>1. PICK i \in DOMAIN v.members : v.members[i][1] = k
  BY DEF Keys
<1>2. Place(v.members, k) = i /\ Get(v, k) = v.members[i][2]
  BY <1>1, GetAt
<1> QED
  BY <1>1, <1>2 DEF IsObject

LEMMA NoMember == ASSUME NEW v, NEW k, k \notin Keys(v) PROVE Get(v, k) = Undefined
BY DEF Get

\* The canonical text of an object is a function of the texts of its members.
LEMMA ObjectText ==
    ASSUME NEW v, IsObject(v)
    PROVE  /\ v.type = "object"
           /\ v.text = Throws <=> \E k \in Keys(v) : Get(v, k).text = Throws
           /\ v.text # Throws => v.text = <<"object", {<<k, Get(v, k).text>> : k \in Keys(v)}>>
<1>1. v.type = "object" /\ v.text = IF \E i \in DOMAIN v.members : v.members[i][2].text = Throws
                                      THEN Throws ELSE <<"object", Sorted(v.members)>>
  BY DEF IsObject, Obj
<1>2. <<"object", Sorted(v.members)>> # Throws
  BY DEF Throws
<1>3. (\E i \in DOMAIN v.members : v.members[i][2].text = Throws)
        <=> \E k \in Keys(v) : Get(v, k).text = Throws
  <2>1. ASSUME NEW i \in DOMAIN v.members, v.members[i][2].text = Throws
        PROVE  \E k \in Keys(v) : Get(v, k).text = Throws
    BY <2>1, GetAt
  <2>2. ASSUME NEW k \in Keys(v), Get(v, k).text = Throws
        PROVE  \E i \in DOMAIN v.members : v.members[i][2].text = Throws
    BY <2>2, KeyAt
  <2> QED
    BY <2>1, <2>2
<1>4. Sorted(v.members) = {<<k, Get(v, k).text>> : k \in Keys(v)}
  <2>1. ASSUME NEW i \in DOMAIN v.members
        PROVE  <<v.members[i][1], v.members[i][2].text>> \in {<<k, Get(v, k).text>> : k \in Keys(v)}
    BY GetAt
  <2>2. ASSUME NEW k \in Keys(v)
        PROVE  <<k, Get(v, k).text>> \in Sorted(v.members)
    BY KeyAt DEF Sorted
  <2> QED
    BY <2>1, <2>2 DEF Sorted
<1> QED
  BY <1>1, <1>2, <1>3, <1>4

LEMMA ObjectsAgree ==
    ASSUME NEW v, NEW w, IsObject(v), IsObject(w), v.text # Throws, w.text # Throws
    PROVE  v.text = w.text <=> /\ Keys(v) = Keys(w)
                               /\ \A k \in Keys(v) : Get(v, k).text = Get(w, k).text
<1> DEFINE S(x) == {<<k, Get(x, k).text>> : k \in Keys(x)}
<1>1. v.text = <<"object", S(v)>> /\ w.text = <<"object", S(w)>>
  BY ObjectText
<1>2. ASSUME S(v) = S(w)
      PROVE  Keys(v) = Keys(w) /\ \A k \in Keys(v) : Get(v, k).text = Get(w, k).text
  <2>1. ASSUME NEW k \in Keys(v) PROVE k \in Keys(w) /\ Get(v, k).text = Get(w, k).text
    <3>1. <<k, Get(v, k).text>> \in S(w)
      BY <1>2
    <3> QED
      BY <3>1
  <2>2. ASSUME NEW k \in Keys(w) PROVE k \in Keys(v)
    <3>1. <<k, Get(w, k).text>> \in S(v)
      BY <1>2
    <3> QED
      BY <3>1
  <2> QED
    BY <2>1, <2>2
<1>3. ASSUME Keys(v) = Keys(w), \A k \in Keys(v) : Get(v, k).text = Get(w, k).text
      PROVE  S(v) = S(w)
  <2>1. ASSUME NEW k \in Keys(v) PROVE <<k, Get(v, k).text>> = <<k, Get(w, k).text>>
    BY <1>3
  <2> QED
    BY <2>1, <1>3
<1> HIDE DEF S
<1> QED
  BY <1>1, <1>2, <1>3

\* Objects with no members but those of a set agree when all of these do.
LEMMA OnlyTheseAgree ==
    ASSUME NEW v, NEW w, IsObject(v), IsObject(w), v.text # Throws, w.text # Throws, NEW fields,
           Keys(v) \subseteq fields, Keys(w) \subseteq fields
    PROVE  v.text = w.text <=> SameMembers(v, w, fields)
<1>1. ASSUME SameMembers(v, w, fields) PROVE Keys(v) = Keys(w)
  <2>1. ASSUME NEW k \in Keys(v), k \notin Keys(w) PROVE FALSE
    BY <1>1, <2>1, NoMember, ObjectText DEF SameMembers, Undefined
  <2>2. ASSUME NEW k \in Keys(w), k \notin Keys(v) PROVE FALSE
    BY <1>1, <2>2, NoMember, ObjectText DEF SameMembers, Undefined
  <2> QED
    BY <2>1, <2>2
<1>2. ASSUME Keys(v) = Keys(w), \A k \in Keys(v) : Get(v, k).text = Get(w, k).text
      PROVE  SameMembers(v, w, fields)
  BY <1>2, NoMember DEF SameMembers
<1> QED
  BY <1>1, <1>2, ObjectsAgree DEF SameMembers

\* Objects that are written down.
LEMMA Written ==
    ASSUME NEW T, NEW m \in Seq(T),
           \A i \in DOMAIN m : m[i] = <<m[i][1], m[i][2]>>,
           \A i, j \in DOMAIN m : m[i][1] = m[j][1] => i = j
    PROVE  /\ IsObject(Obj(m))
           /\ Keys(Obj(m)) = {m[i][1] : i \in DOMAIN m}
           /\ \A i \in DOMAIN m : Get(Obj(m), m[i][1]) = m[i][2]
<1>1. Obj(m).members = m
  BY DEF Obj
<1>2. m \in Seq(Range(m))
  BY DEF Range
<1>3. IsObject(Obj(m))
  BY <1>1, <1>2 DEF IsObject
<1> QED
  BY <1>1, <1>3, GetAt DEF Keys

ReceiptOf(id, hash, policy, guard, chain, says, reasons, sim, execution, at) ==
    Obj(<<<<"intentId", id>>, <<"intentHash", hash>>, <<"policyHash", policy>>, <<"guard", guard>>,
          <<"chainId", chain>>, <<"verdict", says>>, <<"reasons", reasons>>,
          <<"simulation", sim>>, <<"execution", execution>>, <<"at", at>>>>)

LEMMA ReceiptIs ==
    ASSUME NEW id, NEW hash, NEW policy, NEW guard, NEW chain, NEW says, NEW reasons,
           NEW sim, NEW execution, NEW at
    PROVE  LET v == ReceiptOf(id, hash, policy, guard, chain, says, reasons, sim, execution, at) IN
           /\ IsObject(v)
           /\ Keys(v) = Committed
           /\ Get(v, "intentId") = id /\ Get(v, "intentHash") = hash
           /\ Get(v, "policyHash") = policy /\ Get(v, "guard") = guard
           /\ Get(v, "chainId") = chain /\ Get(v, "verdict") = says
           /\ Get(v, "reasons") = reasons /\ Get(v, "simulation") = sim
           /\ Get(v, "execution") = execution /\ Get(v, "at") = at
<1> DEFINE m == <<<<"intentId", id>>, <<"intentHash", hash>>, <<"policyHash", policy>>, <<"guard", guard>>,
          <<"chainId", chain>>, <<"verdict", says>>, <<"reasons", reasons>>,
          <<"simulation", sim>>, <<"execution", execution>>, <<"at", at>>>>
<1>1. /\ m[1] = <<"intentId", id>> /\ m[2] = <<"intentHash", hash>> /\ m[3] = <<"policyHash", policy>>
      /\ m[4] = <<"guard", guard>> /\ m[5] = <<"chainId", chain>> /\ m[6] = <<"verdict", says>>
      /\ m[7] = <<"reasons", reasons>> /\ m[8] = <<"simulation", sim>>
      /\ m[9] = <<"execution", execution>> /\ m[10] = <<"at", at>>
  OBVIOUS
<1>2. DOMAIN m = 1 .. 10
  OBVIOUS
<1>3. m \in Seq({m[i] : i \in 1 .. 10})
  OBVIOUS
<1> HIDE DEF m
<1>4. 1 .. 10 = {1, 2, 3, 4, 5, 6, 7, 8, 9, 10}
  OBVIOUS
<1>5. \A i \in DOMAIN m : m[i] = <<m[i][1], m[i][2]>>
  BY <1>1, <1>2, <1>4
<1>6. \A i, j \in DOMAIN m : m[i][1] = m[j][1] => i = j
  BY <1>1, <1>2, <1>4
<1>7. {m[i][1] : i \in DOMAIN m} = Committed
  BY <1>1, <1>2, <1>4 DEF Committed
<1>8. IsObject(Obj(m)) /\ Keys(Obj(m)) = Committed /\ \A i \in DOMAIN m : Get(Obj(m), m[i][1]) = m[i][2]
  BY <1>3, <1>5, <1>6, <1>7, Written
<1>9. ReceiptOf(id, hash, policy, guard, chain, says, reasons, sim, execution, at) = Obj(m)
  BY DEF ReceiptOf, m
<1> QED
  BY <1>1, <1>2, <1>4, <1>8, <1>9

LEMMA Picked ==
    ASSUME NEW v, NEW a, NEW b, NEW c, a # b, b # c, a # c
    PROVE  LET p == Pick(v, <<a, b, c>>) IN
           IsObject(p) /\ Keys(p) = {a, b, c} /\ \A k \in {a, b, c} : Get(p, k) = Get(v, k)
<1> DEFINE keys == <<a, b, c>>
           m == [i \in DOMAIN keys |-> <<keys[i], Get(v, keys[i])>>]
<1>1. DOMAIN m = {1, 2, 3} /\ m[1] = <<a, Get(v, a)>> /\ m[2] = <<b, Get(v, b)>> /\ m[3] = <<c, Get(v, c)>>
  OBVIOUS
<1>2. m \in Seq({m[i] : i \in {1, 2, 3}})
  BY <1>1
<1> HIDE DEF m
<1>3. \A i \in DOMAIN m : m[i] = <<m[i][1], m[i][2]>>
  BY <1>1
<1>4. \A i, j \in DOMAIN m : m[i][1] = m[j][1] => i = j
  BY <1>1
<1>5. {m[i][1] : i \in DOMAIN m} = {a, b, c}
  BY <1>1
<1>6. Pick(v, keys) = Obj(m)
  BY DEF Pick, m
<1>7. IsObject(Obj(m)) /\ Keys(Obj(m)) = {m[i][1] : i \in DOMAIN m}
      /\ \A i \in DOMAIN m : Get(Obj(m), m[i][1]) = m[i][2]
  BY <1>2, <1>3, <1>4, Written
<1> HIDE DEF keys
<1> QED
  BY <1>1, <1>5, <1>6, <1>7 DEF keys

LEMMA PickedTwo ==
    ASSUME NEW v, NEW a, NEW b, a # b
    PROVE  LET p == Pick(v, <<a, b>>) IN
           IsObject(p) /\ Keys(p) = {a, b} /\ \A k \in {a, b} : Get(p, k) = Get(v, k)
<1> DEFINE keys == <<a, b>>
           m == [i \in DOMAIN keys |-> <<keys[i], Get(v, keys[i])>>]
<1>1. DOMAIN m = {1, 2} /\ m[1] = <<a, Get(v, a)>> /\ m[2] = <<b, Get(v, b)>>
  OBVIOUS
<1>2. m \in Seq({m[i] : i \in {1, 2}})
  BY <1>1
<1> HIDE DEF m
<1>3. \A i \in DOMAIN m : m[i] = <<m[i][1], m[i][2]>>
  BY <1>1
<1>4. \A i, j \in DOMAIN m : m[i][1] = m[j][1] => i = j
  BY <1>1
<1>5. {m[i][1] : i \in DOMAIN m} = {a, b}
  BY <1>1
<1>6. Pick(v, keys) = Obj(m)
  BY DEF Pick, m
<1>7. IsObject(Obj(m)) /\ Keys(Obj(m)) = {m[i][1] : i \in DOMAIN m}
      /\ \A i \in DOMAIN m : Get(Obj(m), m[i][1]) = m[i][2]
  BY <1>2, <1>3, <1>4, Written
<1> HIDE DEF keys
<1> QED
  BY <1>1, <1>5, <1>6, <1>7 DEF keys
-----------------------------------------------------------------------------
\* What is read of a document: a member of it, or undefined.
Member(x) == x = Undefined \/ IsMember(x)

LEMMA MembersOfMembers ==
    ASSUME NEW x, Member(x), NEW k
    PROVE  Get(x, k) = Undefined \/ Get(x, k).text # Throws
<1>1. CASE x.type = "object" /\ k \in Keys(x)
  <2>1. x # Undefined /\ IsObject(x) /\ x.text # Throws
    BY <1>1 DEF Member, IsMember, IsJson, Is, Undefined, Infinite
  <2> QED
    BY <1>1, <2>1, ObjectText
<1>2. CASE ~ (x.type = "object" /\ k \in Keys(x))
  BY <1>2 DEF Get
<1> QED
  BY <1>1, <1>2

LEMMA PicksAgree ==
    ASSUME NEW x, NEW y, NEW a, NEW b, NEW c, a # b, b # c, a # c,
           Pick(y, <<a, b, c>>).text # Throws
    PROVE  Pick(x, <<a, b, c>>).text = Pick(y, <<a, b, c>>).text <=> SameMembers(x, y, {a, b, c})
<1> DEFINE p == Pick(x, <<a, b, c>>)
           q == Pick(y, <<a, b, c>>)
<1>1. IsObject(p) /\ Keys(p) = {a, b, c} /\ \A k \in {a, b, c} : Get(p, k) = Get(x, k)
  BY Picked
<1>2. IsObject(q) /\ Keys(q) = {a, b, c} /\ \A k \in {a, b, c} : Get(q, k) = Get(y, k)
  BY Picked
<1> HIDE DEF p, q
<1>3. q.text # Throws
  BY DEF q
<1>4. \A k \in {a, b, c} : Get(y, k).text # Throws
  BY <1>2, <1>3, ObjectText
<1>5. ASSUME SameMembers(x, y, {a, b, c}) PROVE p.text # Throws
  BY <1>1, <1>4, <1>5, ObjectText DEF SameMembers
<1>6. SameMembers(p, q, {a, b, c}) <=> SameMembers(x, y, {a, b, c})
  BY <1>1, <1>2 DEF SameMembers
<1>7. p.text # Throws => (p.text = q.text <=> SameMembers(p, q, {a, b, c}))
  BY <1>1, <1>2, <1>3, OnlyTheseAgree
<1>8. p.text = q.text <=> SameMembers(x, y, {a, b, c})
  BY <1>3, <1>5, <1>6, <1>7
<1> QED
  BY <1>8 DEF p, q

LEMMA ReasonsAgree ==
    ASSUME NEW x, NEW y, Member(x), Member(y), ReasonsPayload(y).text # Throws
    PROVE  ReasonsPayload(x).text = ReasonsPayload(y).text <=> SameReasons(x, y)
<1> DEFINE P(v) == Pick(v, <<"code", "severity", "message">>)
           PX == [i \in DOMAIN x.items |-> P(x.items[i])]
           PY == [i \in DOMAIN y.items |-> P(y.items[i])]
           Refused(items) == \E i \in DOMAIN items : items[i].text = Throws
           TX == [i \in DOMAIN x.items |-> PX[i].text]
           TY == [i \in DOMAIN y.items |-> PY[i].text]
<1>1. y.type = "array"
  BY DEF ReasonsPayload, Undefined
<1>2. ReasonsPayload(y) = Arr(PY)
  BY <1>1 DEF ReasonsPayload
<1>3. Arr(PY).text = IF Refused(PY) THEN Throws ELSE <<"array", TY>>
  BY DEF Arr
<1>4. Arr(PX).text = IF Refused(PX) THEN Throws ELSE <<"array", TX>>
  BY DEF Arr
<1>5. ~ Refused(PY)
  BY <1>2, <1>3
<1>6. \A i \in DOMAIN y.items : P(y.items[i]).text # Throws
  BY <1>5
<1>7. \A i \in DOMAIN x.items \cap DOMAIN y.items :
        P(x.items[i]).text = P(y.items[i]).text <=> SameMembers(x.items[i], y.items[i], ReasonFields)
  BY <1>6, PicksAgree DEF ReasonFields
<1>8. y.items \in Seq(Range(y.items)) /\ (x.type = "array" => x.items \in Seq(Range(x.items)))
  BY <1>1 DEF Member, IsMember, IsJson, Is, Undefined, Infinite
<1>9. x.type = "array" => (DOMAIN x.items = DOMAIN y.items <=> Len(x.items) = Len(y.items))
  <2> SUFFICES ASSUME x.type = "array" PROVE DOMAIN x.items = DOMAIN y.items <=> Len(x.items) = Len(y.items)
    OBVIOUS
  <2>1. /\ DOMAIN x.items = 1 .. Len(x.items) /\ Len(x.items) \in Nat
        /\ DOMAIN y.items = 1 .. Len(y.items) /\ Len(y.items) \in Nat
    BY <1>8
  <2> QED
    BY <2>1
<1>10. CASE x.type # "array"
  <2>1. ReasonsPayload(x).text = Throws
    BY <1>10 DEF ReasonsPayload, Undefined
  <2> QED
    BY <1>10, <2>1 DEF SameReasons
<1>11. CASE x.type = "array"
  <2>1. ReasonsPayload(x) = Arr(PX)
    BY <1>11 DEF ReasonsPayload
  <2>2. ASSUME SameReasons(x, y) PROVE ReasonsPayload(x).text = ReasonsPayload(y).text
    <3>1. DOMAIN x.items = DOMAIN y.items
      BY <1>9, <1>11, <2>2 DEF SameReasons
    <3>2. \A i \in DOMAIN x.items : P(x.items[i]).text = P(y.items[i]).text
      BY <1>7, <2>2, <3>1 DEF SameReasons
    <3>3. TX = TY
      BY <3>1, <3>2
    <3>4. ~ Refused(PX)
      BY <1>6, <3>1, <3>2
    <3> QED
      BY <1>2, <1>3, <1>4, <1>5, <2>1, <3>3, <3>4
  <2>3. ASSUME ReasonsPayload(x).text = ReasonsPayload(y).text PROVE SameReasons(x, y)
    <3>1. <<"array", TX>> = <<"array", TY>>
      <4> HIDE DEF TX, TY, Refused
      <4> QED
        BY <1>2, <1>3, <1>4, <1>5, <2>1, <2>3
    <3>2. TX = TY
      <4> HIDE DEF TX, TY
      <4> QED
        BY <3>1
    <3>3. DOMAIN x.items = DOMAIN y.items
      BY <3>2
    <3>4. \A i \in DOMAIN x.items : P(x.items[i]).text = P(y.items[i]).text
      <4> TAKE i \in DOMAIN x.items
      <4>1. TX[i] = TY[i]
        BY <3>2
      <4> QED
        BY <3>3, <4>1
    <3> QED
      BY <1>1, <1>7, <1>9, <1>11, <3>3, <3>4 DEF SameReasons
  <2> QED
    BY <2>2, <2>3
<1> QED
  BY <1>10, <1>11

LEMMA AbsentText ==
    ASSUME NEW v, IsObject(v)
    PROVE  v.text # Null.text
<1>1. v.text = Throws \/ \E S : v.text = <<"object", S>>
  BY ObjectText
<1> QED
  BY <1>1 DEF Null, Scalar, Throws

LEMMA ExecutionsAgree ==
    ASSUME NEW x, NEW y, ExecutionPayload(y).text # Throws
    PROVE  ExecutionPayload(x).text = ExecutionPayload(y).text <=> SameRecord(x, y, ExecutionFields)
<1> DEFINE P(v) == Pick(v, <<"txHash", "gasUsed", "block">>)
<1>1. IsObject(P(x)) /\ IsObject(P(y))
  BY Picked
<1>2. P(x).text # Null.text /\ P(y).text # Null.text
  BY <1>1, AbsentText
<1>3. ~Absent(y) => (P(x).text = P(y).text <=> SameMembers(x, y, ExecutionFields))
  <2> SUFFICES ASSUME ~Absent(y) PROVE P(x).text = P(y).text <=> SameMembers(x, y, ExecutionFields)
    OBVIOUS
  <2>1. P(y).text # Throws
    BY DEF ExecutionPayload
  <2> QED
    BY <2>1, PicksAgree DEF ExecutionFields
<1> QED
  BY <1>2, <1>3 DEF ExecutionPayload, SameRecord

LEMMA SimulationsAgree ==
    ASSUME NEW x, NEW y, Member(x), Member(y), SimulationPayload(y).text # Throws
    PROVE  SimulationPayload(x).text = SimulationPayload(y).text <=> SameRecord(x, y, SimulationFields)
<1> DEFINE P(v) == Pick(v, <<"wouldRevert", "gasEstimate", "invariantIndex">>)
           Q(v) == Pick(v, <<"wouldRevert", "gasEstimate">>)
           None(v) == Get(v, "invariantIndex") = Undefined
<1>1. \A v : /\ IsObject(P(v)) /\ Keys(P(v)) = SimulationFields
             /\ \A k \in SimulationFields : Get(P(v), k) = Get(v, k)
  BY Picked DEF SimulationFields
<1>2. \A v : /\ IsObject(Q(v)) /\ Keys(Q(v)) = {"wouldRevert", "gasEstimate"}
             /\ \A k \in {"wouldRevert", "gasEstimate"} : Get(Q(v), k) = Get(v, k)
  BY PickedTwo
<1>3. \A v : P(v).text # Null.text /\ Q(v).text # Null.text
  BY <1>1, <1>2, AbsentText
<1>4. \A v : SimulationPayload(v) = IF Absent(v) THEN Null ELSE IF None(v) THEN Q(v) ELSE P(v)
  BY DEF SimulationPayload
<1>5. None(x) \/ Get(x, "invariantIndex").text # Throws
  BY MembersOfMembers
<1>6. None(y) \/ Get(y, "invariantIndex").text # Throws
  BY MembersOfMembers
<1>7. Undefined.text = Throws
  BY DEF Undefined
<1> HIDE DEF P, Q
<1>8. CASE Absent(x) \/ Absent(y)
  BY <1>3, <1>4, <1>8 DEF SameRecord
<1>9. CASE ~Absent(x) /\ ~Absent(y) /\ None(x) /\ None(y)
  <2>1. SimulationPayload(x) = Q(x) /\ SimulationPayload(y) = Q(y)
    BY <1>4, <1>9
  <2>2. \A k \in {"wouldRevert", "gasEstimate"} : Get(y, k).text # Throws
    BY <1>2, <2>1, ObjectText
  <2>3. SameMembers(x, y, SimulationFields) <=> SameMembers(x, y, {"wouldRevert", "gasEstimate"})
    BY <1>9 DEF SameMembers, SimulationFields
  <2>4. SameMembers(Q(x), Q(y), {"wouldRevert", "gasEstimate"})
          <=> SameMembers(x, y, {"wouldRevert", "gasEstimate"})
    BY <1>2 DEF SameMembers
  <2>5. SameMembers(x, y, {"wouldRevert", "gasEstimate"}) => Q(x).text # Throws
    BY <1>2, <2>2, ObjectText DEF SameMembers
  <2>6. Q(x).text # Throws => (Q(x).text = Q(y).text
          <=> SameMembers(Q(x), Q(y), {"wouldRevert", "gasEstimate"}))
    BY <1>2, <2>1, OnlyTheseAgree
  <2> QED
    BY <1>9, <2>1, <2>3, <2>4, <2>5, <2>6 DEF SameRecord
<1>10. CASE ~Absent(x) /\ ~Absent(y) /\ ~None(x) /\ ~None(y)
  <2>1. SimulationPayload(x) = P(x) /\ SimulationPayload(y) = P(y)
    BY <1>4, <1>10
  <2>2. P(x).text = P(y).text <=> SameMembers(x, y, SimulationFields)
    BY <2>1, PicksAgree DEF P, SimulationFields
  <2> QED
    BY <1>10, <2>1, <2>2 DEF SameRecord
<1>11. CASE ~Absent(x) /\ ~Absent(y) /\ None(x) # None(y)
  <2>1. ~ SameMembers(x, y, SimulationFields)
    BY <1>5, <1>6, <1>7, <1>11 DEF SameMembers, SimulationFields
  <2>2. \A v, w : Keys(P(v)) # Keys(Q(w))
    BY <1>1, <1>2 DEF SimulationFields
  <2>3. \A v, w : P(v).text # Throws /\ Q(w).text # Throws => P(v).text # Q(w).text
    BY <1>1, <1>2, <2>2, ObjectsAgree
  <2> QED
    BY <1>4, <1>11, <2>1, <2>3 DEF SameRecord
<1> QED
  BY <1>8, <1>9, <1>10, <1>11
-----------------------------------------------------------------------------
LEMMA MembersOfDocument ==
    ASSUME NEW v, IsDocument(v), NEW k
    PROVE  Member(Get(v, k))
<1>1. CASE k \in Keys(v)
  <2>1. PICK i \in DOMAIN v.members : v.members[i] = <<k, Get(v, k)>>
    BY <1>1, KeyAt DEF IsDocument
  <2> QED
    BY <2>1 DEF IsDocument, Member
<1>2. CASE k \notin Keys(v)
  BY <1>2, NoMember DEF Member
<1> QED
  BY <1>1, <1>2

LEMMA DocumentOfMembers ==
    ASSUME NEW v, IsObject(v), \A k \in Keys(v) : IsMember(Get(v, k))
    PROVE  IsDocument(v)
<1> SUFFICES ASSUME NEW i \in DOMAIN v.members PROVE IsMember(v.members[i][2])
  BY DEF IsDocument
<1> QED
  BY GetAt

LEMMA PayloadIs ==
    ASSUME NEW r
    PROVE  LET p == DigestPayload(r) IN
           /\ IsObject(p) /\ Keys(p) = Committed
           /\ \A k \in Committed \ Records : Get(p, k) = Get(r, k)
           /\ Get(p, "reasons") = ReasonsPayload(Get(r, "reasons"))
           /\ Get(p, "simulation") = SimulationPayload(Get(r, "simulation"))
           /\ Get(p, "execution") = ExecutionPayload(Get(r, "execution"))
<1>1. DigestPayload(r) = ReceiptOf(Get(r, "intentId"), Get(r, "intentHash"), Get(r, "policyHash"),
        Get(r, "guard"), Get(r, "chainId"), Get(r, "verdict"), ReasonsPayload(Get(r, "reasons")),
        SimulationPayload(Get(r, "simulation")), ExecutionPayload(Get(r, "execution")), Get(r, "at"))
  BY DEF DigestPayload, ReceiptOf
<1> QED
  BY <1>1, ReceiptIs DEF Committed, Records

LEMMA Hashes ==
    ASSUME NEW v, NEW w
    PROVE  /\ HashJson(v) = Throws <=> v.text = Throws
           /\ v.text # Throws /\ w.text # Throws => (HashJson(v) = HashJson(w) <=> v.text = w.text)
BY DEF HashJson, Throws

\* Equal digests, when they are digests, are of the same evidence.
LEMMA DigestTells ==
    ASSUME NEW v, NEW w, IsDocument(v), IsDocument(w), ReceiptDigest(w) # Throws
    PROVE  ReceiptDigest(v) = ReceiptDigest(w) <=> SameEvidence(v, w)
<1> DEFINE p == DigestPayload(v)
           q == DigestPayload(w)
<1>1. /\ IsObject(p) /\ Keys(p) = Committed
      /\ \A k \in Committed \ Records : Get(p, k) = Get(v, k)
      /\ Get(p, "reasons") = ReasonsPayload(Get(v, "reasons"))
      /\ Get(p, "simulation") = SimulationPayload(Get(v, "simulation"))
      /\ Get(p, "execution") = ExecutionPayload(Get(v, "execution"))
  BY PayloadIs
<1>2. /\ IsObject(q) /\ Keys(q) = Committed
      /\ \A k \in Committed \ Records : Get(q, k) = Get(w, k)
      /\ Get(q, "reasons") = ReasonsPayload(Get(w, "reasons"))
      /\ Get(q, "simulation") = SimulationPayload(Get(w, "simulation"))
      /\ Get(q, "execution") = ExecutionPayload(Get(w, "execution"))
  BY PayloadIs
<1>3. ReceiptDigest(v) = HashJson(p) /\ ReceiptDigest(w) = HashJson(q)
  BY DEF ReceiptDigest
<1> HIDE DEF p, q
<1>4. q.text # Throws
  BY <1>3, Hashes
<1>5. \A k \in Committed : Get(q, k).text # Throws
  BY <1>2, <1>4, ObjectText
<1>6. \A k : Member(Get(v, k)) /\ Member(Get(w, k))
  BY MembersOfDocument
<1>7. {"reasons", "simulation", "execution"} \subseteq Committed
  BY DEF Committed
<1>8. Get(p, "reasons").text = Get(q, "reasons").text
        <=> SameReasons(Get(v, "reasons"), Get(w, "reasons"))
  BY <1>1, <1>2, <1>5, <1>6, <1>7, ReasonsAgree
<1>9. Get(p, "simulation").text = Get(q, "simulation").text
        <=> SameRecord(Get(v, "simulation"), Get(w, "simulation"), SimulationFields)
  BY <1>1, <1>2, <1>5, <1>6, <1>7, SimulationsAgree
<1>10. Get(p, "execution").text = Get(q, "execution").text
        <=> SameRecord(Get(v, "execution"), Get(w, "execution"), ExecutionFields)
  BY <1>1, <1>2, <1>5, <1>7, ExecutionsAgree
<1>11. SameMembers(p, q, Committed \ Records) <=> SameMembers(v, w, Committed \ Records)
  BY <1>1, <1>2 DEF SameMembers
<1>12. SameMembers(p, q, Committed) <=> SameEvidence(v, w)
  <2>1. SameMembers(p, q, Committed) <=>
          /\ SameMembers(p, q, Committed \ Records)
          /\ \A k \in Records : Get(p, k).text = Get(q, k).text
    BY <1>7 DEF SameMembers, Records
  <2> QED
    BY <1>8, <1>9, <1>10, <1>11, <2>1 DEF SameEvidence, Records
<1>13. SameMembers(p, q, Committed) => p.text # Throws
  BY <1>1, <1>5, ObjectText DEF SameMembers
<1>14. p.text # Throws => (p.text = q.text <=> SameMembers(p, q, Committed))
  BY <1>1, <1>2, <1>4, OnlyTheseAgree
<1>15. p.text = q.text <=> SameEvidence(v, w)
  BY <1>4, <1>12, <1>13, <1>14
<1>16. p.text = Throws => HashJson(p) # HashJson(q)
  BY <1>4, Hashes
<1> QED
  BY <1>3, <1>4, <1>15, <1>16, Hashes
-----------------------------------------------------------------------------
(* What the gateway writes                                                 *)

LEMMA Scalars ==
    ASSUME NEW x
    PROVE  IsMember(Str(x)) /\ IsMember(Num(x)) /\ IsMember(Hex(x)) /\ IsMember(Null)
BY DEF IsMember, IsJson, Is, Str, Num, Hex, Null, Scalar, Throws

LEMMA ScalarsTell ==
    ASSUME NEW x, NEW y
    PROVE  /\ Str(x).text = Str(y).text <=> x = y
           /\ Num(x).text = Num(y).text <=> x = y
           /\ Hex(x).text = Hex(y).text <=> x = y
           /\ Hex(x) = Hex(y) <=> x = y
           /\ Str(x).text # Throws /\ Num(x).text # Throws /\ Hex(x).text # Throws
           /\ Null.text # Throws
BY DEF Str, Num, Hex, Null, Scalar, Throws

ReasonOf(code, severity, message) ==
    Obj(<<<<"code", code>>, <<"severity", severity>>, <<"message", message>>>>)

LEMMA ReasonIs ==
    ASSUME NEW code, NEW severity, NEW message
    PROVE  LET r == ReasonOf(code, severity, message) IN
           /\ IsObject(r) /\ Keys(r) = ReasonFields
           /\ Get(r, "code") = code /\ Get(r, "severity") = severity /\ Get(r, "message") = message
<1> DEFINE m == <<<<"code", code>>, <<"severity", severity>>, <<"message", message>>>>
<1>1. /\ DOMAIN m = {1, 2, 3}
      /\ m[1] = <<"code", code>> /\ m[2] = <<"severity", severity>> /\ m[3] = <<"message", message>>
  OBVIOUS
<1>2. m \in Seq({m[i] : i \in {1, 2, 3}})
  OBVIOUS
<1> HIDE DEF m
<1>3. \A i \in DOMAIN m : m[i] = <<m[i][1], m[i][2]>>
  BY <1>1
<1>4. \A i, j \in DOMAIN m : m[i][1] = m[j][1] => i = j
  BY <1>1
<1>5. {m[i][1] : i \in DOMAIN m} = ReasonFields
  BY <1>1 DEF ReasonFields
<1>6. ReasonOf(code, severity, message) = Obj(m)
  BY DEF ReasonOf, m
<1>7. IsObject(Obj(m)) /\ Keys(Obj(m)) = {m[i][1] : i \in DOMAIN m}
      /\ \A i \in DOMAIN m : Get(Obj(m), m[i][1]) = m[i][2]
  BY <1>2, <1>3, <1>4, Written
<1> QED
  BY <1>1, <1>5, <1>6, <1>7

\* A list of reasons, each with just the members of one.
AreReasons(x) ==
    /\ x.type = "array" /\ IsJson(x)
    /\ \A r \in Range(x.items) : r.type = "object" /\ Keys(r) = ReasonFields

\* Of such a list the digest leaves out nothing.
LEMMA ReasonsAreWhole ==
    ASSUME NEW x, AreReasons(x)
    PROVE  ReasonsPayload(x).text = x.text
<1> DEFINE P(v) == Pick(v, <<"code", "severity", "message">>)
           PX == [i \in DOMAIN x.items |-> P(x.items[i])]
<1>1. x = Arr(x.items) /\ x.type = "array" /\ \A i \in DOMAIN x.items : Is(x.items[i])
  BY DEF AreReasons, IsJson, Is
<1>2. \A i \in DOMAIN x.items : /\ IsObject(x.items[i]) /\ x.items[i].text # Throws
                                /\ Keys(x.items[i]) = ReasonFields
  BY <1>1 DEF AreReasons, Is, Range
<1>3. \A i \in DOMAIN x.items : /\ IsObject(P(x.items[i])) /\ Keys(P(x.items[i])) = ReasonFields
                                /\ \A k \in ReasonFields : Get(P(x.items[i]), k) = Get(x.items[i], k)
  BY Picked DEF ReasonFields
<1> HIDE DEF P
<1>4. \A i \in DOMAIN x.items : P(x.items[i]).text # Throws
  BY <1>2, <1>3, ObjectText
<1>5. \A i \in DOMAIN x.items : P(x.items[i]).text = x.items[i].text
  BY <1>2, <1>3, <1>4, ObjectsAgree
<1>6. DOMAIN PX = DOMAIN x.items /\ \A i \in DOMAIN PX : PX[i].text = x.items[i].text
  BY <1>5
<1>7. ReasonsPayload(x) = Arr(PX)
  BY <1>1 DEF ReasonsPayload, P
<1> HIDE DEF PX
<1>8. Arr(PX).text = Arr(x.items).text
  <2>1. [i \in DOMAIN PX |-> PX[i].text] = [i \in DOMAIN x.items |-> x.items[i].text]
    BY <1>6
  <2>2. (\E i \in DOMAIN PX : PX[i].text = Throws) <=> (\E i \in DOMAIN x.items : x.items[i].text = Throws)
    BY <1>6
  <2> QED
    BY <2>1, <2>2 DEF Arr
<1> QED
  BY <1>1, <1>7, <1>8

\* A simulation as authorize records it.
IsSimulation(x) ==
    \/ x = Null
    \/ /\ IsObject(x) /\ x.text # Throws
       /\ Keys(x) \subseteq SimulationFields /\ {"wouldRevert", "gasEstimate"} \subseteq Keys(x)

LEMMA ObjectIsThere ==
    ASSUME NEW x, IsObject(x), x.text # Throws
    PROVE  ~Absent(x)
<1>1. x.type = "object" /\ \E S : x.text = <<"object", S>>
  BY ObjectText
<1> QED
  BY <1>1 DEF Absent, Bool, Num, Str, Scalar

LEMMA SimulationIsWhole ==
    ASSUME NEW x, IsSimulation(x)
    PROVE  SimulationPayload(x).text = x.text
<1>1. CASE x = Null
  <2>1. Absent(x)
    BY <1>1 DEF Absent, Null, Scalar
  <2> QED
    BY <1>1, <2>1 DEF SimulationPayload
<1>2. CASE x # Null
  <2>1. /\ IsObject(x) /\ x.text # Throws /\ ~Absent(x)
        /\ Keys(x) \subseteq SimulationFields /\ {"wouldRevert", "gasEstimate"} \subseteq Keys(x)
    BY <1>2, ObjectIsThere DEF IsSimulation
  <2>2. \A k \in Keys(x) : Get(x, k).text # Throws
    BY <2>1, ObjectText
  <2>3. CASE "invariantIndex" \in Keys(x)
    <3> DEFINE p == Pick(x, <<"wouldRevert", "gasEstimate", "invariantIndex">>)
    <3>1. Keys(x) = SimulationFields
      BY <2>1, <2>3 DEF SimulationFields
    <3>2. IsObject(p) /\ Keys(p) = SimulationFields /\ \A k \in SimulationFields : Get(p, k) = Get(x, k)
      BY Picked DEF SimulationFields
    <3>3. SimulationPayload(x) = p
      BY <2>1, <2>2, <2>3 DEF SimulationPayload, Undefined
    <3> HIDE DEF p
    <3>4. p.text # Throws
      BY <2>2, <3>1, <3>2, ObjectText
    <3> QED
      BY <2>1, <3>1, <3>2, <3>3, <3>4, ObjectsAgree
  <2>4. CASE "invariantIndex" \notin Keys(x)
    <3> DEFINE p == Pick(x, <<"wouldRevert", "gasEstimate">>)
    <3>1. Keys(x) = {"wouldRevert", "gasEstimate"}
      BY <2>1, <2>4 DEF SimulationFields
    <3>2. /\ IsObject(p) /\ Keys(p) = {"wouldRevert", "gasEstimate"}
          /\ \A k \in {"wouldRevert", "gasEstimate"} : Get(p, k) = Get(x, k)
      BY PickedTwo
    <3>3. SimulationPayload(x) = p
      BY <2>1, <2>4, NoMember DEF SimulationPayload
    <3> HIDE DEF p
    <3>4. p.text # Throws
      BY <2>2, <3>1, <3>2, ObjectText
    <3> QED
      BY <2>1, <3>1, <3>2, <3>3, <3>4, ObjectsAgree
  <2> QED
    BY <2>3, <2>4
<1> QED
  BY <1>1, <1>2

\* A receipt of the gateway: its page digest is its digest.
LEMMA ReceiptIsWhole ==
    ASSUME NEW id, NEW hash, NEW policy, NEW guard, NEW chain, NEW says, NEW reasons,
           NEW sim, NEW at,
           IsMember(id), IsMember(hash), IsMember(policy), IsMember(guard), IsMember(chain), IsMember(says),
           IsMember(at),
           {id.text, hash.text, policy.text, guard.text, chain.text, says.text, at.text}
             \cap {Throws} = {},
           AreReasons(reasons), IsSimulation(sim)
    PROVE  LET v == ReceiptOf(id, hash, policy, guard, chain, says, reasons, sim, Null, at) IN
           IsDocument(v) /\ ReceiptDigest(v) # Throws /\ PageDigest(v) = ReceiptDigest(v)
<1> DEFINE v == ReceiptOf(id, hash, policy, guard, chain, says, reasons, sim, Null, at)
           p == DigestPayload(v)
<1>1. /\ IsObject(v)
      /\ Keys(v) = Committed
      /\ Get(v, "intentId") = id /\ Get(v, "intentHash") = hash
      /\ Get(v, "policyHash") = policy /\ Get(v, "guard") = guard
      /\ Get(v, "chainId") = chain /\ Get(v, "verdict") = says
      /\ Get(v, "reasons") = reasons /\ Get(v, "simulation") = sim
      /\ Get(v, "execution") = Null /\ Get(v, "at") = at
  BY ReceiptIs
<1> HIDE DEF v
<1>2. IsMember(reasons) /\ IsMember(sim) /\ IsMember(Null) /\ reasons.text # Throws
      /\ sim.text # Throws /\ Null.text # Throws
  <2>1. IsMember(reasons) /\ reasons.text # Throws
    BY DEF AreReasons, IsMember, IsJson, Is
  <2>2. IsMember(Null) /\ Null.text # Throws
    BY Scalars, ScalarsTell, SMTT(30)
  <2>3. CASE sim # Null
    <3>1. IsObject(sim) /\ sim.text # Throws /\ sim.type = "object"
      BY <2>3, ObjectText DEF IsSimulation
    <3> QED
      BY <2>1, <2>2, <3>1 DEF IsMember, IsJson, Is
  <2> QED
    BY <2>1, <2>2, <2>3, SMTT(30)
<1>3. \A k \in Committed : IsMember(Get(v, k)) /\ Get(v, k).text # Throws
  BY <1>1, <1>2 DEF Committed
<1>4. IsDocument(v)
  BY <1>1, <1>3, DocumentOfMembers
<1>5. v.text # Throws
  BY <1>1, <1>3, ObjectText
<1>6. /\ IsObject(p) /\ Keys(p) = Committed
      /\ \A k \in Committed \ Records : Get(p, k) = Get(v, k)
      /\ Get(p, "reasons") = ReasonsPayload(reasons)
      /\ Get(p, "simulation") = SimulationPayload(sim)
      /\ Get(p, "execution") = ExecutionPayload(Null)
  BY <1>1, PayloadIs
<1>7. ExecutionPayload(Null) = Null
  BY DEF ExecutionPayload, Absent, Null, Scalar
<1> HIDE DEF p
<1>8. \A k \in Committed : Get(p, k).text = Get(v, k).text
  BY <1>1, <1>6, <1>7, ReasonsAreWhole, SimulationIsWhole DEF Records
<1>9. p.text # Throws
  BY <1>3, <1>6, <1>8, ObjectText
<1>10. p.text = v.text
  BY <1>1, <1>5, <1>6, <1>8, <1>9, ObjectsAgree
<1>11. ReceiptDigest(v) # Throws /\ PageDigest(v) = ReceiptDigest(v)
  BY <1>5, <1>9, <1>10, Hashes DEF p, ReceiptDigest, PageDigest
<1> QED
  BY <1>4, <1>11 DEF v
-----------------------------------------------------------------------------
(* A document with just the members of a receipt: its text is its evidence *)

LEMMA RecordsTell ==
    ASSUME NEW x, NEW y, NEW fields, IsJson(x), IsJson(y),
           x.type = "null" \/ Has(x, fields), y.type = "null" \/ Has(y, fields)
    PROVE  x.text = y.text <=> SameRecord(x, y, fields)
<1>1. /\ x.type = "null" => x = Null /\ Absent(x)
      /\ y.type = "null" => y = Null /\ Absent(y)
  <2>1. (x.type = "null" => x = Null) /\ (y.type = "null" => y = Null)
    BY DEF IsJson, Is
  <2>2. \A v : v.type = "null" => Absent(v)
    BY DEF Absent
  <2> QED
    BY <2>1, <2>2
<1>2. /\ x.type # "null" => IsObject(x) /\ x.text # Throws /\ Keys(x) \subseteq fields
      /\ y.type # "null" => IsObject(y) /\ y.text # Throws /\ Keys(y) \subseteq fields
  BY DEF IsJson, Is, Has
<1>3. /\ x.type # "null" => ~Absent(x) /\ x.text # Null.text
      /\ y.type # "null" => ~Absent(y) /\ y.text # Null.text
  BY <1>2, ObjectIsThere, AbsentText
<1>4. x.type # "null" /\ y.type # "null" => (x.text = y.text <=> SameMembers(x, y, fields))
  BY <1>2, OnlyTheseAgree
<1> QED
  BY <1>1, <1>3, <1>4 DEF SameRecord

LEMMA ReasonsTell ==
    ASSUME NEW x, NEW y, IsJson(x), IsJson(y), x.type = "array", y.type = "array",
           \A r \in Range(x.items) : Has(r, ReasonFields),
           \A r \in Range(y.items) : Has(r, ReasonFields)
    PROVE  x.text = y.text <=> SameReasons(x, y)
<1> DEFINE TX == [i \in DOMAIN x.items |-> x.items[i].text]
           TY == [i \in DOMAIN y.items |-> y.items[i].text]
<1>1. /\ \A i \in DOMAIN x.items : IsObject(x.items[i]) /\ Keys(x.items[i]) \subseteq ReasonFields
                                   /\ x.items[i].text # Throws
      /\ \A i \in DOMAIN y.items : IsObject(y.items[i]) /\ Keys(y.items[i]) \subseteq ReasonFields
                                   /\ y.items[i].text # Throws
  BY DEF IsJson, Is, Has, Range
<1>2. \A i \in DOMAIN x.items \cap DOMAIN y.items :
        x.items[i].text = y.items[i].text <=> SameMembers(x.items[i], y.items[i], ReasonFields)
  BY <1>1, OnlyTheseAgree
<1>3. x.text = <<"array", TX>> /\ y.text = <<"array", TY>>
  <2>1. x = Arr(x.items) /\ x.text # Throws /\ y = Arr(y.items) /\ y.text # Throws
    BY DEF IsJson, Is
  <2> QED
    BY <2>1 DEF Arr
<1>4. /\ DOMAIN x.items = 1 .. Len(x.items) /\ Len(x.items) \in Nat
      /\ DOMAIN y.items = 1 .. Len(y.items) /\ Len(y.items) \in Nat
  <2>1. x.items \in Seq(Range(x.items)) /\ y.items \in Seq(Range(y.items))
    BY DEF IsJson, Is
  <2> QED
    BY <2>1
<1>5. DOMAIN x.items = DOMAIN y.items <=> Len(x.items) = Len(y.items)
  BY <1>4
<1>6. ASSUME TX = TY PROVE SameReasons(x, y)
  <2>1. DOMAIN x.items = DOMAIN y.items
    BY <1>6
  <2>2. \A i \in DOMAIN x.items : x.items[i].text = y.items[i].text
    <3> TAKE i \in DOMAIN x.items
    <3>1. TX[i] = TY[i]
      BY <1>6
    <3> QED
      BY <2>1, <3>1
  <2> QED
    BY <1>2, <1>5, <2>1, <2>2 DEF SameReasons
<1>7. ASSUME SameReasons(x, y) PROVE TX = TY
  <2>1. DOMAIN x.items = DOMAIN y.items
    BY <1>5, <1>7 DEF SameReasons
  <2>2. \A i \in DOMAIN x.items : x.items[i].text = y.items[i].text
    BY <1>2, <1>7, <2>1 DEF SameReasons
  <2> QED
    BY <2>1, <2>2
<1> HIDE DEF TX, TY
<1> QED
  BY <1>3, <1>6, <1>7

LEMMA ShapedTells ==
    ASSUME NEW v, NEW w, IsDocument(v), IsDocument(w), Shaped(v), Shaped(w),
           v.text # Throws, w.text # Throws
    PROVE  v.text = w.text <=> SameEvidence(v, w)
<1>1. /\ IsObject(v) /\ Keys(v) = Committed
      /\ IsObject(w) /\ Keys(w) = Committed
  BY DEF IsDocument, Shaped
<1>2. \A k \in Committed : IsJson(Get(v, k)) /\ IsJson(Get(w, k))
  <2> TAKE k \in Committed
  <2>1. Get(v, k).text # Throws /\ Get(w, k).text # Throws
    BY <1>1, ObjectText
  <2>2. Member(Get(v, k)) /\ Member(Get(w, k))
    BY MembersOfDocument
  <2> QED
    BY <2>1, <2>2 DEF Member, IsMember, Undefined, Infinite
<1>3. "reasons" \in Committed /\ "simulation" \in Committed /\ "execution" \in Committed
  BY DEF Committed
<1>4. Get(v, "reasons").text = Get(w, "reasons").text
        <=> SameReasons(Get(v, "reasons"), Get(w, "reasons"))
  BY <1>2, <1>3, ReasonsTell DEF Shaped
<1>5. Get(v, "simulation").text = Get(w, "simulation").text
        <=> SameRecord(Get(v, "simulation"), Get(w, "simulation"), SimulationFields)
  BY <1>2, <1>3, RecordsTell DEF Shaped
<1>6. Get(v, "execution").text = Get(w, "execution").text
        <=> SameRecord(Get(v, "execution"), Get(w, "execution"), ExecutionFields)
  BY <1>2, <1>3, RecordsTell DEF Shaped
<1>7. SameMembers(v, w, Committed) <=>
        /\ SameMembers(v, w, Committed \ Records)
        /\ \A k \in Records : Get(v, k).text = Get(w, k).text
  BY <1>3 DEF SameMembers, Records
<1>8. SameMembers(v, w, Committed) <=> SameEvidence(v, w)
  BY <1>4, <1>5, <1>6, <1>7 DEF SameEvidence, Records
<1>9. v.text = w.text <=> SameMembers(v, w, Committed)
  BY <1>1, OnlyTheseAgree
<1> QED
  BY <1>8, <1>9
-----------------------------------------------------------------------------
(* The receipts of the gateway, and those that stand for an intent         *)

LEMMA ArrayIs ==
    ASSUME NEW items, items \in Seq(Range(items)), \A i \in DOMAIN items : Is(items[i])
    PROVE  /\ IsJson(Arr(items)) /\ Arr(items).type = "array" /\ Arr(items).items = items
           /\ Arr(items).text # Throws
<1>1. Arr(items).type = "array" /\ Arr(items).items = items
  BY DEF Arr
<1>2. Arr(items).text # Throws
  <2>1. \A i \in DOMAIN items : items[i].text # Throws
    BY DEF Is
  <2> QED
    BY <2>1 DEF Arr, Throws
<1> QED
  BY <1>1, <1>2 DEF IsJson, Is

\* hashIntent: the receipt that stands for an intent.
Stand(i) ==
    ReceiptOf(Str(i.id), Str("0x"), Str("0x"), Str("0x"), Num(i.chainId), Str("ALLOW"),
              Arr([k \in DOMAIN i.calls |->
                     ReasonOf(Str(i.calls[k].target), Str("deny"),
                              Hex(Message(i.calls[k])))]),
              Null, Null, Str(i.submittedAt))

LEMMA HashIntentIs == ASSUME NEW i PROVE HashIntent(i) = ReceiptDigest(Stand(i))
BY DEF HashIntent, Stand, ReceiptOf, ReasonOf

LEMMA CallsAreReasons ==
    ASSUME NEW i \in Submitted
    PROVE  LET items == [k \in DOMAIN i.calls |->
                           ReasonOf(Str(i.calls[k].target), Str("deny"),
                                    Hex(Message(i.calls[k])))] IN
           AreReasons(Arr(items)) /\ Arr(items).items = items
<1> DEFINE R(k) == ReasonOf(Str(i.calls[k].target), Str("deny"),
                            Hex(Message(i.calls[k])))
           items == [k \in DOMAIN i.calls |-> R(k)]
<1>1. \A k : /\ IsObject(R(k)) /\ Keys(R(k)) = ReasonFields
             /\ Get(R(k), "code") = Str(i.calls[k].target) /\ Get(R(k), "severity") = Str("deny")
             /\ Get(R(k), "message") = Hex(Message(i.calls[k]))
  BY ReasonIs
<1> HIDE DEF R
<1>2. \A k : R(k).text # Throws /\ R(k).type = "object"
  <2> TAKE k
  <2>1. \A x : Str(x).text # Throws /\ Hex(x).text # Throws
    BY ScalarsTell
  <2>3. \A f \in ReasonFields : Get(R(k), f).text # Throws
    BY <1>1, <2>1 DEF ReasonFields
  <2>2. \A v : IsObject(v) => /\ v.type = "object"
                              /\ v.text = Throws <=> \E f \in Keys(v) : Get(v, f).text = Throws
    BY ObjectText
  <2> QED
    BY <1>1, <2>2, <2>3
<1>3. \A k : Is(R(k))
  BY <1>1, <1>2 DEF Is
<1>4. items \in Seq(Range(items))
  <2>1. i.calls \in Seq(Range(i.calls))
    BY EvidenceConstants
  <2>2. DOMAIN i.calls = 1 .. Len(i.calls) /\ Len(i.calls) \in Nat
    BY <2>1
  <2>3. \A k \in DOMAIN i.calls : R(k) \in Range(items)
    BY DEF Range
  <2> QED
    BY <2>2, <2>3
<1>5. DOMAIN items = DOMAIN i.calls /\ \A k \in DOMAIN items : items[k] = R(k)
  OBVIOUS
<1> HIDE DEF items
<1>6. IsJson(Arr(items)) /\ Arr(items).type = "array" /\ Arr(items).items = items
  BY <1>3, <1>4, <1>5, ArrayIs
<1>7. \A r \in Range(items) : r.type = "object" /\ Keys(r) = ReasonFields
  BY <1>1, <1>2, <1>5 DEF Range
<1>8. AreReasons(Arr(items)) /\ Arr(items).items = items
  BY <1>6, <1>7 DEF AreReasons
<1> QED
  BY <1>8 DEF items, R

LEMMA StandIs ==
    ASSUME NEW i \in Submitted
    PROVE  IsDocument(Stand(i)) /\ ReceiptDigest(Stand(i)) # Throws
<1> DEFINE reasons == Arr([k \in DOMAIN i.calls |->
                             ReasonOf(Str(i.calls[k].target), Str("deny"),
                                      Hex(Message(i.calls[k])))])
<1>1. AreReasons(reasons)
  BY CallsAreReasons
<1>2. Stand(i) = ReceiptOf(Str(i.id), Str("0x"), Str("0x"), Str("0x"), Num(i.chainId), Str("ALLOW"),
                           reasons, Null, Null, Str(i.submittedAt))
  BY DEF Stand
<1> HIDE DEF reasons
<1>3. /\ IsMember(Str(i.id)) /\ IsMember(Str("0x")) /\ IsMember(Num(i.chainId)) /\ IsMember(Str("ALLOW"))
      /\ IsMember(Str(i.submittedAt))
  BY Scalars
<1>4. {Str(i.id).text, Str("0x").text, Str("0x").text, Str("0x").text, Num(i.chainId).text,
       Str("ALLOW").text, Str(i.submittedAt).text} \cap {Throws} = {}
  BY ScalarsTell
<1>5. IsSimulation(Null)
  BY DEF IsSimulation
<1> QED
  BY <1>1, <1>2, <1>3, <1>4, <1>5, ReceiptIsWhole

\* What is joined with a colon can be taken apart at the first one.
LEMMA JoinsTell ==
    ASSUME NEW S, NEW v \in Seq(S), NEW d \in Seq(S), NEW w \in Seq(S), NEW e \in Seq(S),
           ":" \in S, ":" \notin Range(v), ":" \notin Range(w),
           v \o <<":">> \o d = w \o <<":">> \o e
    PROVE  v = w /\ d = e
<1> DEFINE x == v \o <<":">> \o d
           y == w \o <<":">> \o e
<1>1. /\ Len(v) \in Nat /\ Len(w) \in Nat /\ Len(d) \in Nat /\ Len(e) \in Nat
      /\ DOMAIN v = 1 .. Len(v) /\ DOMAIN w = 1 .. Len(w)
  OBVIOUS
<1>2. /\ \A k \in 1 .. Len(v) : x[k] = v[k] /\ v[k] # ":"
      /\ x[Len(v) + 1] = ":"
      /\ Len(x) = Len(v) + 1 + Len(d)
      /\ \A k \in 1 .. Len(d) : x[Len(v) + 1 + k] = d[k]
  BY DEF Range
<1>3. /\ \A k \in 1 .. Len(w) : y[k] = w[k] /\ w[k] # ":"
      /\ y[Len(w) + 1] = ":"
      /\ Len(y) = Len(w) + 1 + Len(e)
      /\ \A k \in 1 .. Len(e) : y[Len(w) + 1 + k] = e[k]
  BY DEF Range
<1>4. x = y
  OBVIOUS
<1> HIDE DEF x, y
<1>5. Len(v) = Len(w)
  <2>1. ~(Len(v) < Len(w))
    BY <1>1, <1>2, <1>3, <1>4, SMTT(30)
  <2>2. ~(Len(w) < Len(v))
    BY <1>1, <1>2, <1>3, <1>4
  <2>3. \A m, n \in Nat : ~(m < n) /\ ~(n < m) => m = n
    OBVIOUS
  <2>4. Len(v) \in Nat /\ Len(w) \in Nat
    OBVIOUS
  <2> QED
    BY <2>1, <2>2, <2>3, <2>4
<1>6. Len(d) = Len(e)
  BY <1>1, <1>2, <1>3, <1>4, <1>5
<1>7. \A k \in 1 .. Len(v) : v[k] = w[k]
  BY <1>2, <1>3, <1>4, <1>5
<1>8. \A k \in 1 .. Len(d) : d[k] = e[k]
  BY <1>1, <1>2, <1>3, <1>4, <1>5, <1>6
<1> QED
  BY <1>5, <1>6, <1>7, <1>8, SeqEqual

\* No two calls that can be decided on have one message.
LEMMA MessagesTell ==
    ASSUME NEW i \in Submitted, NEW j \in Submitted, NEW c \in Range(i.calls), NEW b \in Range(j.calls)
    PROVE  Message(c) = Message(b) <=> c.value = b.value /\ c.data = b.data
<1> DEFINE S == Range(c.value) \cup Range(c.data) \cup Range(b.value) \cup Range(b.data) \cup {":"}
<1>1. /\ c.value \in Seq(Range(c.value)) /\ c.data \in Seq(Range(c.data))
      /\ b.value \in Seq(Range(b.value)) /\ b.data \in Seq(Range(b.data))
  BY EvidenceConstants
<1>2. c.value \in Seq(S) /\ c.data \in Seq(S) /\ b.value \in Seq(S) /\ b.data \in Seq(S) /\ ":" \in S
  BY <1>1
<1>3. ":" \notin Range(c.value) /\ ":" \notin Range(b.value)
  BY ValuesAreSummed
<1> HIDE DEF S
<1> QED
  BY <1>2, <1>3, JoinsTell DEF Message

\* The hash of an intent stands for its calls, its chain and its time.
LEMMA HashTells ==
    ASSUME NEW i \in Submitted, NEW j \in Submitted
    PROVE  HashIntent(i) = HashIntent(j)
             <=> i.id = j.id /\ i.chainId = j.chainId /\ i.calls = j.calls /\ i.submittedAt = j.submittedAt
<1> DEFINE items(x) == [k \in DOMAIN x.calls |->
                          ReasonOf(Str(x.calls[k].target), Str("deny"),
                                   Hex(Message(x.calls[k])))]
<1>1. HashIntent(i) = HashIntent(j) <=> SameEvidence(Stand(i), Stand(j))
  BY HashIntentIs, StandIs, DigestTells
<1>2. \A x : /\ Get(Stand(x), "intentId") = Str(x.id) /\ Get(Stand(x), "intentHash") = Str("0x")
             /\ Get(Stand(x), "policyHash") = Str("0x") /\ Get(Stand(x), "guard") = Str("0x")
             /\ Get(Stand(x), "chainId") = Num(x.chainId) /\ Get(Stand(x), "verdict") = Str("ALLOW")
             /\ Get(Stand(x), "reasons") = Arr(items(x))
             /\ Get(Stand(x), "simulation") = Null /\ Get(Stand(x), "execution") = Null
             /\ Get(Stand(x), "at") = Str(x.submittedAt)
  BY ReceiptIs DEF Stand
<1>3. Committed \ Records = {"intentId", "intentHash", "policyHash", "guard", "chainId", "verdict", "at"}
  BY DEF Committed, Records
<1>4. SameMembers(Stand(i), Stand(j), Committed \ Records)
        <=> i.id = j.id /\ i.chainId = j.chainId /\ i.submittedAt = j.submittedAt
  <2>1. \A x, y : (Str(x).text = Str(y).text <=> x = y) /\ (Num(x).text = Num(y).text <=> x = y)
    BY ScalarsTell
  <2>2. SameMembers(Stand(i), Stand(j), Committed \ Records)
          <=> /\ Str(i.id).text = Str(j.id).text /\ Num(i.chainId).text = Num(j.chainId).text
              /\ Str(i.submittedAt).text = Str(j.submittedAt).text
    BY <1>2, <1>3 DEF SameMembers
  <2> QED
    BY <2>1, <2>2
<1>5. SameRecord(Null, Null, SimulationFields) /\ SameRecord(Null, Null, ExecutionFields)
  BY DEF SameRecord, Absent, Null, Scalar
<1>6. \A x \in Submitted : Arr(items(x)).type = "array" /\ Arr(items(x)).items = items(x)
  BY CallsAreReasons DEF AreReasons
<1>7. /\ DOMAIN i.calls = 1 .. Len(i.calls) /\ Len(i.calls) \in Nat
      /\ DOMAIN j.calls = 1 .. Len(j.calls) /\ Len(j.calls) \in Nat
  <2>1. i.calls \in Seq(Range(i.calls)) /\ j.calls \in Seq(Range(j.calls))
    BY EvidenceConstants
  <2> QED
    BY <2>1
<1>8. Len(items(i)) = Len(i.calls) /\ Len(items(j)) = Len(j.calls)
  BY <1>7
<1>9. \A k \in DOMAIN i.calls \cap DOMAIN j.calls :
        SameMembers(items(i)[k], items(j)[k], ReasonFields) <=> i.calls[k] = j.calls[k]
  <2> HIDE DEF items
  <2> SUFFICES ASSUME NEW k \in DOMAIN i.calls \cap DOMAIN j.calls
               PROVE  SameMembers(items(i)[k], items(j)[k], ReasonFields) <=> i.calls[k] = j.calls[k]
    OBVIOUS
  <2>1. /\ i.calls[k] = [target |-> i.calls[k].target, value |-> i.calls[k].value,
                         data |-> i.calls[k].data]
        /\ j.calls[k] = [target |-> j.calls[k].target, value |-> j.calls[k].value,
                         data |-> j.calls[k].data]
    <3>1. i.calls[k] \in Range(i.calls) /\ j.calls[k] \in Range(j.calls)
      BY DEF Range
    <3> QED
      BY <3>1, EvidenceConstants
  <2>2. \A x \in {i, j} :
          /\ Get(items(x)[k], "code") = Str(x.calls[k].target)
          /\ Get(items(x)[k], "severity") = Str("deny")
          /\ Get(items(x)[k], "message") = Hex(Message(x.calls[k]))
    BY ReasonIs DEF items
  <2>3. SameMembers(items(i)[k], items(j)[k], ReasonFields)
          <=> /\ i.calls[k].target = j.calls[k].target
              /\ Message(i.calls[k]) = Message(j.calls[k])
    BY <2>2, ScalarsTell DEF SameMembers, ReasonFields
  <2>4. Message(i.calls[k]) = Message(j.calls[k])
          <=> i.calls[k].value = j.calls[k].value /\ i.calls[k].data = j.calls[k].data
    <3>1. i.calls[k] \in Range(i.calls) /\ j.calls[k] \in Range(j.calls)
      BY DEF Range
    <3> QED
      BY <3>1, MessagesTell
  <2> QED
    BY <2>1, <2>3, <2>4
<1>10. SameReasons(Arr(items(i)), Arr(items(j))) <=> i.calls = j.calls
  <2>1. SameReasons(Arr(items(i)), Arr(items(j))) <=>
          /\ Len(i.calls) = Len(j.calls)
          /\ \A k \in DOMAIN items(i) : SameMembers(items(i)[k], items(j)[k], ReasonFields)
    BY <1>6, <1>8 DEF SameReasons
  <2>2. i.calls = j.calls <=> Len(i.calls) = Len(j.calls) /\ \A k \in DOMAIN i.calls : i.calls[k] = j.calls[k]
    <3>1. i.calls \in Seq(Range(i.calls)) /\ j.calls \in Seq(Range(j.calls))
      BY EvidenceConstants
    <3>2. ASSUME Len(i.calls) = Len(j.calls), \A k \in DOMAIN i.calls : i.calls[k] = j.calls[k]
          PROVE  i.calls = j.calls
      <4>1. i.calls = [k \in 1 .. Len(i.calls) |-> i.calls[k]]
        BY <1>7, <3>1
      <4>2. j.calls = [k \in 1 .. Len(i.calls) |-> j.calls[k]]
        BY <1>7, <3>1, <3>2
      <4> QED
        BY <1>7, <3>2, <4>1, <4>2
    <3> QED
      BY <3>2
  <2>3. DOMAIN items(i) = DOMAIN i.calls
    OBVIOUS
  <2> HIDE DEF items
  <2> QED
    BY <1>7, <1>9, <2>1, <2>2, <2>3
<1> HIDE DEF items
<1> QED
  BY <1>1, <1>2, <1>4, <1>5, <1>10 DEF SameEvidence

\* authorize: the receipt of a decision on an intent.
Receipt(i, d) ==
    ReceiptOf(Str(i.id), Hex(HashIntent(i)), Str("policy"), Str("guard"), Num(i.chainId),
              Str(d.verdict), Arr(d.reasons), d.simulation, Null, Str("now"))

LEMMA DecisionIs ==
    ASSUME NEW d \in Decisions
    PROVE  AreReasons(Arr(d.reasons)) /\ IsSimulation(d.simulation)
<1>1. Arr(d.reasons).type = "array" /\ Arr(d.reasons).items = d.reasons
  BY DEF Arr
<1>2. AreReasons(Arr(d.reasons))
  BY <1>1, EvidenceConstants DEF AreReasons
<1>3. IsSimulation(d.simulation)
  BY EvidenceConstants DEF IsSimulation, Has, IsJson, Is
<1> QED
  BY <1>2, <1>3

LEMMA ReceiptStands ==
    ASSUME NEW i \in Submitted, NEW d \in Decisions
    PROVE  LET v == Receipt(i, d) IN
           /\ IsDocument(v) /\ v.type = "object" /\ Shaped(v) /\ v.text # Throws
           /\ Get(v, "intentHash") = Hex(HashIntent(i)) /\ Get(v, "guard") = Str("guard")
           /\ ReceiptDigest(v) # Throws /\ PageDigest(v) = ReceiptDigest(v)
<1> DEFINE v == Receipt(i, d)
           hash == HashIntent(i)
<1>1. AreReasons(Arr(d.reasons)) /\ IsSimulation(d.simulation)
  BY DecisionIs
<1>2. /\ IsMember(Str(i.id)) /\ IsMember(Hex(hash)) /\ IsMember(Str("policy")) /\ IsMember(Str("guard"))
      /\ IsMember(Num(i.chainId)) /\ IsMember(Str(d.verdict)) /\ IsMember(Str("now"))
  BY Scalars
<1>3. {Str(i.id).text, Hex(hash).text, Str("policy").text, Str("guard").text, Num(i.chainId).text,
       Str(d.verdict).text, Str("now").text} \cap {Throws} = {}
  BY ScalarsTell
<1>4. v = ReceiptOf(Str(i.id), Hex(hash), Str("policy"), Str("guard"), Num(i.chainId),
                    Str(d.verdict), Arr(d.reasons), d.simulation, Null, Str("now"))
  BY DEF Receipt
<1> HIDE DEF v, hash
<1>5. IsDocument(v) /\ ReceiptDigest(v) # Throws /\ PageDigest(v) = ReceiptDigest(v)
  BY <1>1, <1>2, <1>3, <1>4, ReceiptIsWhole
<1>6. /\ IsObject(v) /\ Keys(v) = Committed
      /\ Get(v, "intentHash") = Hex(hash) /\ Get(v, "guard") = Str("guard")
      /\ Get(v, "reasons") = Arr(d.reasons) /\ Get(v, "simulation") = d.simulation
      /\ Get(v, "execution") = Null
  BY <1>4, ReceiptIs
<1>7. v.type = "object"
  BY <1>6, ObjectText
<1>8. v.text # Throws
  BY <1>5, Hashes DEF PageDigest
<1>9. Shaped(v)
  <2>1. Null.type = "null"
    BY DEF Null, Scalar
  <2>2. d.simulation = Null \/ Has(d.simulation, SimulationFields)
    BY <1>1, ObjectText DEF IsSimulation, Has
  <2>3. Arr(d.reasons).type = "array" /\ \A r \in Range(Arr(d.reasons).items) : Has(r, ReasonFields)
    BY <1>1 DEF AreReasons, Has
  <2> QED
    BY <1>6, <2>1, <2>2, <2>3 DEF Shaped
<1> QED
  BY <1>5, <1>6, <1>7, <1>8, <1>9 DEF v, hash
-----------------------------------------------------------------------------
(* Rewriting a document                                                    *)

\* Every member of the one is a member of the other, or has the value x.
Drawn(w, v, x) ==
    /\ IsObject(w) /\ w.type = "object"
    /\ \A i \in DOMAIN w.members :
         w.members[i][2] = x \/ \E j \in DOMAIN v.members : w.members[i][2] = v.members[j][2]

LEMMA DrawnDocument ==
    ASSUME NEW v, NEW w, NEW x, IsDocument(v), IsMember(x), Drawn(w, v, x)
    PROVE  IsDocument(w) /\ w.type = "object"
BY DEF Drawn, IsDocument

LEMMA DrawnText ==
    ASSUME NEW v, NEW w, NEW x, IsObject(v), v.text # Throws, x.text # Throws, Drawn(w, v, x)
    PROVE  Is(w)
<1>1. \A i \in DOMAIN v.members : v.members[i][2].text # Throws
  BY ObjectText, GetAt
<1>2. \A i \in DOMAIN w.members : w.members[i][2].text # Throws
  BY <1>1 DEF Drawn
<1>3. IsObject(w) /\ w.type = "object"
  BY DEF Drawn
<1>4. w.text # Throws
  BY <1>2, <1>3, ObjectText, KeyAt
<1> QED
  BY <1>3, <1>4 DEF Is

LEMMA MembersAre ==
    ASSUME NEW v, IsObject(v)
    PROVE  /\ DOMAIN v.members = 1 .. Len(v.members) /\ Len(v.members) \in Nat
           /\ v.members \in Seq(Range(v.members))
           /\ \A i \in DOMAIN v.members : v.members[i] = <<v.members[i][1], v.members[i][2]>>
           /\ \A i, j \in DOMAIN v.members : v.members[i][1] = v.members[j][1] => i = j
<1>1. v.members \in Seq(Range(v.members))
  BY DEF IsObject
<1>2. DOMAIN v.members = 1 .. Len(v.members) /\ Len(v.members) \in Nat
  BY <1>1
<1> QED
  BY <1>1, <1>2 DEF IsObject

LEMMA WithIs ==
    ASSUME NEW v, IsObject(v), NEW key, NEW x
    PROVE  Drawn(With(v, key, x), v, x)
<1> DEFINE o == v.members
           n == Len(o)
<1>1. /\ DOMAIN o = 1 .. n /\ n \in Nat /\ o \in Seq(Range(o))
      /\ \A i \in DOMAIN o : o[i] = <<o[i][1], o[i][2]>>
      /\ \A i, j \in DOMAIN o : o[i][1] = o[j][1] => i = j
  BY MembersAre
<1>2. \A m : Obj(m).type = "object" /\ Obj(m).members = m
  BY DEF Obj
<1>3. CASE key \in Keys(v)
  <2> DEFINE p == Place(o, key)
             m == [o EXCEPT ![p] = <<key, x>>]
  <2>1. p \in DOMAIN o /\ o[p][1] = key
    BY <1>3, KeyAt
  <2> HIDE DEF p
  <2>2. DOMAIN m = 1 .. n /\ \A i \in 1 .. n : m[i] = IF i = p THEN <<key, x>> ELSE o[i]
    BY <1>1
  <2>3. m \in Seq({m[i] : i \in 1 .. n})
    <3>1. m \in Seq(Range(o) \cup {<<key, x>>})
      BY <1>1, <2>1
    <3>2. Len(m) = n
      BY <1>1, <2>2, <3>1
    <3> HIDE DEF m
    <3> QED
      BY <1>1, <2>2, <3>1, <3>2
  <2> HIDE DEF m
  <2>4. \A i \in DOMAIN m : m[i] = <<m[i][1], m[i][2]>> /\ m[i][1] = o[i][1]
    BY <1>1, <2>1, <2>2
  <2>5. \A i, j \in DOMAIN m : m[i][1] = m[j][1] => i = j
    BY <1>1, <2>2, <2>4
  <2>6. IsObject(Obj(m))
    BY <2>3, <2>4, <2>5, Written
  <2>7. \A i \in DOMAIN m : m[i][2] = x \/ m[i][2] = o[i][2]
    BY <2>2
  <2>8. With(v, key, x) = Obj(m)
    BY <1>3 DEF With, m, p
  <2> QED
    BY <1>1, <1>2, <2>2, <2>6, <2>7, <2>8 DEF Drawn
<1>4. CASE key \notin Keys(v)
  <2> DEFINE m == Append(o, <<key, x>>)
  <2>1. /\ DOMAIN m = 1 .. n + 1 /\ m[n + 1] = <<key, x>>
        /\ \A i \in 1 .. n : m[i] = o[i]
    BY <1>1
  <2>2. m \in Seq({m[i] : i \in 1 .. n + 1})
    <3>1. m \in Seq(Range(o) \cup {<<key, x>>})
      BY <1>1
    <3>2. Len(m) = n + 1
      BY <1>1
    <3> HIDE DEF m
    <3> QED
      BY <1>1, <2>1, <3>1, <3>2
  <2> HIDE DEF m
  <2>3. \A i \in DOMAIN o : o[i][1] # key
    BY <1>4 DEF Keys
  <2>4. \A i \in DOMAIN m : m[i] = <<m[i][1], m[i][2]>>
    BY <1>1, <2>1
  <2>5. \A i \in 1 .. n + 1 : i \in 1 .. n \/ i = n + 1
    BY <1>1
  <2>6. \A i, j \in DOMAIN m : m[i][1] = m[j][1] => i = j
    BY <1>1, <2>1, <2>3, <2>5
  <2>7. IsObject(Obj(m))
    BY <2>2, <2>4, <2>6, Written
  <2>8. \A i \in DOMAIN m : m[i][2] = x \/ \E j \in DOMAIN o : m[i][2] = o[j][2]
    BY <1>1, <2>1, <2>5
  <2>9. With(v, key, x) = Obj(m)
    BY <1>4 DEF With, m
  <2> QED
    BY <1>2, <2>7, <2>8, <2>9 DEF Drawn
<1> QED
  BY <1>3, <1>4

LEMMA WithoutIs ==
    ASSUME NEW v, IsObject(v), NEW key \in Keys(v), NEW x
    PROVE  Drawn(Without(v, key), v, x)
<1> DEFINE o == v.members
           n == Len(o)
           p == Place(o, key)
           m == RemoveAt(o, p)
           from(i) == IF i < p THEN i ELSE i + 1
<1>1. /\ DOMAIN o = 1 .. n /\ n \in Nat /\ o \in Seq(Range(o))
      /\ \A i \in DOMAIN o : o[i] = <<o[i][1], o[i][2]>>
      /\ \A i, j \in DOMAIN o : o[i][1] = o[j][1] => i = j
  BY MembersAre
<1>2. \A s : Obj(s).type = "object" /\ Obj(s).members = s
  BY DEF Obj
<1>3. p \in 1 .. n
  BY <1>1, KeyAt
<1>4. Without(v, key) = Obj(m)
  BY DEF Without
<1> HIDE DEF p
<1>5. /\ m \in Seq(Range(o)) /\ Len(m) = n - 1
      /\ \A i \in 1 .. n - 1 : m[i] = o[from(i)]
  <2> DEFINE a == SubSeq(o, 1, p - 1)
             b == SubSeq(o, p + 1, n)
  <2>1. a \in Seq(Range(o)) /\ Len(a) = p - 1 /\ \A i \in 1 .. p - 1 : a[i] = o[i]
    BY <1>1, <1>3
  <2>2. b \in Seq(Range(o)) /\ Len(b) = n - p /\ \A i \in 1 .. n - p : b[i] = o[p + i]
    <3>1. b \in Seq(Range(o)) /\ Len(b) = n - p
      BY <1>1, <1>3
    <3>2. \A i \in 1 .. n - p : b[i] = o[(p + 1) + i - 1]
      BY <1>1, <1>3
    <3> QED
      BY <1>1, <1>3, <3>1, <3>2
  <2>3. m = a \o b
    BY DEF RemoveAt
  <2> HIDE DEF a, b
  <2>4. m \in Seq(Range(o)) /\ Len(m) = n - 1
    BY <1>1, <1>3, <2>1, <2>2, <2>3
  <2>5. ASSUME NEW i \in 1 .. n - 1 PROVE m[i] = o[from(i)]
    <3>1. CASE i < p
      BY <1>1, <1>3, <2>1, <2>2, <2>3, <3>1
    <3>2. CASE ~ (i < p)
      <4>1. m[i] = b[i - (p - 1)]
        BY <1>1, <1>3, <2>1, <2>2, <2>3, <3>2
      <4>2. i - (p - 1) \in 1 .. n - p /\ p + (i - (p - 1)) = i + 1
        BY <1>1, <1>3, <3>2
      <4> QED
        BY <2>2, <3>2, <4>1, <4>2
    <3> QED
      BY <3>1, <3>2
  <2> QED
    BY <2>4, <2>5
<1> HIDE DEF m
<1>6. DOMAIN m = 1 .. n - 1 /\ \A i \in 1 .. n - 1 : from(i) \in 1 .. n
  BY <1>1, <1>3, <1>5
<1>7. \A i, j \in 1 .. n - 1 : from(i) = from(j) => i = j
  BY <1>1, <1>3
<1> HIDE DEF from
<1>8. \A i \in DOMAIN m : m[i] = <<m[i][1], m[i][2]>>
  BY <1>1, <1>5, <1>6
<1>9. \A i, j \in DOMAIN m : m[i][1] = m[j][1] => i = j
  <2> TAKE i, j \in DOMAIN m
  <2>1. from(i) \in DOMAIN o /\ from(j) \in DOMAIN o /\ m[i] = o[from(i)] /\ m[j] = o[from(j)]
    BY <1>1, <1>5, <1>6
  <2>2. m[i][1] = m[j][1] => from(i) = from(j)
    BY <1>1, <2>1
  <2> QED
    BY <1>6, <1>7, <2>2
<1>10. IsObject(Obj(m))
  BY <1>5, <1>8, <1>9, Written
<1>11. \A i \in DOMAIN m : \E j \in DOMAIN o : m[i][2] = o[j][2]
  BY <1>1, <1>5, <1>6
<1> QED
  BY <1>2, <1>4, <1>10, <1>11 DEF Drawn

LEMMA ReversedIs ==
    ASSUME NEW v, IsObject(v), NEW x
    PROVE  Drawn(Obj(Reverse(v.members)), v, x)
<1> DEFINE o == v.members
           n == Len(o)
           m == Reverse(o)
<1>1. /\ DOMAIN o = 1 .. n /\ n \in Nat /\ o \in Seq(Range(o))
      /\ \A i \in DOMAIN o : o[i] = <<o[i][1], o[i][2]>>
      /\ \A i, j \in DOMAIN o : o[i][1] = o[j][1] => i = j
  BY MembersAre
<1>2. \A s : Obj(s).type = "object" /\ Obj(s).members = s
  BY DEF Obj
<1>3. m = [i \in 1 .. n |-> o[(n - i) + 1]]
  BY DEF Reverse
<1>4. \A i \in 1 .. n : (n - i) + 1 \in 1 .. n
  BY <1>1
<1> HIDE DEF m
<1>5. m \in Seq(Range(o))
  <2>1. \A i \in 1 .. n : o[(n - i) + 1] \in Range(o)
    BY <1>1, <1>4 DEF Range
  <2> QED
    BY <1>1, <1>3, <2>1
<1>6. DOMAIN m = 1 .. n /\ \A i \in 1 .. n : m[i] = o[(n - i) + 1]
  BY <1>3
<1>7. \A i \in DOMAIN m : m[i] = <<m[i][1], m[i][2]>>
  BY <1>1, <1>4, <1>6
<1>8. \A i, j \in DOMAIN m : m[i][1] = m[j][1] => i = j
  <2> TAKE i, j \in DOMAIN m
  <2> DEFINE k == (n - i) + 1
             l == (n - j) + 1
  <2>1. k \in DOMAIN o /\ l \in DOMAIN o /\ m[i] = o[k] /\ m[j] = o[l]
    BY <1>1, <1>4, <1>6
  <2>2. m[i][1] = m[j][1] => k = l
    <3> HIDE DEF k, l
    <3> QED
      BY <1>1, <2>1
  <2>3. m[i][1] = m[j][1] => (n - i) + 1 = (n - j) + 1
    BY <2>2
  <2> QED
    BY <1>1, <1>6, <2>3
<1>9. IsObject(Obj(m))
  BY <1>5, <1>7, <1>8, Written
<1>10. \A i \in DOMAIN m : \E j \in DOMAIN o : m[i][2] = o[j][2]
  BY <1>1, <1>4, <1>6
<1> QED
  BY <1>2, <1>9, <1>10 DEF Drawn, m

LEMMA ArrayOf ==
    ASSUME NEW S, \A x \in S : Is(x), NEW items \in Seq(S)
    PROVE  IsJson(Arr(items))
<1>1. DOMAIN items = 1 .. Len(items) /\ Len(items) \in Nat /\ \A i \in DOMAIN items : items[i] \in S
  OBVIOUS
<1>2. items \in Seq(Range(items))
  BY DEF Range
<1>3. \A i \in DOMAIN items : Is(items[i])
  BY <1>1
<1> QED
  BY <1>2, <1>3, ArrayIs

\* A list of reasons stays well made when one of them is rewritten.
LEMMA EditedIs ==
    ASSUME IsDocument(copy), NEW i \in DOMAIN Items, NEW items \in EditedItems(i)
    PROVE  IsJson(Arr(items))
<1> DEFINE x == Get(copy, "reasons")
           o == Items
           S == Range(o)
<1>1. x.type = "array"
  BY DEF Items
<1>2. Member(x) /\ o = x.items
  BY <1>1, MembersOfDocument DEF Items
<1> HIDE DEF o, x
<1>3. o \in Seq(S) /\ \A k \in DOMAIN o : Is(o[k])
  BY <1>1, <1>2 DEF Member, IsMember, IsJson, Is, Undefined, Infinite
<1>4. \A y \in S : Is(y)
  BY <1>3 DEF Range
<1>5. i \in DOMAIN o /\ o[i] \in S /\ DOMAIN o = 1 .. Len(o) /\ Len(o) \in Nat
  BY <1>3 DEF o, Range
<1> HIDE DEF S
<1>6. o \o <<o[i]>> \in Seq(S) /\ RemoveAt(o, i) \in Seq(S)
  BY <1>3, <1>5 DEF RemoveAt
<1>7. CASE items \in {o \o <<o[i]>>, RemoveAt(o, i)}
  BY <1>4, <1>6, <1>7, ArrayOf
<1>8. CASE items \notin {o \o <<o[i]>>, RemoveAt(o, i)}
  <2>1. PICK key \in ReasonFields \cup {"detail"} :
          o[i].type = "object" /\ items = [o EXCEPT ![i] = With(o[i], key, Str("other"))]
    BY <1>8 DEF EditedItems, o
  <2> DEFINE w == With(o[i], key, Str("other"))
  <2>2. IsObject(o[i]) /\ o[i].text # Throws
    BY <1>3, <1>5, <2>1 DEF Is
  <2>3. Drawn(w, o[i], Str("other")) /\ Str("other").text # Throws
    BY <2>2, WithIs, ScalarsTell
  <2>4. Is(w)
    BY <2>2, <2>3, DrawnText
  <2> HIDE DEF w
  <2>5. items \in Seq(S \cup {w})
    BY <1>3, <1>5, <2>1 DEF w
  <2> QED
    BY <1>4, <2>4, <2>5, ArrayOf
<1> QED
  BY <1>7, <1>8

\* The mark of the anchoring script.
LEMMA AnchorIs == IsMember(Obj(<<<<"leafIndex", Num(0)>>, <<"root", Str("root")>>>>))
<1> DEFINE m == <<<<"leafIndex", Num(0)>>, <<"root", Str("root")>>>>
<1>1. DOMAIN m = {1, 2} /\ m[1] = <<"leafIndex", Num(0)>> /\ m[2] = <<"root", Str("root")>>
  OBVIOUS
<1>2. m \in Seq({m[i] : i \in {1, 2}})
  OBVIOUS
<1> HIDE DEF m
<1>3. IsObject(Obj(m)) /\ Obj(m).members = m /\ Obj(m).type = "object"
  <2>1. \A i \in DOMAIN m : m[i] = <<m[i][1], m[i][2]>>
    BY <1>1
  <2>2. \A i, j \in DOMAIN m : m[i][1] = m[j][1] => i = j
    BY <1>1
  <2>3. Obj(m).members = m /\ Obj(m).type = "object"
    BY DEF Obj
  <2> QED
    BY <1>2, <2>1, <2>2, <2>3, Written
<1>4. \A i \in DOMAIN m : m[i][2].text # Throws
  BY <1>1, ScalarsTell
<1>5. Obj(m).text # Throws
  BY <1>3, <1>4, ObjectText, KeyAt
<1> QED
  BY <1>3, <1>5 DEF IsMember, IsJson, Is, m
-----------------------------------------------------------------------------
(* The properties                                                          *)

DecidedInv ==
    \/ decided = Undefined /\ digest = NoDigest /\ stored = Undefined /\ copy = Undefined
    \/ /\ \E d \in Decisions : decided = Receipt(intent, d)
       /\ digest = ReceiptDigest(decided)

CopiesInv ==
    /\ stored = Undefined \/ (IsDocument(stored) /\ stored.type = "object")
    /\ copy = Undefined \/ (IsDocument(copy) /\ copy.type = "object")

\* The page shows the digest of the text that is in it.
PageInv ==
    page.state = "done" =>
        copy.type = "object" /\ page.digest = PageDigest(copy) /\ page.digest # Throws

EvidenceInv == intent \in Submitted /\ DecidedInv /\ CopiesInv /\ PageInv

LEMMA DecidedIs ==
    ASSUME EvidenceInv, decided.type # "undefined"
    PROVE  /\ IsDocument(decided) /\ decided.type = "object" /\ Shaped(decided)
           /\ decided.text # Throws /\ digest = ReceiptDigest(decided) /\ digest # Throws
           /\ digest = PageDigest(decided) /\ digest # NoDigest
<1>1. PICK d \in Decisions : decided = Receipt(intent, d) /\ digest = ReceiptDigest(decided)
  BY DEF EvidenceInv, DecidedInv, Undefined
<1>2. /\ IsDocument(decided) /\ decided.type = "object" /\ Shaped(decided) /\ decided.text # Throws
      /\ digest # Throws /\ PageDigest(decided) = ReceiptDigest(decided)
  BY <1>1, ReceiptStands DEF EvidenceInv
<1>3. digest # NoDigest
  BY <1>1, <1>2 DEF ReceiptDigest, HashJson, NoDigest, Throws
<1> QED
  BY <1>1, <1>2, <1>3

LEMMA CopyIs ==
    ASSUME EvidenceInv, copy.type = "object"
    PROVE  IsDocument(copy) /\ decided.type # "undefined"
<1>1. copy # Undefined
  BY DEF Undefined
<1>2. IsDocument(copy) /\ \E d \in Decisions : decided = Receipt(intent, d)
  BY <1>1 DEF EvidenceInv, CopiesInv, DecidedInv
<1>3. decided.type = "object"
  BY <1>2, ReceiptStands DEF EvidenceInv
<1> QED
  BY <1>2, <1>3

LEMMA EvidenceStarts == EvidenceInit => EvidenceInv
BY DEF EvidenceInit, EvidenceInv, DecidedInv, CopiesInv, PageInv, Idle

LEMMA RewriteKeeps ==
    ASSUME EvidenceInv, NEW document, Rewrite(document), IsDocument(document),
           document.type = "object"
    PROVE  EvidenceInv'
<1>1. /\ UNCHANGED <<intent, decided, digest, stored>>
      /\ copy' = document /\ copy.type = "object" /\ page' = Idle
  BY DEF Rewrite, Typed
<1>2. DecidedInv'
  <2>1. copy # Undefined
    BY <1>1 DEF Undefined
  <2> QED
    BY <1>1, <2>1 DEF EvidenceInv, DecidedInv
<1>3. CopiesInv'
  <2>1. stored' = Undefined \/ (IsDocument(stored') /\ stored'.type = "object")
    BY <1>1 DEF EvidenceInv, CopiesInv
  <2>2. IsDocument(copy') /\ copy'.type = "object"
    BY <1>1
  <2> QED
    BY <2>1, <2>2 DEF CopiesInv
<1>4. PageInv'
  BY <1>1 DEF PageInv, Idle
<1> QED
  BY <1>1, <1>2, <1>3, <1>4 DEF EvidenceInv

LEMMA EvidenceSteps == EvidenceInv /\ [EvidenceNext]_evidenceVars => EvidenceInv'
<1> SUFFICES ASSUME EvidenceInv, [EvidenceNext]_evidenceVars PROVE EvidenceInv'
  OBVIOUS
<1>1. ASSUME NEW d \in Decisions, Finish(d) PROVE EvidenceInv'
  <2>1. decided = Undefined /\ stored = Undefined /\ copy = Undefined
    <3>1. decided.type = "undefined"
      BY <1>1 DEF Finish
    <3>2. ~ \E e \in Decisions : decided = Receipt(intent, e)
      BY <3>1, ReceiptStands DEF EvidenceInv
    <3> QED
      BY <3>2 DEF EvidenceInv, DecidedInv
  <2>2. decided' = Receipt(intent, d) /\ digest' = ReceiptDigest(decided')
    BY <1>1 DEF Finish, Receipt, ReceiptOf
  <2>3. UNCHANGED <<intent, stored, copy, page>>
    BY <1>1 DEF Finish
  <2>4. DecidedInv'
    BY <2>2, <2>3 DEF DecidedInv
  <2>5. CopiesInv' /\ PageInv'
    BY <2>1, <2>3 DEF EvidenceInv, CopiesInv, PageInv, Undefined
  <2> QED
    BY <2>3, <2>4, <2>5 DEF EvidenceInv
<1>2. ASSUME Put PROVE EvidenceInv'
  <2>1. decided.type = "object" /\ UNCHANGED <<intent, decided, digest, copy, page>>
    BY <1>2 DEF Put
  <2>2. decided # Undefined /\ IsDocument(decided)
    <3>1. decided.type # "undefined"
      BY <2>1
    <3> QED
      BY <3>1, DecidedIs DEF Undefined
  <2> DEFINE document == With(decided, "digest", Hex(digest))
  <2>3. IsDocument(document) /\ document.type = "object"
    <3>1. Drawn(document, decided, Hex(digest)) /\ IsMember(Hex(digest))
      BY <2>2, WithIs, Scalars DEF IsDocument
    <3> QED
      BY <2>2, <3>1, DrawnDocument
  <2>4. PICK written \in {document.members, Reverse(document.members)} : stored' = Obj(written)
    BY <1>2 DEF Put
  <2> HIDE DEF document
  <2>5. IsDocument(stored') /\ stored'.type = "object"
    <3>1. document = Obj(document.members)
      BY <2>3 DEF IsDocument, IsObject
    <3>2. Drawn(Obj(Reverse(document.members)), document, Null) /\ IsMember(Null)
      BY <2>3, ReversedIs, Scalars DEF IsDocument
    <3>3. IsDocument(Obj(Reverse(document.members))) /\ Obj(Reverse(document.members)).type = "object"
      BY <2>3, <3>2, DrawnDocument
    <3> QED
      BY <2>3, <2>4, <3>1, <3>3
  <2>6. DecidedInv'
    BY <2>1, <2>2 DEF EvidenceInv, DecidedInv
  <2>7. copy' = Undefined \/ (IsDocument(copy') /\ copy'.type = "object")
    BY <2>1 DEF EvidenceInv, CopiesInv
  <2>8. PageInv'
    BY <2>1 DEF EvidenceInv, PageInv
  <2> QED
    BY <2>1, <2>5, <2>6, <2>7, <2>8 DEF EvidenceInv, CopiesInv
<1>3. ASSUME Mark PROVE EvidenceInv'
  <2> DEFINE anchor == Obj(<<<<"leafIndex", Num(0)>>, <<"root", Str("root")>>>>)
  <2>1. /\ stored.type = "object" /\ UNCHANGED <<intent, decided, digest, copy, page>>
        /\ stored' = With(stored, "anchor", anchor)
    BY <1>3 DEF Mark
  <2>2. IsMember(anchor)
    BY AnchorIs
  <2> HIDE DEF anchor
  <2>3. stored # Undefined
    BY <2>1 DEF Undefined
  <2>4. IsDocument(stored)
    BY <2>3 DEF EvidenceInv, CopiesInv
  <2>5. Drawn(stored', stored, anchor)
    BY <2>1, <2>4, WithIs DEF IsDocument
  <2>6. IsDocument(stored') /\ stored'.type = "object"
    BY <2>2, <2>4, <2>5, DrawnDocument
  <2>7. DecidedInv'
    BY <2>1, <2>3 DEF EvidenceInv, DecidedInv
  <2>8. copy' = Undefined \/ (IsDocument(copy') /\ copy'.type = "object")
    BY <2>1 DEF EvidenceInv, CopiesInv
  <2>9. PageInv'
    BY <2>1 DEF EvidenceInv, PageInv
  <2> QED
    BY <2>1, <2>6, <2>7, <2>8, <2>9 DEF EvidenceInv, CopiesInv
<1>4. ASSUME HandOut PROVE EvidenceInv'
  <2>1. PICK document \in {decided, stored} : document.type = "object" /\ copy' = document
    BY <1>4 DEF HandOut
  <2>2. UNCHANGED <<intent, decided, digest, stored>> /\ page' = Idle
    BY <1>4 DEF HandOut, Typed
  <2>3. document # Undefined
    BY <2>1 DEF Undefined
  <2>4. ~ (decided = Undefined /\ stored = Undefined)
    BY <2>1, <2>3
  <2>5. \E d \in Decisions : decided = Receipt(intent, d)
    BY <2>4 DEF EvidenceInv, DecidedInv
  <2>6. IsDocument(decided) /\ decided.type = "object" /\ decided # Undefined
    BY <2>5, ReceiptStands DEF EvidenceInv, Undefined
  <2>7. IsDocument(document)
    BY <2>3, <2>6 DEF EvidenceInv, CopiesInv
  <2>8. DecidedInv'
    BY <2>2, <2>6 DEF EvidenceInv, DecidedInv
  <2>9. stored' = Undefined \/ (IsDocument(stored') /\ stored'.type = "object")
    BY <2>2 DEF EvidenceInv, CopiesInv
  <2>10. PageInv'
    BY <2>2 DEF PageInv, Idle
  <2> QED
    BY <2>1, <2>2, <2>7, <2>8, <2>9, <2>10 DEF EvidenceInv, CopiesInv
<1>5. ASSUME EditField PROVE EvidenceInv'
  <2>1. PICK key \in DOMAIN Values : \E v \in Values[key] : Rewrite(With(copy, key, v))
    BY <1>5 DEF EditField
  <2>2. PICK v \in Values[key] : Rewrite(With(copy, key, v))
    BY <2>1
  <2>3. IsMember(v)
    BY EvidenceConstants DEF IsMember
  <2>4. IsDocument(copy)
    BY <2>2, CopyIs DEF Rewrite
  <2>5. Drawn(With(copy, key, v), copy, v)
    BY <2>4, WithIs DEF IsDocument
  <2> QED
    BY <2>2, <2>3, <2>4, <2>5, DrawnDocument, RewriteKeeps
<1>6. ASSUME DropField PROVE EvidenceInv'
  <2>1. PICK key \in Keys(copy) : copy.type = "object" /\ Rewrite(Without(copy, key))
    BY <1>6 DEF DropField
  <2>2. IsDocument(copy)
    BY <2>1, CopyIs
  <2>3. Drawn(Without(copy, key), copy, Null) /\ IsMember(Null)
    BY <2>2, WithoutIs, Scalars DEF IsDocument
  <2> QED
    BY <2>1, <2>2, <2>3, DrawnDocument, RewriteKeeps
<1>7. ASSUME Reorder PROVE EvidenceInv'
  <2>1. copy.type = "object" /\ Rewrite(Obj(Reverse(copy.members)))
    BY <1>7 DEF Reorder
  <2>2. IsDocument(copy)
    BY <2>1, CopyIs
  <2>3. Drawn(Obj(Reverse(copy.members)), copy, Null) /\ IsMember(Null)
    BY <2>2, ReversedIs, Scalars DEF IsDocument
  <2> QED
    BY <2>1, <2>2, <2>3, DrawnDocument, RewriteKeeps
<1>8. ASSUME EditReasons PROVE EvidenceInv'
  <2>1. copy.type = "object"
    BY <1>8 DEF EditReasons
  <2>2. PICK i \in DOMAIN Items : \E items \in EditedItems(i) : Rewrite(With(copy, "reasons", Arr(items)))
    BY <1>8 DEF EditReasons
  <2>3. PICK items \in EditedItems(i) : Rewrite(With(copy, "reasons", Arr(items)))
    BY <2>2
  <2>4. IsDocument(copy)
    BY <2>1, CopyIs
  <2>5. IsMember(Arr(items))
    BY <2>4, EditedIs DEF IsMember
  <2>6. Drawn(With(copy, "reasons", Arr(items)), copy, Arr(items))
    BY <2>4, WithIs DEF IsDocument
  <2> QED
    BY <2>3, <2>4, <2>5, <2>6, DrawnDocument, RewriteKeeps
<1>9. ASSUME ComputeOnPage PROVE EvidenceInv'
  <2>1. copy.type = "object" /\ UNCHANGED <<intent, decided, digest, stored, copy>>
    BY <1>9 DEF ComputeOnPage
  <2>2. page' = IF PageDigest(copy) = Throws THEN [state |-> "error", digest |-> NoDigest]
                ELSE [state |-> "done", digest |-> PageDigest(copy)]
    BY <1>9 DEF ComputeOnPage
  <2>3. PageInv'
    <3>1. page'.state = "done" => page'.digest = PageDigest(copy) /\ PageDigest(copy) # Throws
      BY <2>2
    <3> QED
      BY <2>1, <3>1 DEF PageInv
  <2> QED
    BY <2>1, <2>3 DEF EvidenceInv, DecidedInv, CopiesInv
<1>10. ASSUME ComputeInApp PROVE EvidenceInv'
  <2>1. UNCHANGED <<intent, decided, digest, stored, copy, page>>
    BY <1>10 DEF ComputeInApp
  <2> QED
    BY <2>1 DEF EvidenceInv, DecidedInv, CopiesInv, PageInv
<1>11. ASSUME UNCHANGED evidenceVars PROVE EvidenceInv'
  BY <1>11 DEF evidenceVars, EvidenceInv, DecidedInv, CopiesInv, PageInv
<1> QED
  BY <1>1, <1>2, <1>3, <1>4, <1>5, <1>6, <1>7, <1>8, <1>9, <1>10, <1>11 DEF EvidenceNext

LEMMA EvidenceHolds == EvidenceSpec => []EvidenceInv
BY EvidenceStarts, EvidenceSteps, PTL DEF EvidenceSpec

\* Whatever is submitted, decided and written into a handed-out document, the
\* gateway says yes to it exactly when it says what was decided.
THEOREM TheDigestIsTheEvidence == EvidenceSpec => []DigestIsTheEvidence
<1>1. EvidenceInv => DigestIsTheEvidence
  <2> SUFFICES ASSUME EvidenceInv, copy.type = "object"
               PROVE  (GatewayVerify(copy, digest).matches = "yes") = SameEvidence(copy, decided)
    BY DEF DigestIsTheEvidence
  <2>1. IsDocument(copy) /\ decided.type # "undefined"
    BY CopyIs
  <2>2. IsDocument(decided) /\ digest = ReceiptDigest(decided) /\ digest # Throws /\ digest # NoDigest
    BY <2>1, DecidedIs
  <2>3. ReceiptDigest(copy) = digest <=> SameEvidence(copy, decided)
    BY <2>1, <2>2, DigestTells
  <2>4. GatewayVerify(copy, digest).matches = "yes" <=> ReceiptDigest(copy) = digest
    BY <2>2 DEF GatewayVerify
  <2> QED
    BY <2>3, <2>4 DEF SameEvidence
<1> QED
  BY <1>1, EvidenceHolds, PTL

\* The page's digest is the stored one exactly for a text that says what was
\* decided, when it has the members of a receipt.
LEMMA PageTells ==
    ASSUME NEW v, NEW w, IsDocument(v), IsDocument(w), Shaped(v), Shaped(w),
           PageDigest(v) # Throws, PageDigest(w) # Throws
    PROVE  PageDigest(v) = PageDigest(w) <=> SameEvidence(v, w)
<1>1. v.text # Throws /\ w.text # Throws
  BY Hashes DEF PageDigest
<1>2. v.text = w.text <=> SameEvidence(v, w)
  BY <1>1, ShapedTells
<1> QED
  BY <1>1, <1>2, Hashes DEF PageDigest

\* The routes of gateway and dashboard compute one digest for any document; the
\* two pages' digest of one with the members of a receipt is the stored digest
\* exactly when it says what was decided, whatever was typed before.
THEOREM TheVerifiersAgree == EvidenceSpec => VerifiersAgree
<1> DEFINE Step ==
      /\ copy'.type = "object" =>
           DashboardVerify(copy').digest = GatewayVerify(copy', NoDigest).digest
      /\ page'.state = "done" /\ Shaped(copy') =>
           (page'.digest = digest) = SameEvidence(copy', decided)
      /\ app' \in {"MATCH", "MISMATCH"} \ {app} /\ Shaped(copy) =>
           (app' = "MATCH") = SameEvidence(copy, decided)
<1>1. EvidenceInv /\ EvidenceInv' /\ [EvidenceNext]_evidenceVars => Step
  <2> SUFFICES ASSUME EvidenceInv, EvidenceInv', [EvidenceNext]_evidenceVars PROVE Step
    OBVIOUS
  <2>1. ASSUME copy'.type = "object"
        PROVE  DashboardVerify(copy').digest = GatewayVerify(copy', NoDigest).digest
    BY <2>1 DEF DashboardVerify, GatewayVerify
  <2>2. ASSUME page'.state = "done", Shaped(copy')
        PROVE  (page'.digest = digest) = SameEvidence(copy', decided)
    <3>1. copy'.type = "object" /\ page'.digest = PageDigest(copy') /\ page'.digest # Throws
      BY <2>2 DEF EvidenceInv, PageInv
    <3>2. decided.type # "undefined"
      <4>1. ASSUME decided.type = "undefined" PROVE copy'.type # "object"
        <5>1. copy = Undefined /\ stored = Undefined
          <6>1. ~ \E d \in Decisions : decided = Receipt(intent, d)
            BY <4>1, ReceiptStands DEF EvidenceInv
          <6> QED
            BY <6>1 DEF EvidenceInv, DecidedInv
        <5>2. copy.type # "object" /\ stored.type # "object" /\ decided.type # "object"
          BY <4>1, <5>1 DEF Undefined
        <5> QED
          BY <5>2 DEF EvidenceNext, Finish, Put, Mark, HandOut, EditField, DropField, Reorder,
            EditReasons, Rewrite, ComputeOnPage, ComputeInApp, evidenceVars
      <4> QED
        BY <3>1, <4>1
    <3>3. IsDocument(decided) /\ Shaped(decided) /\ digest = PageDigest(decided) /\ digest # Throws
      BY <3>2, DecidedIs
    <3>4. IsDocument(copy')
      BY <3>1 DEF EvidenceInv, CopiesInv, Undefined
    <3>5. PageDigest(copy') = digest <=> SameEvidence(copy', decided)
      BY <2>2, <3>1, <3>3, <3>4, PageTells
    <3> QED
      BY <3>1, <3>5 DEF SameEvidence
  <2>3. ASSUME app' \in {"MATCH", "MISMATCH"} \ {app}, Shaped(copy)
        PROVE  (app' = "MATCH") = SameEvidence(copy, decided)
    <3>1. ComputeInApp
      BY <2>3 DEF EvidenceNext, Finish, Put, Mark, HandOut, EditField, DropField, Reorder,
        EditReasons, Rewrite, ComputeOnPage, evidenceVars
    <3>2. copy.type = "object"
      BY <3>1 DEF ComputeInApp
    <3>3. PICK claimed \in {NoDigest, digest} :
            app' = IF PageDigest(copy) = Throws THEN "error"
                   ELSE IF claimed = NoDigest THEN "digest"
                   ELSE IF PageDigest(copy) = claimed THEN "MATCH" ELSE "MISMATCH"
      BY <3>1 DEF ComputeInApp
    <3>4. PageDigest(copy) # Throws /\ claimed = digest
          /\ (app' = "MATCH" <=> PageDigest(copy) = digest)
      BY <2>3, <3>3
    <3>5. IsDocument(copy) /\ decided.type # "undefined"
      BY <3>2, CopyIs
    <3>6. IsDocument(decided) /\ Shaped(decided) /\ digest = PageDigest(decided) /\ digest # Throws
      BY <3>5, DecidedIs
    <3>7. PageDigest(copy) = digest <=> SameEvidence(copy, decided)
      BY <2>3, <3>4, <3>5, <3>6, PageTells
    <3> QED
      BY <3>4, <3>7 DEF SameEvidence
  <2> QED
    BY <2>1, <2>2, <2>3
<1>2. VerifiersAgree <=> [][Step]_evidenceVars
  BY DEF VerifiersAgree
<1> HIDE DEF Step
<1>3. EvidenceSpec => [][Step]_evidenceVars
  BY <1>1, EvidenceHolds, PTL DEF EvidenceSpec
<1> QED
  BY <1>2, <1>3

\* The receipt of a decision carries the hash of its intent, which is that of another
\* intent just when id, chain, time and calls are the same: value and data of a call
\* can be told apart although they are joined, and invariants and wording cannot; and
\* the digest of the receipt is the hash of no intent.
THEOREM ReceiptsNameTheirCalls == EvidenceSpec => ReceiptNamesItsCalls
<1> DEFINE Same(i) == /\ i.id = intent.id /\ i.chainId = intent.chainId
                      /\ i.submittedAt = intent.submittedAt /\ i.calls = intent.calls
           Step ==
             decided' # decided =>
               \A i \in Submitted :
                 LET hash == HashIntent(i) IN
                 /\ (Hex(hash) = Get(decided', "intentHash")) = Same(i)
                 /\ hash # digest'
<1>1. EvidenceInv /\ [EvidenceNext]_evidenceVars => Step
  <2> SUFFICES ASSUME EvidenceInv, [EvidenceNext]_evidenceVars, decided' # decided,
                      NEW i \in Submitted
               PROVE  /\ (Hex(HashIntent(i)) = Get(decided', "intentHash")) = Same(i)
                      /\ HashIntent(i) # digest'
    OBVIOUS
  <2>1. PICK d \in Decisions : Finish(d)
    BY DEF EvidenceNext, Put, Mark, HandOut, EditField, DropField, Reorder, EditReasons, Rewrite,
      ComputeOnPage, ComputeInApp, evidenceVars
  <2>2. decided' = Receipt(intent, d) /\ digest' = ReceiptDigest(decided')
    BY <2>1 DEF Finish, Receipt, ReceiptOf
  <2>3. intent \in Submitted
    BY DEF EvidenceInv
  <2> DEFINE v == Receipt(intent, d)
  <2>4. /\ IsDocument(v) /\ Get(v, "intentHash") = Hex(HashIntent(intent))
        /\ Get(v, "guard") = Str("guard") /\ ReceiptDigest(v) # Throws
    BY <2>3, ReceiptStands
  <2> HIDE DEF v
  <2>5. Hex(HashIntent(i)) = Get(v, "intentHash") <=> HashIntent(i) = HashIntent(intent)
    BY <2>4, ScalarsTell
  <2>6. HashIntent(i) = HashIntent(intent) <=> Same(i)
    BY <2>3, HashTells
  <2>7. HashIntent(i) # ReceiptDigest(v)
    <3>1. IsDocument(Stand(i)) /\ HashIntent(i) = ReceiptDigest(Stand(i))
      BY StandIs, HashIntentIs
    <3>2. Get(Stand(i), "guard") = Str("0x")
      BY ReceiptIs DEF Stand
    <3>3. Str("0x").text # Str("guard").text
      BY DEF Str, Scalar
    <3>4. ~ SameEvidence(Stand(i), v)
      BY <2>4, <3>2, <3>3 DEF SameEvidence, SameMembers, Committed, Records
    <3> QED
      BY <2>4, <3>1, <3>4, DigestTells
  <2> QED
    BY <2>2, <2>5, <2>6, <2>7 DEF v
<1>2. ReceiptNamesItsCalls <=> [][Step]_evidenceVars
  BY DEF ReceiptNamesItsCalls
<1> HIDE DEF Step
<1>3. EvidenceSpec => [][Step]_evidenceVars
  BY <1>1, EvidenceHolds, PTL DEF EvidenceSpec
<1> QED
  BY <1>2, <1>3
=============================================================================
