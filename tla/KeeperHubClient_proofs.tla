----------------------- MODULE KeeperHubClient_proofs -----------------------
(***************************************************************************)
(* Theorems about KeeperHubClient, for every set of sends, every retry     *)
(* budget and every way to queue them: types, the ledger of KeeperHub as   *)
(* the client's keys shape it, and mutual exclusion of a target's sends.   *)
(***************************************************************************)
EXTENDS KeeperHubClient, TLAPS

\* An attempt is only begun while the budget lasts.
AttemptInv ==
    \A s \in Sends :
        /\ phase[s] \in {"idle", "queued"} => attempt[s] = 0
        /\ phase[s] = "backoff" => attempt[s] < MaxAttempts

TypeInv == TypeOK /\ AttemptInv
-----------------------------------------------------------------------------
(* Types                                                                   *)

LEMMA RespondType ==
    ASSUME TypeOK, NEW s, NEW n, NEW a \in Answers, Respond(s, n, a)
    PROVE  answer' \in [Sends -> Answers \cup {"none"}]
BY DEF TypeOK, Respond

LEMMA TransmitType ==
    ASSUME TypeInv, NEW s \in Sends, attempt[s] < MaxAttempts, Transmit(s),
           UNCHANGED <<previous, tail, ledger, crashed>>
    PROVE  TypeInv'
<1>1. MaxAttempts \in Nat /\ attempt[s] + 1 \in Attempts /\ attempt[s] + 1 \in 0 .. MaxAttempts
  BY ClientConstants DEF TypeInv, TypeOK, Attempts
<1>2. attempt' = [attempt EXCEPT ![s] = attempt[s] + 1] /\ attempt'[s] = attempt[s] + 1
  BY DEF Transmit, TypeInv, TypeOK
<1>3. wire' \subseteq Sends \X Attempts
  BY <1>1, <1>2 DEF Transmit, TypeInv, TypeOK
<1>4. phase' = [phase EXCEPT ![s] = "flying"] /\ answer' = [answer EXCEPT ![s] = "none"]
  BY DEF Transmit, Goes
<1>5. TypeOK'
  BY <1>1, <1>2, <1>3, <1>4 DEF TypeInv, TypeOK, Running
<1>6. AttemptInv'
  BY <1>2, <1>4 DEF TypeInv, TypeOK, AttemptInv
<1> QED
  BY <1>5, <1>6 DEF TypeInv

LEMMA SettleType ==
    ASSUME TypeInv, NEW s \in Sends, NEW outcome \in Outcomes, Settle(s, outcome),
           UNCHANGED <<previous, tail, wire, ledger, crashed>>
    PROVE  TypeInv'
<1>1. MaxAttempts \in Nat /\ 0 \in 0 .. MaxAttempts
  BY ClientConstants
<1>2. TypeOK'
  BY <1>1 DEF Settle, Goes, TypeInv, TypeOK
<1>3. AttemptInv'
  BY DEF Settle, Goes, TypeInv, TypeOK, AttemptInv, Outcomes
<1> QED
  BY <1>2, <1>3 DEF TypeInv

LEMMA RetryOrThrowType ==
    ASSUME TypeInv, NEW s \in Sends, NEW outcome \in Outcomes, RetryOrThrow(s, outcome),
           UNCHANGED <<previous, tail, wire, ledger, crashed>>
    PROVE  TypeInv'
<1>1. CASE attempt[s] = MaxAttempts
  BY <1>1, SettleType DEF RetryOrThrow
<1>2. CASE attempt[s] # MaxAttempts
  <2>1. attempt[s] < MaxAttempts
    BY <1>2, ClientConstants DEF TypeInv, TypeOK
  <2>2. TypeOK'
    BY <1>2 DEF RetryOrThrow, Goes, TypeInv, TypeOK, Running
  <2>3. AttemptInv'
    BY <1>2, <2>1 DEF RetryOrThrow, Goes, TypeInv, TypeOK, AttemptInv
  <2> QED
    BY <2>2, <2>3 DEF TypeInv
<1> QED
  BY <1>1, <1>2

LEMMA HandleType ==
    ASSUME TypeInv, NEW s \in Sends, Handle(s)
    PROVE  TypeInv'
<1>1. answer[s] \in Answers
  BY DEF Handle, TypeInv, TypeOK
<1>2. CASE answer[s] = "ok"
  BY <1>2, SettleType DEF Handle, Outcomes
<1>3. CASE answer[s] \in {"wouldRevert", "conflict", "refused"}
  BY <1>3, SettleType DEF Handle, Outcomes
<1>4. CASE answer[s] \in {"inProgress", "unwell"}
  BY <1>4, RetryOrThrowType DEF Handle, Outcomes
<1> QED
  BY <1>1, <1>2, <1>3, <1>4 DEF Answers

LEMMA TakeUpType ==
    ASSUME TypeInv, NEW s \in Sends, NEW n \in Attempts, TakeUp(s, n)
    PROVE  TypeInv'
<1>1. CASE EntriesFor(s, n) = {}
  <2> DEFINE e == [key |-> KeyOfAttempt(s, n), body |-> Body[s],
                   status |-> "running", waiter |-> <<s, n>>]
  <2>1. e.key \in {KeyOfAttempt(t, m) : t \in Sends, m \in Attempts}
    OBVIOUS
  <2>2. e.body \in Bodies
    BY DEF Bodies
  <2>3. e \in Entry
    BY <2>1, <2>2 DEF Entry
  <2>4. ledger' = ledger \cup {e} /\ answer' = answer
    BY <1>1 DEF TakeUp
  <2>5. TypeOK'
    BY <2>3, <2>4 DEF TakeUp, TypeInv, TypeOK
  <2> QED
    BY <2>5 DEF TakeUp, TypeInv, AttemptInv
<1>2. CASE EntriesFor(s, n) # {}
  <2>1. PICK e \in EntriesFor(s, n) :
          Respond(s, n, IF e.body # Body[s] THEN "conflict"
                        ELSE IF e.status = "done" THEN "ok" ELSE "inProgress")
    BY <1>2 DEF TakeUp
  <2>2. answer' \in [Sends -> Answers \cup {"none"}]
    BY <2>1, RespondType DEF Answers, TypeInv
  <2> QED
    BY <1>2, <2>2 DEF TakeUp, TypeInv, TypeOK, AttemptInv
<1> QED
  BY <1>1, <1>2

LEMMA TurnAwayType ==
    ASSUME TypeInv, NEW s \in Sends, NEW n \in Attempts, TurnAway(s, n)
    PROVE  TypeInv'
<1>1. answer' \in [Sends -> Answers \cup {"none"}]
  BY RespondType DEF TurnAway, Answers, TypeInv
<1> QED
  BY <1>1 DEF TurnAway, TypeInv, TypeOK, AttemptInv

LEMMA LedgerStepType ==
    ASSUME TypeInv, NEW e \in ledger, Complete(e) \/ Abandon(e)
    PROVE  TypeInv'
<1>1. [e EXCEPT !.status = "done", !.waiter = <<>>] \in Entry
  <2> DEFINE K == {KeyOfAttempt(s, n) : s \in Sends, n \in Attempts}
             W == (Sends \X Attempts) \cup {<<>>}
  <2>1. e \in [key : K, body : Bodies, status : {"running", "done"}, waiter : W]
    BY DEF TypeInv, TypeOK, Entry
  <2>2. <<>> \in W
    OBVIOUS
  <2> HIDE DEF K, W
  <2>3. [e EXCEPT !.status = "done", !.waiter = <<>>]
          \in [key : K, body : Bodies, status : {"running", "done"}, waiter : W]
    BY <2>1, <2>2
  <2> QED
    BY <2>3 DEF K, W, Entry
<1>2. ledger' \subseteq Entry
  BY <1>1 DEF Complete, Abandon, TypeInv, TypeOK
<1>3. answer' \in [Sends -> Answers \cup {"none"}]
  BY RespondType DEF Complete, Abandon, Answers, TypeInv
<1> QED
  BY <1>2, <1>3 DEF Complete, Abandon, TypeInv, TypeOK, AttemptInv

LEMMA TypeStep ==
    ASSUME TypeInv, Next
    PROVE  TypeInv'
<1>1. ASSUME NEW s \in Sends, Enqueue(s) PROVE TypeInv'
  <2>1. Target[s] \in Targets
    BY DEF Targets
  <2> QED
    BY <1>1, <2>1 DEF Enqueue, TypeInv, TypeOK, AttemptInv
<1>2. ASSUME NEW s \in Sends, Client(s) PROVE TypeInv'
  <2>1. CASE Start(s)
    <3>1. attempt[s] < MaxAttempts
      BY <2>1, ClientConstants DEF Start, TypeInv, AttemptInv
    <3> QED
      BY <2>1, <3>1, TransmitType DEF Start
  <2>2. CASE RefusedByCircuit(s)
    BY <2>2, SettleType DEF RefusedByCircuit, Outcomes
  <2>3. CASE TransportFails(s)
    BY <2>3, RetryOrThrowType DEF TransportFails, Outcomes
  <2>4. CASE Handle(s)
    BY <2>4, HandleType
  <2>5. CASE Retry(s)
    BY <2>5, TransmitType DEF Retry, TypeInv, AttemptInv
  <2> QED
    BY <1>2, <2>1, <2>2, <2>3, <2>4, <2>5 DEF Client
<1>3. CASE Crash
  <2>1. 0 \in 0 .. MaxAttempts
    BY ClientConstants
  <2>2. phase' \in [Sends -> {"idle", "queued"} \cup Running \cup Outcomes]
    BY <1>3 DEF Crash, TypeInv, TypeOK, Outcomes
  <2>3. TypeOK'
    BY <1>3, <2>1, <2>2 DEF Crash, TypeInv, TypeOK
  <2>4. AttemptInv'
    BY <1>3, ClientConstants DEF Crash, TypeInv, TypeOK, AttemptInv, Running
  <2> QED
    BY <2>3, <2>4 DEF TypeInv
<1>4. CASE KeeperHub
  BY <1>4, TakeUpType, TurnAwayType, LedgerStepType DEF KeeperHub
<1> QED
  BY <1>1, <1>2, <1>3, <1>4 DEF Next

LEMMA TypeInvHolds == Spec => []TypeInv
<1>1. Init => TypeInv
  <2> SUFFICES ASSUME Init PROVE TypeInv
    OBVIOUS
  <2>1. 0 \in 0 .. MaxAttempts
    BY ClientConstants
  <2>2. TypeOK
    BY <2>1 DEF Init, TypeOK
  <2>3. AttemptInv
    BY DEF Init, AttemptInv
  <2> QED
    BY <2>2, <2>3 DEF TypeInv
<1>2. TypeInv /\ [Next]_vars => TypeInv'
  <2>1. ASSUME TypeInv, UNCHANGED vars PROVE TypeInv'
    BY <2>1 DEF TypeInv, TypeOK, AttemptInv, vars
  <2> QED
    BY <2>1, TypeStep
<1> QED
  BY <1>1, <1>2, PTL DEF Spec

\* The client's fields and KeeperHub's ledger stay in their types; in
\* particular no send makes more than maxAttempts attempts.
THEOREM TypeCorrect == Spec => []TypeOK
BY TypeInvHolds, PTL DEF TypeInv
-----------------------------------------------------------------------------
(* KeeperHub's ledger, as the keys of the client shape it                  *)

\* Every entry came from some send, under its key and with its body.
Provenance ==
    \A e \in ledger : \E t \in Sends : e.key = Key[t] /\ e.body = Body[t]

\* A running request answers an attempt of its own body.
WaiterInv ==
    \A e \in ledger : e.status = "running" =>
        /\ e.waiter \in Sends \X Attempts
        /\ e.body = Body[e.waiter[1]]

Done(s) == \E e \in ledger : e.body = Body[s] /\ e.status = "done"

\* A 2xx is only received when the effect has happened.
AnswerInv == \A s \in Sends : answer[s] = "ok" => Done(s)

LedgerInv == TypeInv /\ Provenance /\ WaiterInv /\ AnswerInv /\ AcceptedIsOwn

\* Two sends with one body share their key: what a resubmission must do for
\* KeeperHub to recognise it.
OneKeyPerBody == \A s, t \in Sends : Body[s] = Body[t] => Key[s] = Key[t]

\* The actions of the client, the crash included, leave the ledger alone.
LEMMA ClientKeepsLedger ==
    ASSUME NEW s \in Sends, Enqueue(s) \/ Client(s) \/ Crash
    PROVE  ledger' = ledger
BY DEF Enqueue, Client, Start, RefusedByCircuit, TransportFails, Handle, Retry, Crash

\* What has been done is not undone.
LEMMA DoneLasts ==
    ASSUME Next, NEW s \in Sends, Done(s)
    PROVE  Done(s)'
<1>1. PICK d \in ledger : d.body = Body[s] /\ d.status = "done"
  BY DEF Done
<1>2. d \in ledger'
  <2>1. ASSUME NEW t \in Sends, Enqueue(t) \/ Client(t) \/ Crash PROVE d \in ledger'
    BY <2>1, ClientKeepsLedger
  <2>2. CASE Crash
    BY <2>2 DEF Crash
  <2>3. ASSUME NEW t \in Sends, NEW n \in Attempts, TakeUp(t, n) \/ TurnAway(t, n)
        PROVE  d \in ledger'
    BY <2>3 DEF TakeUp, TurnAway
  <2>4. ASSUME NEW e \in ledger, Complete(e) \/ Abandon(e) PROVE d \in ledger'
    BY <1>1, <2>4 DEF Complete, Abandon
  <2> QED
    BY <2>1, <2>2, <2>3, <2>4 DEF Next, KeeperHub
<1> QED
  BY <1>1, <1>2 DEF Done

\* A step of the client never invents an answer, and accepts only a 2xx.
LEMMA ClientAnswers ==
    ASSUME TypeInv, NEW t \in Sends, Enqueue(t) \/ Client(t) \/ Crash, NEW s \in Sends
    PROVE  /\ answer'[s] = "ok" => answer[s] = "ok"
           /\ phase'[s] = "accepted" => phase[s] = "accepted" \/ answer[s] = "ok"
<1> USE DEF TypeInv, TypeOK
<1>1. CASE Enqueue(t)
  BY <1>1 DEF Enqueue
<1>2. CASE Start(t) \/ Retry(t)
  BY <1>2 DEF Start, Retry, Transmit, Goes
<1>3. CASE RefusedByCircuit(t)
  BY <1>3 DEF RefusedByCircuit, Settle, Goes
<1>4. CASE TransportFails(t)
  BY <1>4 DEF TransportFails, RetryOrThrow, Settle, Goes
<1>5. CASE Handle(t)
  <2>1. CASE answer[t] = "ok"
    BY <1>5, <2>1 DEF Handle, Settle, Goes
  <2>2. CASE answer[t] \in {"wouldRevert", "conflict", "refused"}
    BY <1>5, <2>2 DEF Handle, Settle, Goes
  <2>3. CASE answer[t] \in {"inProgress", "unwell"}
    BY <1>5, <2>3 DEF Handle, RetryOrThrow, Settle, Goes
  <2> QED
    BY <1>5, <2>1, <2>2, <2>3 DEF Handle, Answers
<1>6. CASE Crash
  BY <1>6 DEF Crash
<1> QED
  BY <1>1, <1>2, <1>3, <1>4, <1>5, <1>6 DEF Client

\* KeeperHub answers "ok" to nobody whose body it has not executed.
LEMMA HonestAnswers ==
    ASSUME LedgerInv, KeeperHub, NEW s \in Sends, answer'[s] = "ok"
    PROVE  answer[s] = "ok" \/ Done(s)'
<1> USE DEF LedgerInv, TypeInv, TypeOK
<1>1. ASSUME NEW t \in Sends, NEW n \in Attempts, TakeUp(t, n)
      PROVE  answer[s] = "ok" \/ Done(s)'
  <2>1. CASE EntriesFor(t, n) = {}
    BY <1>1, <2>1 DEF TakeUp
  <2>2. CASE EntriesFor(t, n) # {}
    <3>1. PICK e \in EntriesFor(t, n) :
            Respond(t, n, IF e.body # Body[t] THEN "conflict"
                          ELSE IF e.status = "done" THEN "ok" ELSE "inProgress")
      BY <1>1, <2>2 DEF TakeUp
    <3>2. e \in ledger /\ ledger' = ledger
      BY <1>1, <2>2 DEF TakeUp, EntriesFor
    <3>3. answer[s] = "ok" \/ (s = t /\ e.body = Body[t] /\ e.status = "done")
      BY <3>1 DEF Respond
    <3> QED
      BY <3>2, <3>3 DEF Done
  <2> QED
    BY <2>1, <2>2
<1>2. ASSUME NEW t \in Sends, NEW n \in Attempts, TurnAway(t, n)
      PROVE  answer[s] = "ok" \/ Done(s)'
  BY <1>2 DEF TurnAway, Respond
<1>3. ASSUME NEW e \in ledger, Complete(e)
      PROVE  answer[s] = "ok" \/ Done(s)'
  <2>1. answer[s] = "ok" \/ s = e.waiter[1]
    BY <1>3 DEF Complete, Respond
  <2>2. e.body = Body[e.waiter[1]]
    BY <1>3 DEF Complete, WaiterInv
  <2> DEFINE d == [e EXCEPT !.status = "done", !.waiter = <<>>]
  <2>3. d \in ledger'
    BY <1>3 DEF Complete
  <2>4. d.body = e.body /\ d.status = "done"
    BY DEF Entry
  <2> QED
    BY <2>1, <2>2, <2>3, <2>4 DEF Done
<1>4. ASSUME NEW e \in ledger, Abandon(e)
      PROVE  answer[s] = "ok" \/ Done(s)'
  BY <1>4 DEF Abandon, Respond
<1> QED
  BY <1>1, <1>2, <1>3, <1>4 DEF KeeperHub

\* Where entries come from, and whom they answer.
LEMMA EntriesStep ==
    ASSUME LedgerInv, Next
    PROVE  Provenance' /\ WaiterInv'
<1> USE DEF LedgerInv, TypeInv, TypeOK
<1>1. CASE ledger' = ledger
  BY <1>1 DEF Provenance, WaiterInv
<1>2. ASSUME NEW s \in Sends, NEW n \in Attempts, TakeUp(s, n), EntriesFor(s, n) = {}
      PROVE  Provenance' /\ WaiterInv'
  <2> DEFINE d == [key |-> KeyOfAttempt(s, n), body |-> Body[s],
                   status |-> "running", waiter |-> <<s, n>>]
  <2>1. ledger' = ledger \cup {d}
    BY <1>2 DEF TakeUp
  <2>2. d.key = Key[s] /\ d.body = Body[s] /\ d.waiter \in Sends \X Attempts
          /\ d.waiter[1] = s
    BY DEF KeyOfAttempt
  <2> HIDE DEF d
  <2> QED
    BY <2>1, <2>2 DEF Provenance, WaiterInv
<1>3. ASSUME NEW e \in ledger, Complete(e)
      PROVE  Provenance' /\ WaiterInv'
  <2> DEFINE d == [e EXCEPT !.status = "done", !.waiter = <<>>]
  <2>1. ledger' = (ledger \ {e}) \cup {d}
    BY <1>3 DEF Complete
  <2>2. d.key = e.key /\ d.body = e.body /\ d.status = "done"
    BY DEF Entry
  <2> HIDE DEF d
  <2> QED
    BY <2>1, <2>2 DEF Provenance, WaiterInv
<1>4. ASSUME NEW e \in ledger, Abandon(e)
      PROVE  Provenance' /\ WaiterInv'
  BY <1>4 DEF Abandon, Provenance, WaiterInv
<1>5. ASSUME NEW s \in Sends, NEW n \in Attempts, TakeUp(s, n), EntriesFor(s, n) # {}
      PROVE  ledger' = ledger
  BY <1>5 DEF TakeUp
<1>6. ASSUME NEW s \in Sends, NEW n \in Attempts, TurnAway(s, n)
      PROVE  ledger' = ledger
  BY <1>6 DEF TurnAway
<1>7. CASE Crash
  BY <1>7, <1>1 DEF Crash
<1> QED
  BY <1>1, <1>2, <1>3, <1>4, <1>5, <1>6, <1>7, ClientKeepsLedger DEF Next, KeeperHub

LEMMA LedgerStep ==
    ASSUME LedgerInv, Next
    PROVE  LedgerInv'
<1>1. TypeInv' /\ Provenance' /\ WaiterInv'
  BY TypeStep, EntriesStep DEF LedgerInv
<1>2. ASSUME NEW s \in Sends
      PROVE  /\ answer'[s] = "ok" => Done(s)'
             /\ phase'[s] = "accepted" => Done(s)'
  <2>1. (answer[s] = "ok" \/ phase[s] = "accepted") => Done(s)
    BY DEF LedgerInv, AnswerInv, AcceptedIsOwn, Done
  <2>2. Done(s) => Done(s)'
    BY DoneLasts
  <2>3. CASE KeeperHub
    <3>1. phase' = phase
      BY <2>3 DEF KeeperHub, TakeUp, TurnAway, Complete, Abandon
    <3> QED
      BY <2>1, <2>2, <2>3, <3>1, HonestAnswers
  <2>4. CASE ~KeeperHub
    <3>1. Sends # {}
      OBVIOUS
    <3>2. PICK t \in Sends : Enqueue(t) \/ Client(t) \/ Crash
      BY <2>4, <3>1 DEF Next
    <3>3. /\ answer'[s] = "ok" => answer[s] = "ok"
          /\ phase'[s] = "accepted" => phase[s] = "accepted" \/ answer[s] = "ok"
      BY <3>2, ClientAnswers DEF LedgerInv
    <3> QED
      BY <2>1, <2>2, <3>3
  <2> QED
    BY <2>3, <2>4
<1>3. AnswerInv' /\ AcceptedIsOwn'
  BY <1>2 DEF AnswerInv, AcceptedIsOwn, Done
<1> QED
  BY <1>1, <1>3 DEF LedgerInv

LEMMA LedgerInvHolds == Spec => []LedgerInv
<1>1. Init => Provenance /\ WaiterInv /\ AnswerInv /\ AcceptedIsOwn
  BY DEF Init, Provenance, WaiterInv, AnswerInv, AcceptedIsOwn
<1>2. ASSUME LedgerInv, [Next]_vars, TypeInv' PROVE LedgerInv'
  <2>1. CASE UNCHANGED vars
    BY <1>2, <2>1 DEF LedgerInv, Provenance, WaiterInv, AnswerInv, AcceptedIsOwn, Done, vars
  <2> QED
    BY <1>2, <2>1, LedgerStep
<1> QED
  BY <1>1, <1>2, TypeInvHolds, PTL DEF Spec, LedgerInv

\* A send that is reported as accepted has been executed with its own body:
\* sendWithRetries returns only on a 2xx, and a key that names another body
\* is answered 409.
THEOREM AcceptedIsTheSendsOwn == Spec => []AcceptedIsOwn
BY LedgerInvHolds, PTL DEF LedgerInv

\* When equal bodies come with equal keys, retries, late answers, crashes and
\* resubmissions leave at most one entry of a body in KeeperHub's ledger.
THEOREM SendsAtMostOnce == OneKeyPerBody => (Spec => []AtMostOnce)
<1> SUFFICES ASSUME OneKeyPerBody PROVE Spec => []AtMostOnce
  OBVIOUS
<1>1. Init => AtMostOnce
  BY DEF Init, AtMostOnce
<1>2. ASSUME LedgerInv, AtMostOnce, [Next]_vars PROVE AtMostOnce'
  <2> USE <1>2 DEF LedgerInv, TypeInv, TypeOK
  <2>1. CASE ledger' = ledger
    BY <2>1 DEF AtMostOnce
  <2>2. ASSUME NEW s \in Sends, NEW n \in Attempts, TakeUp(s, n), EntriesFor(s, n) = {}
        PROVE  AtMostOnce'
    <3> DEFINE d == [key |-> KeyOfAttempt(s, n), body |-> Body[s],
                     status |-> "running", waiter |-> <<s, n>>]
    <3>1. ledger' = ledger \cup {d} /\ d.body = Body[s]
      BY <2>2 DEF TakeUp
    \* An entry with this body would be under this key.
    <3>2. \A e \in ledger : e.body # Body[s]
      <4> SUFFICES ASSUME NEW e \in ledger, e.body = Body[s] PROVE FALSE
        OBVIOUS
      <4>1. PICK t \in Sends : e.key = Key[t] /\ e.body = Body[t]
        BY DEF Provenance
      <4>2. e.key = Key[s]
        BY <4>1 DEF OneKeyPerBody
      <4> QED
        BY <2>2, <4>2 DEF EntriesFor, KeyOfAttempt
    <3> HIDE DEF d
    <3> QED
      BY <3>1, <3>2 DEF AtMostOnce
  <2>3. ASSUME NEW e \in ledger, Complete(e) PROVE AtMostOnce'
    <3> DEFINE d == [e EXCEPT !.status = "done", !.waiter = <<>>]
    <3>1. ledger' = (ledger \ {e}) \cup {d}
      BY <2>3 DEF Complete
    <3>2. d.body = e.body
      BY DEF Entry
    <3> HIDE DEF d
    <3> QED
      BY <3>1, <3>2 DEF AtMostOnce
  <2>4. ASSUME NEW e \in ledger, Abandon(e) PROVE AtMostOnce'
    BY <2>4 DEF Abandon, AtMostOnce
  <2>5. ASSUME NEW s \in Sends, NEW n \in Attempts,
               TurnAway(s, n) \/ (TakeUp(s, n) /\ EntriesFor(s, n) # {})
        PROVE  ledger' = ledger
    BY <2>5 DEF TurnAway, TakeUp
  <2>6. CASE Crash \/ UNCHANGED vars
    BY <2>6, <2>1 DEF Crash, vars
  <2> QED
    BY <2>1, <2>2, <2>3, <2>4, <2>5, <2>6, ClientKeepsLedger DEF Next, KeeperHub
<1> QED
  BY <1>1, <1>2, LedgerInvHolds, PTL DEF Spec
-----------------------------------------------------------------------------
(* The queue of a target                                                   *)

\* s waits or runs under the phases ph; s has settled under them.
Active(ph, s) == ph[s] \in {"queued"} \cup Running
Over(ph, s) == IF s = NoSend THEN TRUE ELSE ph[s] \in Outcomes

\* s was queued before t, for the same target.
Before(rank, s, t) == Target[s] = Target[t] /\ rank[s] < rank[t]

\* rank is the order in which the active sends of each target were queued:
\* nobody shares a rank, the tail has the highest, whoever waits for an active
\* send waits for the one just before, and only the first waits for none.
Ordered(ph, pr, tl, rank) ==
    /\ \A s, t \in Sends :
         Active(ph, s) /\ Active(ph, t) /\ s # t /\ Target[s] = Target[t] => rank[s] # rank[t]
    /\ \A s \in Sends : Active(ph, s) =>
         LET l == tl[Target[s]]
         IN  l \in Sends /\ Active(ph, l) /\ Target[l] = Target[s] /\ rank[s] <= rank[l]
    /\ \A t \in Sends : Active(ph, t) /\ pr[t] \in Sends /\ Active(ph, pr[t]) =>
         /\ Before(rank, pr[t], t)
         /\ \A u \in Sends : Active(ph, u) =>
              ~(Before(rank, pr[t], u) /\ Before(rank, u, t))
    /\ \A s, t \in Sends : Active(ph, s) /\ Active(ph, t) /\ Before(rank, s, t) =>
         ~Over(ph, pr[t])

\* Whoever runs had its turn, and the chain holds only sends that joined it.
Chained(ph, pr, tl) ==
    /\ \A s \in Sends : ph[s] \in Running => Over(ph, pr[s])
    /\ \A s \in Sends : Active(ph, s) /\ pr[s] \in Sends => ph[pr[s]] # "idle"
    /\ \A t \in Targets : tl[t] \in Sends => ph[tl[t]] # "idle" /\ Target[tl[t]] = t

QueueInv ==
    /\ \E rank \in [Sends -> Nat] : Ordered(phase, previous, tail, rank)
    /\ Chained(phase, previous, tail)

\* What the client does to the phases: a send joins the queue, it moves on
\* while its predecessor has settled, it settles itself, or all is lost.
Moves(s, next) ==
    /\ Active(phase, s)
    /\ Over(phase, previous[s])
    /\ phase' = [phase EXCEPT ![s] = next]
    /\ UNCHANGED <<previous, tail>>

LEMMA ClientMoves ==
    ASSUME TypeOK, QueueInv, NEW s \in Sends, Client(s)
    PROVE  \E next \in Running \cup Outcomes : Moves(s, next)
<1>1. CASE Start(s)
  BY <1>1 DEF Start, TurnOf, Settled, Over, Transmit, Goes, Moves, Active, Running
<1>2. CASE RefusedByCircuit(s)
  BY <1>2 DEF RefusedByCircuit, TurnOf, Settled, Over, Settle, Goes, Moves, Active, Outcomes
<1>3. ASSUME phase[s] \in Running, Retry(s) \/ TransportFails(s) \/ Handle(s)
      PROVE  \E next \in Running \cup Outcomes : Moves(s, next)
  <2>1. Active(phase, s) /\ Over(phase, previous[s])
    BY <1>3 DEF Active, QueueInv, Chained
  <2>2. UNCHANGED <<previous, tail>>
    BY <1>3 DEF Retry, TransportFails, Handle
  <2>3. \A x \in Outcomes : RetryOrThrow(s, x) \/ Settle(s, x) =>
          \E next \in Running \cup Outcomes : phase' = [phase EXCEPT ![s] = next]
    BY DEF RetryOrThrow, Settle, Goes, Running
  <2>4. CASE Retry(s)
    BY <2>1, <2>2, <2>4 DEF Retry, Transmit, Goes, Moves, Running
  <2>5. CASE TransportFails(s)
    BY <2>1, <2>2, <2>3, <2>5 DEF TransportFails, Moves, Outcomes
  <2>6. CASE Handle(s)
    <3>1. \E x \in Outcomes : RetryOrThrow(s, x) \/ Settle(s, x)
      <4>1. answer[s] \in Answers
        BY <2>6 DEF Handle, TypeOK
      <4>2. CASE answer[s] = "ok"
        BY <2>6, <4>2 DEF Handle, Outcomes
      <4>3. CASE answer[s] \in {"wouldRevert", "conflict", "refused"}
        BY <2>6, <4>3 DEF Handle, Outcomes
      <4>4. CASE answer[s] \in {"inProgress", "unwell"}
        BY <2>6, <4>4 DEF Handle, Outcomes
      <4> QED
        BY <4>1, <4>2, <4>3, <4>4 DEF Answers
    <3> QED
      BY <2>1, <2>2, <2>3, <3>1 DEF Moves
  <2> QED
    BY <1>3, <2>4, <2>5, <2>6
<1> QED
  BY <1>1, <1>2, <1>3 DEF Client, Retry, TransportFails, Handle, Running

\* A send joins behind all the active ones.
LEMMA EnqueueKeepsQueue ==
    ASSUME TypeOK, QueueInv, NEW s \in Sends, Enqueue(s)
    PROVE  QueueInv'
<1> DEFINE l == tail[Target[s]]
<1>1. PICK rank \in [Sends -> Nat] : Ordered(phase, previous, tail, rank)
  BY DEF QueueInv
<1>2. /\ phase' = [phase EXCEPT ![s] = "queued"]
      /\ previous' = [previous EXCEPT ![s] = l]
      /\ tail' = [tail EXCEPT ![Target[s]] = s]
      /\ phase[s] = "idle" /\ Target[s] \in Targets /\ l \in Sends \cup {NoSend}
  BY DEF Enqueue, Targets, TypeOK
<1>3. /\ Active(phase', s) /\ ~Active(phase, s) /\ ~Over(phase', s) /\ ~Over(phase, s)
      /\ \A t \in Sends \ {s} : phase'[t] = phase[t] /\ previous'[t] = previous[t]
      /\ \A t \in Sends \ {s} : Active(phase', t) = Active(phase, t)
      /\ \A t \in (Sends \cup {NoSend}) \ {s} : Over(phase', t) = Over(phase, t)
      /\ previous'[s] = l
  BY <1>2, ClientConstants DEF Active, Over, Running, Outcomes, TypeOK
<1>4. \A t \in Sends : Active(phase, t) => previous[t] \in (Sends \cup {NoSend}) \ {s}
  BY <1>2, ClientConstants DEF QueueInv, Chained, TypeOK
<1>5. \A t \in Sends : tail'[Target[t]] = IF Target[t] = Target[s] THEN s ELSE tail[Target[t]]
  BY <1>2 DEF TypeOK, Targets
<1>6. l # s
  BY <1>2 DEF QueueInv, Chained, Targets
<1> DEFINE place == IF l \in Sends THEN rank[l] + 1 ELSE 0
           longer == [rank EXCEPT ![s] = place]
<1>7. longer \in [Sends -> Nat] /\ longer[s] = place /\ \A t \in Sends \ {s} : longer[t] = rank[t]
  BY <1>1, <1>2
<1>8. \A t \in Sends : Active(phase, t) /\ Target[t] = Target[s] =>
        /\ l \in Sends /\ Active(phase, l) /\ Target[l] = Target[s] /\ rank[t] <= rank[l]
  BY <1>1 DEF Ordered
<1>9. Active(phase, l) /\ l \in Sends => ~Over(phase, l)
  BY ClientConstants DEF Active, Over, Running, Outcomes
<1>10. \A t \in Sends : Active(phase, t) /\ Target[t] = Target[s] => rank[t] < place
  BY <1>1, <1>8
<1> HIDE DEF place, longer, l
<1>11. Ordered(phase', previous', tail', longer)
  <2>1. ASSUME NEW u \in Sends, NEW t \in Sends, Active(phase', u), Active(phase', t), u # t, Target[u] = Target[t]
        PROVE  longer[u] # longer[t]
    BY <1>1, <1>3, <1>7, <1>10, <2>1 DEF Ordered
  <2>2. ASSUME NEW t \in Sends, Active(phase', t)
        PROVE  LET m == tail'[Target[t]]
               IN  m \in Sends /\ Active(phase', m) /\ Target[m] = Target[t] /\ longer[t] <= longer[m]
    <3>1. CASE Target[t] = Target[s]
      <4>1. tail'[Target[t]] = s
        BY <1>5, <3>1
      <4>2. longer[t] <= longer[s]
        BY <1>1, <1>3, <1>7, <1>10, <2>2, <3>1
      <4> QED
        BY <1>3, <3>1, <4>1, <4>2
    <3>2. CASE Target[t] # Target[s]
      <4>1. t # s /\ Active(phase, t)
        BY <1>3, <2>2, <3>2
      <4>2. tail'[Target[t]] = tail[Target[t]]
        BY <1>5, <3>2
      <4> QED
        BY <1>1, <1>3, <1>7, <3>2, <4>1, <4>2 DEF Ordered
    <3> QED
      BY <3>1, <3>2
  <2>3. ASSUME NEW t \in Sends, Active(phase', t), previous'[t] \in Sends, Active(phase', previous'[t])
        PROVE  /\ Before(longer, previous'[t], t)
               /\ \A u \in Sends : Active(phase', u) =>
                    ~(Before(longer, previous'[t], u) /\ Before(longer, u, t))
    <3>1. CASE t = s
      <4>1. l \in Sends /\ Active(phase, l) /\ previous'[t] = l
        BY <1>3, <1>6, <2>3, <3>1
      <4>2. Target[l] = Target[s]
        BY <1>2, <4>1 DEF QueueInv, Chained, l
      <4>3. longer[l] = rank[l] /\ longer[s] = rank[l] + 1 /\ rank[l] \in Nat
        BY <1>1, <1>6, <1>7, <4>1 DEF place
      <4>4. \A u \in Sends : longer[u] \in Nat
        BY <1>7
      <4> QED
        BY <3>1, <4>1, <4>2, <4>3, <4>4 DEF Before
    <3>2. CASE t # s
      <4>1. Active(phase, t) /\ previous'[t] = previous[t]
        BY <1>3, <2>3, <3>2
      <4>2. previous[t] # s /\ Active(phase, previous[t])
        BY <1>3, <1>4, <2>3, <4>1
      <4>3. Before(longer, previous'[t], t)
        BY <1>1, <1>7, <2>3, <3>2, <4>1, <4>2 DEF Ordered, Before
      <4>4. ASSUME NEW u \in Sends, Active(phase', u)
            PROVE  ~(Before(longer, previous'[t], u) /\ Before(longer, u, t))
        <5>1. CASE u = s
          BY <1>1, <1>7, <1>10, <3>2, <4>1, <5>1 DEF Before
        <5>2. CASE u # s
          BY <1>1, <1>3, <1>7, <2>3, <3>2, <4>1, <4>2, <4>4, <5>2 DEF Ordered, Before
        <5> QED
          BY <5>1, <5>2
      <4> QED
        BY <4>3, <4>4
    <3> QED
      BY <3>1, <3>2
  <2>4. ASSUME NEW u \in Sends, NEW t \in Sends, Active(phase', u), Active(phase', t), Before(longer, u, t)
        PROVE  ~Over(phase', previous'[t])
    <3>1. CASE t = s
      <4>1. u # s /\ Active(phase, u) /\ Target[u] = Target[s]
        BY <1>3, <1>7, <2>4, <3>1 DEF Before
      <4>2. l \in Sends /\ Active(phase, l)
        BY <1>8, <4>1 DEF l
      <4> QED
        BY <1>3, <1>6, <1>9, <3>1, <4>2
    <3>2. CASE t # s
      <4>1. Active(phase, t) /\ previous'[t] = previous[t]
        BY <1>3, <2>4, <3>2
      <4>2. u # s
        BY <1>1, <1>7, <1>10, <2>4, <3>2, <4>1 DEF Before
      <4>3. ~Over(phase, previous[t])
        BY <1>1, <1>3, <1>7, <2>4, <3>2, <4>1, <4>2 DEF Ordered, Before
      <4> QED
        BY <1>3, <1>4, <4>1, <4>3
    <3> QED
      BY <3>1, <3>2
  <2> QED
    BY <2>1, <2>2, <2>3, <2>4 DEF Ordered, Before
<1>12. \A t \in Sends : phase'[t] \in Running => Over(phase', previous'[t])
  <2> SUFFICES ASSUME NEW t \in Sends, phase'[t] \in Running PROVE Over(phase', previous'[t])
    OBVIOUS
  <2>1. t # s /\ Active(phase, t) /\ phase[t] \in Running
    BY <1>2, <1>3 DEF Active, Running, TypeOK
  <2> QED
    BY <1>3, <1>4, <2>1 DEF QueueInv, Chained
<1>13. \A t \in Sends : Active(phase', t) /\ previous'[t] \in Sends => phase'[previous'[t]] # "idle"
  <2>1. \A t \in Sends : phase'[t] = "idle" => phase[t] = "idle" /\ t # s
    BY <1>2 DEF TypeOK
  <2>2. l \in Sends => phase[l] # "idle"
    BY <1>2 DEF QueueInv, Chained, l
  <2> QED
    BY <1>3, <2>1, <2>2 DEF QueueInv, Chained
<1>14. \A t \in Targets : tail'[t] \in Sends => phase'[tail'[t]] # "idle" /\ Target[tail'[t]] = t
  BY <1>2 DEF QueueInv, Chained, TypeOK
<1> QED
  BY <1>7, <1>11, <1>12, <1>13, <1>14 DEF QueueInv, Chained

\* A send that moves on without settling leaves the order as it is.
LEMMA RunningKeepsQueue ==
    ASSUME TypeOK, QueueInv, NEW s \in Sends, NEW next \in Running, Moves(s, next)
    PROVE  QueueInv'
<1>1. PICK rank \in [Sends -> Nat] : Ordered(phase, previous, tail, rank)
  BY DEF QueueInv
<1>2. /\ phase' = [phase EXCEPT ![s] = next] /\ previous' = previous /\ tail' = tail
      /\ Active(phase, s) /\ Over(phase, previous[s])
  BY DEF Moves
<1>3. /\ \A t \in Sends : Active(phase', t) <=> Active(phase, t)
      /\ \A t \in Sends \cup {NoSend} : Over(phase', t) <=> Over(phase, t)
      /\ \A t \in Sends : phase'[t] = "idle" <=> phase[t] = "idle"
      /\ \A t \in Sends : t # s => phase'[t] = phase[t]
  <2>1. \A t \in Sends : phase'[t] = IF t = s THEN next ELSE phase[t]
    BY <1>2 DEF TypeOK
  <2>2. s # NoSend /\ Active(phase, s) /\ next \notin Outcomes /\ next # "idle"
    BY <1>2, ClientConstants DEF Running, Outcomes
  <2>3. phase[s] \notin Outcomes /\ phase[s] # "idle"
    BY <1>2 DEF Active, Running, Outcomes
  <2> QED
    BY <2>1, <2>2, <2>3, ClientConstants DEF Active, Over
<1>4. \A t \in Sends : previous[t] \in Sends \cup {NoSend}
  BY DEF TypeOK
<1>5. Ordered(phase', previous', tail', rank)
  BY <1>1, <1>2, <1>3, <1>4 DEF Ordered
<1>6. Chained(phase', previous', tail')
  BY <1>2, <1>3, <1>4 DEF QueueInv, Chained
<1> QED
  BY <1>5, <1>6 DEF QueueInv

\* The send that settles was the first of its target, so that the one chained
\* to it becomes the first.
LEMMA SettlingKeepsQueue ==
    ASSUME TypeOK, QueueInv, NEW s \in Sends, NEW next \in Outcomes, Moves(s, next)
    PROVE  QueueInv'
<1>1. PICK rank \in [Sends -> Nat] : Ordered(phase, previous, tail, rank)
  BY DEF QueueInv
<1>2. /\ phase' = [phase EXCEPT ![s] = next] /\ previous' = previous /\ tail' = tail
      /\ Active(phase, s) /\ Over(phase, previous[s])
  BY DEF Moves
<1>3. /\ \A t \in Sends : Active(phase', t) <=> Active(phase, t) /\ t # s
      /\ \A t \in Sends \cup {NoSend} : Over(phase', t) <=> Over(phase, t) \/ t = s
      /\ \A t \in Sends : phase'[t] = "idle" => phase[t] = "idle"
      /\ \A t \in Sends : phase'[t] \in Running => phase[t] \in Running
  BY <1>2, ClientConstants DEF TypeOK, Active, Over, Running, Outcomes
<1>4. \A t \in Sends : previous[t] \in Sends \cup {NoSend} /\ rank[t] \in Nat
  BY <1>1 DEF TypeOK
\* Everyone else of the target was queued later.
<1>5. \A t \in Sends : Active(phase, t) /\ t # s /\ Target[t] = Target[s] => Before(rank, s, t)
  <2> SUFFICES ASSUME NEW t \in Sends, Active(phase, t), t # s, Target[t] = Target[s]
               PROVE  Before(rank, s, t)
    OBVIOUS
  <2>1. rank[t] # rank[s] /\ ~Before(rank, t, s)
    BY <1>1, <1>2 DEF Ordered
  <2> QED
    BY <1>4, <2>1 DEF Before
<1>6. Ordered(phase', previous', tail', rank)
  <2>1. ASSUME NEW t \in Sends, Active(phase', t)
        PROVE  LET l == tail'[Target[t]]
               IN  l \in Sends /\ Active(phase', l) /\ Target[l] = Target[t] /\ rank[t] <= rank[l]
    <3> DEFINE l == tail[Target[t]]
    <3>1. Active(phase, t) /\ t # s
      BY <1>3, <2>1
    <3>2. l \in Sends /\ Active(phase, l) /\ Target[l] = Target[t] /\ rank[t] <= rank[l]
      BY <1>1, <3>1 DEF Ordered
    <3>3. l # s
      BY <1>4, <1>5, <3>1, <3>2 DEF Before
    <3> QED
      BY <1>2, <1>3, <3>2, <3>3
  <2>2. ASSUME NEW u \in Sends, NEW t \in Sends, Active(phase', u), Active(phase', t),
               Before(rank, u, t)
        PROVE  ~Over(phase', previous'[t])
    <3>1. Active(phase, u) /\ Active(phase, t) /\ u # s /\ ~Over(phase, previous[t])
      BY <1>1, <1>3, <2>2 DEF Ordered
    <3>2. previous[t] # s
      <4> SUFFICES ASSUME previous[t] = s PROVE FALSE
        OBVIOUS
      <4>1. Before(rank, s, t) /\ ~Before(rank, s, u)
        BY <1>1, <1>2, <2>2, <3>1 DEF Ordered
      <4> QED
        BY <1>5, <2>2, <3>1, <4>1 DEF Before
    <3> QED
      BY <1>2, <1>3, <1>4, <3>1, <3>2
  <2>3. ASSUME NEW t \in Sends, Active(phase', t), previous'[t] \in Sends,
               Active(phase', previous'[t])
        PROVE  /\ Before(rank, previous'[t], t)
               /\ \A u \in Sends : Active(phase', u) =>
                    ~(Before(rank, previous'[t], u) /\ Before(rank, u, t))
    BY <1>1, <1>2, <1>3, <2>3 DEF Ordered
  <2>4. \A u, t \in Sends :
          Active(phase', u) /\ Active(phase', t) /\ u # t /\ Target[u] = Target[t] => rank[u] # rank[t]
    BY <1>1, <1>3 DEF Ordered
  <2> QED
    BY <2>1, <2>2, <2>3, <2>4 DEF Ordered
<1>7. Chained(phase', previous', tail')
  BY <1>2, <1>3, <1>4 DEF QueueInv, Chained
<1> QED
  BY <1>6, <1>7 DEF QueueInv

\* A crash leaves no send active.
LEMMA CrashKeepsQueue ==
    ASSUME TypeOK, QueueInv, Crash
    PROVE  QueueInv'
<1>1. PICK rank \in [Sends -> Nat] : Ordered(phase, previous, tail, rank)
  BY DEF QueueInv
<1>2. \A s \in Sends : ~Active(phase', s)
  BY DEF Crash, TypeOK, Active, Running, Outcomes
<1>3. Ordered(phase', previous', tail', rank)
  BY <1>2 DEF Ordered
<1>4. \A t \in Targets : tail'[t] \notin Sends
  BY ClientConstants DEF Crash
<1>5. \A s \in Sends : phase'[s] \notin Running
  BY <1>2 DEF Active
<1>6. Chained(phase', previous', tail')
  BY <1>2, <1>4, <1>5 DEF Chained
<1> QED
  BY <1>3, <1>6 DEF QueueInv

LEMMA QueueStep ==
    ASSUME TypeInv, QueueInv, Next
    PROVE  QueueInv'
<1>1. TypeOK
  BY DEF TypeInv
<1>2. ASSUME NEW s \in Sends, Enqueue(s) PROVE QueueInv'
  BY <1>1, <1>2, EnqueueKeepsQueue
<1>3. ASSUME NEW s \in Sends, Client(s) PROVE QueueInv'
  <2>1. PICK next \in Running \cup Outcomes : Moves(s, next)
    BY <1>1, <1>3, ClientMoves
  <2> QED
    BY <1>1, <2>1, RunningKeepsQueue, SettlingKeepsQueue
<1>4. CASE Crash
  BY <1>1, <1>4, CrashKeepsQueue
<1>5. CASE KeeperHub
  <2>1. UNCHANGED <<phase, previous, tail>>
    BY <1>5 DEF KeeperHub, TakeUp, TurnAway, Complete, Abandon
  <2> QED
    BY <2>1 DEF QueueInv
<1> QED
  BY <1>2, <1>3, <1>4, <1>5 DEF Next

\* Two sends of one target never run together, in whatever order they are
\* called and however they end: each waits for the one queued before it.
THEOREM TargetsAreSerialised == Spec => []OneSendPerTarget
<1>1. Init => QueueInv
  <2> SUFFICES ASSUME Init PROVE QueueInv
    OBVIOUS
  <2>1. \A s \in Sends : ~Active(phase, s) /\ phase[s] \notin Running
    BY DEF Init, Active, Running
  <2>2. \A t \in Targets : tail[t] \notin Sends
    BY ClientConstants DEF Init
  <2>3. Chained(phase, previous, tail)
    BY <2>1, <2>2 DEF Chained
  <2> DEFINE rank == [s \in Sends |-> 0]
  <2>4. rank \in [Sends -> Nat] /\ Ordered(phase, previous, tail, rank)
    BY <2>1 DEF Ordered
  <2> QED
    BY <2>3, <2>4 DEF QueueInv
<1>2. ASSUME TypeInv, QueueInv, [Next]_vars PROVE QueueInv'
  <2>1. CASE UNCHANGED vars
    BY <1>2, <2>1 DEF QueueInv, vars
  <2> QED
    BY <1>2, <2>1, QueueStep
<1>3. TypeInv /\ QueueInv => OneSendPerTarget
  <2> SUFFICES ASSUME TypeInv, QueueInv, NEW s \in Sends, NEW t \in Sends,
                      s # t, Target[s] = Target[t],
                      phase[s] \in Running, phase[t] \in Running
               PROVE  FALSE
    BY DEF OneSendPerTarget
  <2>1. PICK rank \in [Sends -> Nat] : Ordered(phase, previous, tail, rank)
    BY DEF QueueInv
  <2>2. Active(phase, s) /\ Active(phase, t) /\ Over(phase, previous[s]) /\ Over(phase, previous[t])
    BY DEF QueueInv, Chained, Active
  <2>3. rank[s] # rank[t] /\ ~Before(rank, s, t) /\ ~Before(rank, t, s)
    BY <2>1, <2>2 DEF Ordered
  <2> QED
    BY <2>1, <2>3 DEF Before
<1> QED
  BY <1>1, <1>2, <1>3, TypeInvHolds, PTL DEF Spec
=============================================================================
