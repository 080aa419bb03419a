-------------------------- MODULE Dashboard_proofs --------------------------
(***************************************************************************)
(* Theorems about Dashboard, for any runs, operator requests, instances    *)
(* and policies: what KeeperHub takes up was decided, is taken up once,    *)
(* and a hold shown as released was.  And about PolicyWindow, the policy   *)
(* its canvas edits, for any policies, intents, contexts and fillings: its *)
(* schedule is kept, it survives the way over the canvas, what the canvas  *)
(* reports of it is true, and taking a limit off it never loosens it.      *)
(***************************************************************************)
EXTENDS Dashboard, PolicyWindow, FiniteSetTheorems, SequenceTheorems, TLAPS
-----------------------------------------------------------------------------
(* Types                                                                   *)

Places == {"new", "simulate", "broadcast", "held", "done", "shown"}
Phases == {"idle", "broadcast", "done"}
Sendings == {"idle", "wire", "taken"}

LEMMA CallsOf ==
    /\ \A r \in Runs : <<"run", r>> \in Calls
    /\ \A c \in Clicks : <<"release", c>> \in Calls
    /\ \A c \in Calls : \/ c[1] = "run" /\ c[2] \in Runs /\ c = <<"run", c[2]>>
                        \/ c[1] = "release" /\ c[2] \in Clicks /\ c = <<"release", c[2]>>
BY DEF Calls

LEMMA NoHoldType == NoHold \in Hold /\ NoHold.status = "none"
BY DEF NoHold, Hold, Statuses

\* A hold's status is set, its intent stays.
LEMMA HoldType ==
    ASSUME NEW status \in Statuses, NEW i \in Intents \cup {NoIntent}
    PROVE  /\ [status |-> status, intent |-> i] \in Hold
           /\ [status |-> status, intent |-> i].status = status
           /\ [status |-> status, intent |-> i].intent = i
BY DEF Hold

LEMMA MovesType ==
    ASSUME TypeOK, NEW r \in Runs, NEW place \in Places, Moves(r, place)
    PROVE  /\ pc' \in [Runs -> Places]
           /\ \A q \in Runs : pc'[q] = IF q = r THEN place ELSE pc[q]
BY DEF Moves, TypeOK, Places

LEMMA SendType ==
    ASSUME TypeOK, NEW c \in Calls, Send(c)
    PROVE  /\ sending' \in [Calls -> Sendings]
           /\ \A d \in Calls : sending'[d] = IF d = c THEN "wire" ELSE sending[d]
BY DEF Send, TypeOK, Sendings

\* What the ledgers hold after one of their entries was set, and the browser after
\* one of its copies was.
LEMMA LedgerSet ==
    ASSUME TypeOK, NEW n \in Instances, NEW h \in Ids, NEW hold \in Hold,
           ledger' = [ledger EXCEPT ![n][h] = hold]
    PROVE  /\ ledger' \in [Instances -> [Ids -> Hold]]
           /\ \A m \in Instances, j \in Ids :
                ledger'[m][j] = IF m = n /\ j = h THEN hold ELSE ledger[m][j]
<1>1. ledger \in [Instances -> [Ids -> Hold]]
  BY DEF TypeOK
<1> QED
  BY <1>1

LEMMA BrowserSet ==
    ASSUME TypeOK, NEW h \in Ids, NEW hold \in Hold, browser' = [browser EXCEPT ![h] = hold]
    PROVE  /\ browser' \in [Ids -> Hold]
           /\ \A j \in Ids : browser'[j] = IF j = h THEN hold ELSE browser[j]
<1>1. browser \in [Ids -> Hold]
  BY DEF TypeOK
<1> QED
  BY <1>1

LEMMA ResolvesType ==
    ASSUME TypeOK, NEW n \in Instances, NEW h \in Ids, NEW status \in Statuses,
           Resolves(n, h, status)
    PROVE  /\ ledger' \in [Instances -> [Ids -> Hold]]
           /\ \A m \in Instances, j \in Ids :
                \/ ledger'[m][j] = ledger[m][j]
                \/ /\ j = h /\ ledger[m][j].status = "held"
                   /\ ledger'[m][j].status = status /\ ledger'[m][j].intent = ledger[m][j].intent
<1>1. CASE ledger[n][h].status = "held"
  <2>1. ledger[n][h].intent \in Intents \cup {NoIntent}
    BY DEF TypeOK, Hold
  <2> DEFINE hold == [status |-> status, intent |-> ledger[n][h].intent]
  <2>2. hold \in Hold /\ hold.status = status /\ hold.intent = ledger[n][h].intent
    BY <2>1, HoldType
  <2>3. ledger' = [ledger EXCEPT ![n][h] = hold]
    BY <1>1 DEF Resolves
  <2> HIDE DEF hold
  <2>4. /\ ledger' \in [Instances -> [Ids -> Hold]]
        /\ \A m \in Instances, j \in Ids :
             ledger'[m][j] = IF m = n /\ j = h THEN hold ELSE ledger[m][j]
    BY <2>2, <2>3, LedgerSet
  <2> QED
    BY <1>1, <2>2, <2>4
<1>2. CASE ledger[n][h].status # "held"
  BY <1>2 DEF Resolves, TypeOK
<1> QED
  BY <1>1, <1>2

LEMMA CopyStatusType ==
    ASSUME TypeOK, NEW h \in Ids, NEW status \in Statuses, CopyStatus(h, status)
    PROVE  /\ browser' \in [Ids -> Hold]
           /\ \A j \in Ids :
                \/ browser'[j] = browser[j]
                \/ /\ j = h /\ browser[j].status # "none"
                   /\ browser'[j].status = status /\ browser'[j].intent = browser[j].intent
<1>1. CASE browser' = browser
  BY <1>1 DEF TypeOK
<1>2. CASE browser' # browser
  <2>1. browser[h].intent \in Intents \cup {NoIntent}
    BY DEF TypeOK, Hold
  <2> DEFINE hold == [status |-> status, intent |-> browser[h].intent]
  <2>2. hold \in Hold /\ hold.status = status /\ hold.intent = browser[h].intent
    BY <2>1, HoldType
  <2>3. browser[h].status # "none" /\ browser' = [browser EXCEPT ![h] = hold]
    BY <1>2 DEF CopyStatus
  <2> HIDE DEF hold
  <2>4. /\ browser' \in [Ids -> Hold]
        /\ \A j \in Ids : browser'[j] = IF j = h THEN hold ELSE browser[j]
    BY <2>2, <2>3, BrowserSet
  <2> QED
    BY <2>2, <2>3, <2>4
<1> QED
  BY <1>1, <1>2

LEMMA BroadcastsType ==
    ASSUME TypeOK, NEW c \in Clicks, NEW n \in Instances, NEW from \in {"ledger", "copy", "body"},
           NEW id \in Ids, NEW i \in Intents \cup {NoIntent}, Broadcasts(c, n, from, id, i)
    PROVE  /\ click' \in [Clicks -> Click] /\ phase' \in [Clicks -> Phases]
           /\ sending' \in [Calls -> Sendings]
           /\ /\ click'[c].at = n /\ click'[c].from = from
              /\ click'[c].id = id /\ click'[c].intent = i
           /\ phase'[c] = "broadcast"
           /\ \A d \in Clicks : d # c => click'[d] = click[d] /\ phase'[d] = phase[d]
           /\ \A d \in Calls : sending'[d] = IF d = <<"release", c>> THEN "wire" ELSE sending[d]
<1> DEFINE asked == [at |-> n, from |-> from, id |-> id, intent |-> i]
<1>1. /\ asked \in Click /\ asked.at = n /\ asked.from = from /\ asked.id = id /\ asked.intent = i
  BY DEF Click
<1>2. click' = [click EXCEPT ![c] = asked]
  BY DEF Broadcasts
<1> HIDE DEF asked
<1>3. click' \in [Clicks -> Click] /\ \A d \in Clicks : click'[d] = IF d = c THEN asked ELSE click[d]
  BY <1>1, <1>2 DEF TypeOK
<1>4. /\ phase' \in [Clicks -> Phases]
      /\ \A d \in Clicks : phase'[d] = IF d = c THEN "broadcast" ELSE phase[d]
  BY DEF Broadcasts, TypeOK, Phases
<1>5. /\ sending' \in [Calls -> Sendings]
      /\ \A d \in Calls : sending'[d] = IF d = <<"release", c>> THEN "wire" ELSE sending[d]
  BY CallsOf, SendType DEF Broadcasts
<1> QED
  BY <1>1, <1>3, <1>4, <1>5
-----------------------------------------------------------------------------
(* The inductive invariant                                                 *)

\* A run has an intent once it began; it simulates and broadcasts what the
\* policy allows, and its hold is of what the policy holds.
RunIsDecided(r) ==
    /\ pc[r] # "new" => run[r].id \in Ids /\ run[r].intent \in Intents
    /\ pc[r] \in {"new", "simulate"} => sending[<<"run", r>>] = "idle"
    /\ pc[r] = "simulate" => Policy[run[r].intent] = "ALLOW"
    /\ pc[r] = "held" => Policy[run[r].intent] = "HOLD"
    /\ sending[<<"run", r>>] # "idle" =>
         Policy[run[r].intent] = "ALLOW" /\ run[r].broadcast /\ simulation[r] = "passes"

RunsAreDecided == \A r \in Runs : RunIsDecided(r)

\* An intent the policy holds, that somebody submitted under this id.
IsHeld(id, i) == id \in Ids /\ i \in Intents /\ Policy[i] = "HOLD" /\ WasSubmitted(id, i)

\* Holds are of such intents,
HoldsAreHeld ==
    \A h \in Ids :
        /\ browser[h].status # "none" => IsHeld(h, browser[h].intent)
        /\ \A n \in Instances : ledger[n][h].status # "none" => IsHeld(h, ledger[n][h].intent)

\* and so is what releases broadcast, unless a body handed it in.
ReleaseIsDecided(c) ==
    /\ phase[c] = "idle" => sending[<<"release", c>>] = "idle"
    /\ phase[c] = "broadcast" => sending[<<"release", c>>] # "idle"
    /\ sending[<<"release", c>>] # "idle" =>
         /\ click[c].id \in Ids /\ click[c].intent \in Intents /\ click[c].at \in Instances
         /\ click[c].from # "body" => IsHeld(click[c].id, click[c].intent)

ReleasesAreDecided == \A c \in Clicks : ReleaseIsDecided(c)

\* KeeperHub's ledger: one entry a key, and one for every call taken up.
LedgerIsKeyed ==
    /\ \A e \in applied : e.key = KeyOf(e.by) /\ sending[e.by] = "taken"
    /\ \A c \in Calls : sending[c] = "taken" => Taken(c)
    /\ \A d, e \in applied : d.key = e.key => d = e

IInv ==
    /\ TypeOK /\ RunsAreDecided /\ HoldsAreHeld /\ ReleasesAreDecided
    /\ LedgerIsKeyed /\ ReleasedWasSent

LEMMA InitIInv == Init => IInv
<1> SUFFICES ASSUME Init PROVE IInv
  OBVIOUS
<1>1. /\ [id |-> NoId, intent |-> NoIntent, at |-> NoInstance,
          broadcast |-> FALSE, page |-> FALSE] \in Run
      /\ [at |-> NoInstance, from |-> "none", id |-> NoId, intent |-> NoIntent] \in Click
  BY DEF Run, Click
<1>2. TypeOK
  BY <1>1, NoHoldType DEF Init, TypeOK
<1>3. /\ \A h \in Ids : browser[h].status = "none"
      /\ \A h \in Ids, n \in Instances : ledger[n][h].status = "none"
  BY NoHoldType DEF Init
<1>4. RunsAreDecided /\ ReleasesAreDecided /\ LedgerIsKeyed
  BY CallsOf DEF Init, RunsAreDecided, RunIsDecided, ReleasesAreDecided, ReleaseIsDecided, LedgerIsKeyed
<1>5. HoldsAreHeld /\ ReleasedWasSent
  BY <1>3 DEF HoldsAreHeld, ReleasedWasSent
<1> QED
  BY <1>2, <1>4, <1>5 DEF IInv
-----------------------------------------------------------------------------
(* Types of the steps                                                      *)

LEMMA SubmitType ==
    ASSUME TypeOK, NEW r \in Runs, NEW h \in Ids, NEW i \in Intents, NEW n \in Instances,
           Submit(r, h, i, n)
    PROVE  /\ TypeOK'
           /\ run'[r].id = h /\ run'[r].intent = i
           /\ \A q \in Runs : q # r => run'[q] = run[q] /\ pc'[q] = pc[q]
           /\ \/ pc'[r] = "held" /\ Policy[i] = "HOLD"
              \/ pc'[r] = "done" /\ Policy[i] = "DENY"
              \/ pc'[r] = "simulate" /\ Policy[i] = "ALLOW"
           /\ \A m \in Instances, j \in Ids :
                \/ ledger'[m][j] = ledger[m][j]
                \/ /\ j = h /\ Policy[i] = "HOLD"
                   /\ ledger'[m][j].status = "held" /\ ledger'[m][j].intent = i
<1>1. PICK broadcast, page \in BOOLEAN :
        run' = [run EXCEPT ![r] = [id |-> h, intent |-> i, at |-> n,
                                   broadcast |-> broadcast, page |-> page]]
  BY DEF Submit
<1>2. /\ run' \in [Runs -> Run] /\ run'[r].id = h /\ run'[r].intent = i
      /\ \A q \in Runs : q # r => run'[q] = run[q]
  <2> DEFINE new == [id |-> h, intent |-> i, at |-> n, broadcast |-> broadcast, page |-> page]
  <2>1. new \in Run /\ new.id = h /\ new.intent = i
    BY DEF Run
  <2>2. run' = [run EXCEPT ![r] = new]
    BY <1>1
  <2> HIDE DEF new
  <2> QED
    BY <2>1, <2>2 DEF TypeOK
<1>3. /\ pc' \in [Runs -> Places]
      /\ \A q \in Runs : q # r => pc'[q] = pc[q]
      /\ \/ pc'[r] = "held" /\ Policy[i] = "HOLD"
         \/ pc'[r] = "done" /\ Policy[i] = "DENY"
         \/ pc'[r] = "simulate" /\ Policy[i] = "ALLOW"
  <2>1. \E place \in {"held", "done", "simulate"} :
          /\ Moves(r, place)
          /\ \/ place = "held" /\ Policy[i] = "HOLD"
             \/ place = "done" /\ Policy[i] = "DENY"
             \/ place = "simulate" /\ Policy[i] = "ALLOW"
    BY DEF Submit
  <2>2. PICK place \in {"held", "done", "simulate"} :
          /\ Moves(r, place)
          /\ \/ place = "held" /\ Policy[i] = "HOLD"
             \/ place = "done" /\ Policy[i] = "DENY"
             \/ place = "simulate" /\ Policy[i] = "ALLOW"
    BY <2>1
  <2>3. place \in Places
    BY DEF Places
  <2> QED
    BY <2>2, <2>3, MovesType
<1>4. /\ ledger' \in [Instances -> [Ids -> Hold]]
      /\ \A m \in Instances, j \in Ids :
           \/ ledger'[m][j] = ledger[m][j]
           \/ /\ j = h /\ Policy[i] = "HOLD"
              /\ ledger'[m][j].status = "held" /\ ledger'[m][j].intent = i
  <2>1. CASE ledger' = ledger
    BY <2>1 DEF TypeOK
  <2>2. CASE Policy[i] = "HOLD" /\ CreateHold(n, h, i)
    <3> DEFINE hold == [status |-> "held", intent |-> i]
    <3>1. hold \in Hold /\ hold.status = "held" /\ hold.intent = i
      BY HoldType DEF Statuses
    <3>2. ledger' = [ledger EXCEPT ![n][h] = hold]
      BY <2>2 DEF CreateHold
    <3> HIDE DEF hold
    <3>3. /\ ledger' \in [Instances -> [Ids -> Hold]]
          /\ \A m \in Instances, j \in Ids :
               ledger'[m][j] = IF m = n /\ j = h THEN hold ELSE ledger[m][j]
      <4>1. hold \in Hold
        BY <3>1
      <4> QED
        BY <3>2, <4>1, LedgerSet
    <3> QED
      BY <2>2, <3>1, <3>3
  <2> QED
    BY <2>1, <2>2 DEF Submit
<1>5. UNCHANGED <<simulation, browser, click, phase, sending, applied, recycled>>
  BY DEF Submit
<1>6. TypeOK'
  BY <1>2, <1>3, <1>4, <1>5 DEF TypeOK, Places
<1> QED
  BY <1>2, <1>3, <1>4, <1>6

LEMMA ShowsType ==
    ASSUME TypeOK, RunsAreDecided, NEW r \in Runs, Shows(r)
    PROVE  /\ TypeOK'
           /\ run[r].id \in Ids /\ run[r].intent \in Intents /\ Policy[run[r].intent] = "HOLD"
           /\ pc[r] = "held" /\ \A q \in Runs : pc'[q] = IF q = r THEN "shown" ELSE pc[q]
           /\ \A j \in Ids :
                \/ browser'[j] = browser[j]
                \/ /\ j = run[r].id
                   /\ browser'[j].status = "held" /\ browser'[j].intent = run[r].intent
<1>1. pc[r] = "held" /\ Moves(r, "shown")
  BY DEF Shows
<1>2. run[r].id \in Ids /\ run[r].intent \in Intents /\ Policy[run[r].intent] = "HOLD"
  BY <1>1 DEF RunsAreDecided, RunIsDecided
<1>3. pc' \in [Runs -> Places] /\ \A q \in Runs : pc'[q] = IF q = r THEN "shown" ELSE pc[q]
  <2>1. "shown" \in Places
    BY DEF Places
  <2> QED
    BY <1>1, <2>1, MovesType
<1> DEFINE hold == [status |-> "held", intent |-> run[r].intent]
<1>4. hold \in Hold /\ hold.status = "held" /\ hold.intent = run[r].intent
  BY <1>2, HoldType DEF Statuses
<1>5. browser' = [browser EXCEPT ![run[r].id] = hold]
  BY DEF Shows
<1> HIDE DEF hold
<1>6. /\ browser' \in [Ids -> Hold]
      /\ \A j \in Ids : browser'[j] = IF j = run[r].id THEN hold ELSE browser[j]
  BY <1>2, <1>4, <1>5, BrowserSet
<1>7. TypeOK'
  BY <1>3, <1>6 DEF Shows, TypeOK, Places
<1> QED
  BY <1>1, <1>2, <1>3, <1>4, <1>6, <1>7

LEMMA SimulateType ==
    ASSUME TypeOK, NEW r \in Runs, Simulate(r)
    PROVE  /\ TypeOK'
           /\ \A q \in Runs : q # r => pc'[q] = pc[q] /\ simulation'[q] = simulation[q]
           /\ \/ /\ simulation'[r] = "passes" /\ run[r].broadcast /\ pc'[r] = "broadcast"
                 /\ \A c \in Calls : sending'[c] = IF c = <<"run", r>> THEN "wire" ELSE sending[c]
              \/ pc'[r] = "done" /\ sending' = sending
<1>1. PICK s \in {"passes", "refuses", "throws"} :
         /\ simulation' = [simulation EXCEPT ![r] = s]
         /\ IF Passes(s) /\ run[r].broadcast
              THEN Moves(r, "broadcast") /\ Send(<<"run", r>>)
              ELSE Moves(r, "done") /\ UNCHANGED sending
  BY DEF Simulate
<1>2. /\ simulation' \in [Runs -> {"none", "passes", "refuses", "throws"}]
      /\ \A q \in Runs : simulation'[q] = IF q = r THEN s ELSE simulation[q]
  BY <1>1 DEF TypeOK
<1>3. "broadcast" \in Places /\ "done" \in Places
  BY DEF Places
<1>4. CASE Passes(s) /\ run[r].broadcast
  <2>1. pc' \in [Runs -> Places] /\ \A q \in Runs : pc'[q] = IF q = r THEN "broadcast" ELSE pc[q]
    BY <1>1, <1>3, <1>4, MovesType
  <2>2. /\ sending' \in [Calls -> Sendings]
        /\ \A c \in Calls : sending'[c] = IF c = <<"run", r>> THEN "wire" ELSE sending[c]
    BY <1>1, <1>4, CallsOf, SendType
  <2>3. TypeOK'
    BY <1>2, <2>1, <2>2 DEF Simulate, TypeOK, Places, Sendings
  <2> QED
    BY <1>2, <1>4, <2>1, <2>2, <2>3 DEF Passes
<1>5. CASE ~(Passes(s) /\ run[r].broadcast)
  <2>1. pc' \in [Runs -> Places] /\ \A q \in Runs : pc'[q] = IF q = r THEN "done" ELSE pc[q]
    BY <1>1, <1>3, <1>5, MovesType
  <2>2. TypeOK'
    BY <1>1, <1>2, <1>5, <2>1 DEF Simulate, TypeOK, Places
  <2> QED
    BY <1>1, <1>2, <1>5, <2>1, <2>2
<1> QED
  BY <1>4, <1>5

LEMMA BroadcastEndsType ==
    ASSUME TypeOK, NEW r \in Runs, BroadcastEnds(r)
    PROVE  TypeOK' /\ \A q \in Runs : pc'[q] = IF q = r THEN "done" ELSE pc[q]
<1>1. "done" \in Places
  BY DEF Places
<1>2. pc' \in [Runs -> Places] /\ \A q \in Runs : pc'[q] = IF q = r THEN "done" ELSE pc[q]
  BY <1>1, MovesType DEF BroadcastEnds
<1> QED
  BY <1>2 DEF BroadcastEnds, TypeOK, Places

\* A release broadcasts a hold of this instance, the browser's copy of one, or a
\* body, or it fails.
LEMMA ReleaseType ==
    ASSUME TypeOK, HoldsAreHeld, NEW c \in Clicks, NEW h \in Ids, NEW n \in Instances,
           Release(c, h, n)
    PROVE  /\ TypeOK'
           /\ \A d \in Clicks : d # c => click'[d] = click[d] /\ phase'[d] = phase[d]
           /\ \A d \in Calls : d # <<"release", c>> => sending'[d] = sending[d]
           /\ \/ click' = click /\ sending' = sending /\ phase'[c] = "done"
              \/ /\ phase'[c] = "broadcast" /\ sending'[<<"release", c>>] = "wire"
                 /\ click'[c].id \in Ids /\ click'[c].intent \in Intents
                 /\ click'[c].at \in Instances
                 /\ click'[c].from # "body" => IsHeld(click'[c].id, click'[c].intent)
<1>1. CASE \E from \in {"ledger", "copy", "body"}, id \in Ids, i \in Intents :
             /\ Broadcasts(c, n, from, id, i)
             /\ from # "body" => IsHeld(id, i)
  <2>1. PICK from \in {"ledger", "copy", "body"}, id \in Ids, i \in Intents :
             /\ Broadcasts(c, n, from, id, i)
             /\ from # "body" => IsHeld(id, i)
    BY <1>1
  <2>2. /\ click' \in [Clicks -> Click] /\ phase' \in [Clicks -> Phases]
        /\ sending' \in [Calls -> Sendings]
        /\ /\ click'[c].at = n /\ click'[c].from = from
           /\ click'[c].id = id /\ click'[c].intent = i
        /\ phase'[c] = "broadcast"
        /\ \A d \in Clicks : d # c => click'[d] = click[d] /\ phase'[d] = phase[d]
        /\ \A d \in Calls : sending'[d] = IF d = <<"release", c>> THEN "wire" ELSE sending[d]
    BY <2>1, BroadcastsType
  <2>3. TypeOK'
    BY <2>2 DEF Release, TypeOK, Phases, Sendings
  <2> QED
    BY <2>1, <2>2, <2>3, CallsOf
<1>2. CASE /\ phase' = [phase EXCEPT ![c] = "done"]
           /\ UNCHANGED <<click, sending>>
  BY <1>2 DEF Release, TypeOK
<1>3. ASSUME ledger[n][h].status = "held", Broadcasts(c, n, "ledger", h, ledger[n][h].intent)
      PROVE  \E i \in Intents : Broadcasts(c, n, "ledger", h, i) /\ IsHeld(h, i)
  <2>1. IsHeld(h, ledger[n][h].intent)
    BY <1>3 DEF HoldsAreHeld
  <2> QED
    BY <1>3, <2>1 DEF IsHeld
<1>4. ASSUME browser[h].status # "none", Broadcasts(c, n, "copy", h, browser[h].intent)
      PROVE  \E i \in Intents : Broadcasts(c, n, "copy", h, i) /\ IsHeld(h, i)
  <2>1. IsHeld(h, browser[h].intent)
    BY <1>4 DEF HoldsAreHeld
  <2> QED
    BY <1>4, <2>1 DEF IsHeld
<1>5. ASSUME NEW body \in Bodies, Broadcasts(c, n, "body", body[1], body[2])
      PROVE  \E id \in Ids, i \in Intents : Broadcasts(c, n, "body", id, i)
  <2>1. body[1] \in Ids /\ body[2] \in Intents
    BY DashboardConstants
  <2> QED
    BY <1>5, <2>1
<1> QED
  BY <1>1, <1>2, <1>3, <1>4, <1>5 DEF Release

LEMMA CancelType ==
    ASSUME TypeOK, NEW c \in Clicks, NEW h \in Ids, NEW n \in Instances, Cancel(c, h, n)
    PROVE  /\ TypeOK'
           /\ \A d \in Clicks : phase'[d] = IF d = c THEN "done" ELSE phase[d]
           /\ \A m \in Instances, j \in Ids :
                \/ ledger'[m][j] = ledger[m][j]
                \/ /\ ledger[m][j].status # "none"
                   /\ ledger'[m][j].status = "cancelled" /\ ledger'[m][j].intent = ledger[m][j].intent
           /\ \A j \in Ids :
                \/ browser'[j] = browser[j]
                \/ /\ browser[j].status # "none"
                   /\ browser'[j].status = "cancelled" /\ browser'[j].intent = browser[j].intent
<1>1. /\ phase' \in [Clicks -> Phases]
      /\ \A d \in Clicks : phase'[d] = IF d = c THEN "done" ELSE phase[d]
  BY DEF Cancel, TypeOK, Phases
<1>2. CASE Resolves(n, h, "cancelled") /\ CopyStatus(h, "cancelled")
  <2>1. "cancelled" \in Statuses
    BY DEF Statuses
  <2>2. /\ ledger' \in [Instances -> [Ids -> Hold]]
        /\ \A m \in Instances, j \in Ids :
             \/ ledger'[m][j] = ledger[m][j]
             \/ /\ j = h /\ ledger[m][j].status = "held"
                /\ ledger'[m][j].status = "cancelled" /\ ledger'[m][j].intent = ledger[m][j].intent
    BY <1>2, <2>1, ResolvesType
  <2>3. /\ browser' \in [Ids -> Hold]
        /\ \A j \in Ids :
             \/ browser'[j] = browser[j]
             \/ /\ j = h /\ browser[j].status # "none"
                /\ browser'[j].status = "cancelled" /\ browser'[j].intent = browser[j].intent
    BY <1>2, <2>1, CopyStatusType
  <2>4. TypeOK'
    BY <1>1, <2>2, <2>3 DEF Cancel, TypeOK, Phases
  <2> QED
    BY <1>1, <2>2, <2>3, <2>4
<1>3. CASE UNCHANGED <<ledger, browser>>
  BY <1>1, <1>3 DEF Cancel, TypeOK, Phases
<1> QED
  BY <1>2, <1>3 DEF Cancel

LEMMA ReleasedType ==
    ASSUME TypeOK, ReleasesAreDecided, NEW c \in Clicks, Released(c)
    PROVE  /\ TypeOK' /\ click[c].id \in Ids
           /\ \A d \in Clicks : phase'[d] = IF d = c THEN "done" ELSE phase[d]
           /\ \A m \in Instances, j \in Ids :
                \/ ledger'[m][j] = ledger[m][j]
                \/ /\ j = click[c].id /\ ledger[m][j].status # "none"
                   /\ ledger'[m][j].status = "released" /\ ledger'[m][j].intent = ledger[m][j].intent
           /\ \A j \in Ids :
                \/ browser'[j] = browser[j]
                \/ /\ j = click[c].id /\ browser[j].status # "none"
                   /\ browser'[j].status = "released" /\ browser'[j].intent = browser[j].intent
<1>1. click[c].id \in Ids /\ click[c].at \in Instances
  BY DEF Released, ReleasesAreDecided, ReleaseIsDecided
<1>2. "released" \in Statuses
  BY DEF Statuses
<1>3. /\ ledger' \in [Instances -> [Ids -> Hold]]
      /\ \A m \in Instances, j \in Ids :
           \/ ledger'[m][j] = ledger[m][j]
           \/ /\ j = click[c].id /\ ledger[m][j].status # "none"
              /\ ledger'[m][j].status = "released" /\ ledger'[m][j].intent = ledger[m][j].intent
  <2>1. CASE Resolves(click[c].at, click[c].id, "released")
    <3>1. /\ ledger' \in [Instances -> [Ids -> Hold]]
          /\ \A m \in Instances, j \in Ids :
               \/ ledger'[m][j] = ledger[m][j]
               \/ /\ j = click[c].id /\ ledger[m][j].status = "held"
                  /\ ledger'[m][j].status = "released" /\ ledger'[m][j].intent = ledger[m][j].intent
      BY <1>1, <1>2, <2>1, ResolvesType
    <3> QED
      BY <3>1
  <2>2. CASE ledger' = ledger
    BY <2>2 DEF TypeOK
  <2> QED
    BY <2>1, <2>2 DEF Released
<1>4. /\ browser' \in [Ids -> Hold]
      /\ \A j \in Ids :
           \/ browser'[j] = browser[j]
           \/ /\ j = click[c].id /\ browser[j].status # "none"
              /\ browser'[j].status = "released" /\ browser'[j].intent = browser[j].intent
  <2>1. CASE CopyStatus(click[c].id, "released")
    BY <1>1, <1>2, <2>1, CopyStatusType
  <2>2. CASE browser' = browser
    BY <2>2 DEF TypeOK
  <2> QED
    BY <2>1, <2>2 DEF Released
<1>5. /\ phase' \in [Clicks -> Phases]
      /\ \A d \in Clicks : phase'[d] = IF d = c THEN "done" ELSE phase[d]
  BY DEF Released, TypeOK, Phases
<1>6. TypeOK'
  BY <1>3, <1>4, <1>5 DEF Released, TypeOK, Phases
<1> QED
  BY <1>1, <1>3, <1>4, <1>5, <1>6

LEMMA ReleaseFailsType ==
    ASSUME TypeOK, NEW c \in Clicks, ReleaseFails(c)
    PROVE  TypeOK' /\ \A d \in Clicks : phase'[d] = IF d = c THEN "done" ELSE phase[d]
BY DEF ReleaseFails, TypeOK

LEMMA DismissType ==
    ASSUME TypeOK, NEW h \in Ids, Dismiss(h)
    PROVE  TypeOK' /\ \A j \in Ids : browser'[j] = browser[j] \/ browser'[j].status = "none"
<1>1. /\ browser' \in [Ids -> Hold]
      /\ \A j \in Ids : browser'[j] = IF j = h THEN NoHold ELSE browser[j]
  BY NoHoldType, BrowserSet DEF Dismiss
<1>2. TypeOK'
  BY <1>1 DEF Dismiss, TypeOK
<1> QED
  BY <1>1, <1>2, NoHoldType

LEMMA RecycleType ==
    ASSUME TypeOK, NEW n \in Instances, Recycle(n)
    PROVE  /\ TypeOK'
           /\ \A m \in Instances, j \in Ids :
                ledger'[m][j] = ledger[m][j] \/ ledger'[m][j].status = "none"
           /\ \A r \in Runs : pc'[r] = pc[r] \/ (pc[r] \in {"simulate", "broadcast"} /\ pc'[r] = "done")
           /\ \A c \in Clicks : phase'[c] = phase[c] \/ (phase[c] = "broadcast" /\ phase'[c] = "done")
<1> DEFINE empty == [h \in Ids |-> NoHold]
<1>1. empty \in [Ids -> Hold] /\ \A j \in Ids : empty[j] = NoHold
  BY NoHoldType
<1>2. ledger' = [ledger EXCEPT ![n] = empty]
  BY DEF Recycle
<1> HIDE DEF empty
<1>3. /\ ledger' \in [Instances -> [Ids -> Hold]]
      /\ \A m \in Instances : ledger'[m] = IF m = n THEN empty ELSE ledger[m]
  BY <1>1, <1>2 DEF TypeOK
<1>4. /\ pc' \in [Runs -> Places]
      /\ \A r \in Runs : pc'[r] = pc[r] \/ (pc[r] \in {"simulate", "broadcast"} /\ pc'[r] = "done")
  BY DEF Recycle, TypeOK, Places
<1>5. /\ phase' \in [Clicks -> Phases]
      /\ \A c \in Clicks : phase'[c] = phase[c] \/ (phase[c] = "broadcast" /\ phase'[c] = "done")
  BY DEF Recycle, TypeOK, Phases
<1>6. TypeOK'
  BY <1>3, <1>4, <1>5 DEF Recycle, TypeOK, Places, Phases
<1> QED
  BY <1>1, <1>3, <1>4, <1>5, <1>6, NoHoldType

LEMMA CallsAreKnown ==
    ASSUME RunsAreDecided, ReleasesAreDecided, NEW c \in Calls, sending[c] # "idle"
    PROVE  IdOf(c) \in Ids /\ IntentOf(c) \in Intents
<1>1. CASE c[1] = "run" /\ c[2] \in Runs /\ c = <<"run", c[2]>>
  <2>1. RunIsDecided(c[2])
    BY <1>1 DEF RunsAreDecided
  <2>2. pc[c[2]] # "new"
    BY <1>1, <2>1 DEF RunIsDecided
  <2> QED
    BY <1>1, <2>1, <2>2 DEF RunIsDecided, IdOf, IntentOf
<1>2. CASE c[1] = "release" /\ c[2] \in Clicks /\ c = <<"release", c[2]>>
  BY <1>2 DEF ReleasesAreDecided, ReleaseIsDecided, IdOf, IntentOf
<1> QED
  BY <1>1, <1>2, CallsOf

LEMMA ApplyType ==
    ASSUME TypeOK, RunsAreDecided, ReleasesAreDecided, NEW c \in Calls, Apply(c)
    PROVE  /\ TypeOK' /\ sending[c] = "wire"
           /\ \A d \in Calls : sending'[d] = IF d = c THEN "taken" ELSE sending[d]
<1>1. sending[c] = "wire" /\ \A d \in Calls : sending'[d] = IF d = c THEN "taken" ELSE sending[d]
  BY DEF Apply, TypeOK
<1>2. IdOf(c) \in Ids
  BY <1>1, CallsAreKnown
<1>3. [key |-> KeyOf(c), by |-> c] \in [key : Keys, by : Calls]
  BY <1>2 DEF KeyOf, Keys
<1>4. applied' \subseteq [key : Keys, by : Calls]
  BY <1>3 DEF Apply, TypeOK
<1>5. TypeOK'
  BY <1>4 DEF Apply, TypeOK
<1> QED
  BY <1>1, <1>5

LEMMA NextType == ASSUME IInv, Next PROVE TypeOK'
<1> USE DEF IInv
<1>1. ASSUME NEW r \in Runs, NEW h \in Ids, NEW i \in Intents, NEW n \in Instances, Submit(r, h, i, n)
      PROVE  TypeOK'
  BY <1>1, SubmitType
<1>2. ASSUME NEW r \in Runs, Shows(r) \/ Simulate(r) \/ BroadcastEnds(r) PROVE TypeOK'
  BY <1>2, ShowsType, SimulateType, BroadcastEndsType
<1>3. ASSUME NEW c \in Clicks, NEW h \in Ids, NEW n \in Instances, Release(c, h, n) \/ Cancel(c, h, n)
      PROVE  TypeOK'
  BY <1>3, ReleaseType, CancelType
<1>4. ASSUME NEW c \in Clicks, Released(c) \/ ReleaseFails(c) PROVE TypeOK'
  BY <1>4, ReleasedType, ReleaseFailsType
<1>5. ASSUME NEW h \in Ids, Dismiss(h) PROVE TypeOK'
  BY <1>5, DismissType
<1>6. ASSUME NEW n \in Instances, Recycle(n) PROVE TypeOK'
  BY <1>6, RecycleType
<1>7. ASSUME NEW c \in Calls, Apply(c) PROVE TypeOK'
  BY <1>7, ApplyType
<1> QED
  BY <1>1, <1>2, <1>3, <1>4, <1>5, <1>6, <1>7 DEF Next
-----------------------------------------------------------------------------
(* What was submitted, and asked of KeeperHub, stays so, under its id.     *)

LEMMA RunsStay ==
    ASSUME IInv, Next, NEW r \in Runs, pc[r] # "new"
    PROVE  pc'[r] # "new" /\ run'[r] = run[r]
<1> USE DEF IInv
<1>1. ASSUME NEW q \in Runs, NEW h \in Ids, NEW i \in Intents, NEW n \in Instances, Submit(q, h, i, n)
      PROVE  pc'[r] # "new" /\ run'[r] = run[r]
  <2>1. pc[q] = "new"
    BY <1>1 DEF Submit
  <2>2. \A p \in Runs : p # q => run'[p] = run[p] /\ pc'[p] = pc[p]
    BY <1>1, SubmitType
  <2> QED
    BY <2>1, <2>2
<1>2. ASSUME NEW q \in Runs, Shows(q) PROVE pc'[r] # "new" /\ run'[r] = run[r]
  BY <1>2, ShowsType DEF Shows
<1>3. ASSUME NEW q \in Runs, Simulate(q) PROVE pc'[r] # "new" /\ run'[r] = run[r]
  BY <1>3, SimulateType DEF Simulate
<1>4. ASSUME NEW q \in Runs, BroadcastEnds(q) PROVE pc'[r] # "new" /\ run'[r] = run[r]
  BY <1>4, BroadcastEndsType DEF BroadcastEnds
<1>5. ASSUME NEW n \in Instances, Recycle(n) PROVE pc'[r] # "new" /\ run'[r] = run[r]
  BY <1>5, RecycleType DEF Recycle
<1> QED
  BY <1>1, <1>2, <1>3, <1>4, <1>5 DEF Next, Release, Cancel, Released, ReleaseFails, Dismiss, Apply

LEMMA HeldStays == ASSUME IInv, Next, NEW id, NEW i, IsHeld(id, i) PROVE IsHeld(id, i)'
<1>1. PICK r \in Runs : pc[r] # "new" /\ run[r].id = id /\ run[r].intent = i
  BY DEF IsHeld, WasSubmitted
<1>2. pc'[r] # "new" /\ run'[r].id = id /\ run'[r].intent = i
  BY <1>1, RunsStay
<1> QED
  BY <1>2 DEF IsHeld, WasSubmitted

LEMMA CallsStay ==
    ASSUME IInv, Next, NEW c \in Calls, sending[c] # "idle"
    PROVE  /\ sending'[c] # "idle"
           /\ sending[c] = "taken" => sending'[c] = "taken"
           /\ KeyOf(c)' = KeyOf(c)
           /\ c[1] = "release" => click'[c[2]] = click[c[2]]
<1> USE DEF IInv
<1>1. sending'[c] # "idle" /\ (sending[c] = "taken" => sending'[c] = "taken")
  <2>1. ASSUME NEW r \in Runs, Simulate(r)
        PROVE  sending'[c] # "idle" /\ (sending[c] = "taken" => sending'[c] = "taken")
    <3>1. sending[<<"run", r>>] = "idle"
      BY <2>1 DEF Simulate, RunsAreDecided, RunIsDecided
    <3> QED
      BY <2>1, <3>1, SimulateType
  <2>2. ASSUME NEW d \in Clicks, NEW h \in Ids, NEW n \in Instances, Release(d, h, n)
        PROVE  sending'[c] # "idle" /\ (sending[c] = "taken" => sending'[c] = "taken")
    <3>1. sending[<<"release", d>>] = "idle"
      BY <2>2 DEF Release, ReleasesAreDecided, ReleaseIsDecided
    <3>2. \A e \in Calls : e # <<"release", d>> => sending'[e] = sending[e]
      BY <2>2, ReleaseType
    <3> QED
      BY <3>1, <3>2
  <2>3. ASSUME NEW d \in Calls, Apply(d)
        PROVE  sending'[c] # "idle" /\ (sending[c] = "taken" => sending'[c] = "taken")
    BY <2>3, ApplyType
  <2> QED
    BY <2>1, <2>2, <2>3
       DEF Next, Submit, Shows, BroadcastEnds, Cancel, Released, ReleaseFails, Dismiss, Recycle
<1>2. CASE c[1] = "run" /\ c[2] \in Runs /\ c = <<"run", c[2]>>
  <2>1. pc[c[2]] # "new"
    BY <1>2 DEF RunsAreDecided, RunIsDecided
  <2>2. run'[c[2]] = run[c[2]]
    BY <1>2, <2>1, RunsStay
  <2> QED
    BY <1>1, <1>2, <2>2 DEF KeyOf, IdOf
<1>3. CASE c[1] = "release" /\ c[2] \in Clicks /\ c = <<"release", c[2]>>
  <2>1. phase[c[2]] # "idle"
    BY <1>3 DEF ReleasesAreDecided, ReleaseIsDecided
  <2>2. ASSUME NEW d \in Clicks, NEW h \in Ids, NEW n \in Instances, Release(d, h, n)
        PROVE  click'[c[2]] = click[c[2]]
    <3>1. c[2] # d
      BY <2>1, <2>2 DEF Release
    <3>2. \A e \in Clicks : e # d => click'[e] = click[e]
      BY <2>2, ReleaseType
    <3> QED
      BY <1>3, <3>1, <3>2
  <2>3. click'[c[2]] = click[c[2]]
    BY <2>2 DEF Next, Submit, Shows, Simulate, BroadcastEnds, Cancel, Released, ReleaseFails,
                Dismiss, Recycle, Apply
  <2> QED
    BY <1>1, <1>3, <2>3 DEF KeyOf, IdOf
<1> QED
  BY <1>2, <1>3, CallsOf

\* Only Apply takes a call up.
LEMMA OnlyApplyTakes ==
    ASSUME IInv, Next, NEW c \in Calls, ~Apply(c), sending'[c] = "taken"
    PROVE  sending[c] = "taken"
<1> USE DEF IInv
<1>1. ASSUME NEW r \in Runs, Simulate(r) PROVE sending[c] = "taken"
  BY <1>1, SimulateType
<1>2. ASSUME NEW d \in Clicks, NEW h \in Ids, NEW n \in Instances, Release(d, h, n)
      PROVE  sending[c] = "taken"
  <2>1. \A e \in Calls : e # <<"release", d>> => sending'[e] = sending[e]
    BY <1>2, ReleaseType
  <2>2. sending'[<<"release", d>>] = "wire" \/ sending' = sending
    BY <1>2, ReleaseType
  <2> QED
    BY <2>1, <2>2
<1>3. ASSUME NEW d \in Calls, Apply(d) PROVE sending[c] = "taken"
  BY <1>3, ApplyType
<1> QED
  BY <1>1, <1>2, <1>3
     DEF Next, Submit, Shows, BroadcastEnds, Cancel, Released, ReleaseFails, Dismiss, Recycle
-----------------------------------------------------------------------------
(* The invariant is kept                                                   *)

LEMMA RunsKept == ASSUME IInv, Next PROVE RunsAreDecided'
<1> SUFFICES ASSUME NEW q \in Runs PROVE RunIsDecided(q)'
  BY DEF RunsAreDecided
<1> USE DEF IInv
<1>0. RunIsDecided(q)
  BY DEF RunsAreDecided
<1>1. ASSUME NEW r \in Runs, NEW h \in Ids, NEW i \in Intents, NEW n \in Instances, Submit(r, h, i, n)
      PROVE  RunIsDecided(q)'
  <2>1. UNCHANGED <<sending, simulation>> /\ pc[r] = "new"
    BY <1>1 DEF Submit
  <2>2. /\ run'[r].id = h /\ run'[r].intent = i
        /\ \A p \in Runs : p # r => run'[p] = run[p] /\ pc'[p] = pc[p]
        /\ \/ pc'[r] = "held" /\ Policy[i] = "HOLD"
           \/ pc'[r] = "done" /\ Policy[i] = "DENY"
           \/ pc'[r] = "simulate" /\ Policy[i] = "ALLOW"
    BY <1>1, SubmitType
  <2>3. CASE q # r
    BY <1>0, <2>1, <2>2, <2>3 DEF RunIsDecided
  <2>4. CASE q = r
    BY <1>0, <2>1, <2>2, <2>4 DEF RunIsDecided
  <2> QED
    BY <2>3, <2>4
<1>2. ASSUME NEW r \in Runs, Shows(r) PROVE RunIsDecided(q)'
  <2>1. pc[r] = "held" /\ pc'[q] = IF q = r THEN "shown" ELSE pc[q]
    BY <1>2, ShowsType
  <2> QED
    BY <1>0, <1>2, <2>1 DEF Shows, RunIsDecided
<1>3. ASSUME NEW r \in Runs, Simulate(r) PROVE RunIsDecided(q)'
  <2>1. /\ \A p \in Runs : p # r => pc'[p] = pc[p] /\ simulation'[p] = simulation[p]
        /\ \/ /\ simulation'[r] = "passes" /\ run[r].broadcast /\ pc'[r] = "broadcast"
              /\ \A c \in Calls : sending'[c] = IF c = <<"run", r>> THEN "wire" ELSE sending[c]
           \/ pc'[r] = "done" /\ sending' = sending
    BY <1>3, SimulateType
  <2>2. pc[r] = "simulate" /\ run' = run
    BY <1>3 DEF Simulate
  <2>3. <<"run", q>> \in Calls /\ (q # r => <<"run", q>> # <<"run", r>>)
    BY CallsOf
  <2>4. CASE q # r
    <3>1. sending'[<<"run", q>>] = sending[<<"run", q>>]
      BY <2>1, <2>3, <2>4
    <3> QED
      BY <1>0, <2>1, <2>2, <2>4, <3>1 DEF RunIsDecided
  <2>5. CASE q = r
    BY <1>0, <2>1, <2>2, <2>5 DEF RunIsDecided
  <2> QED
    BY <2>4, <2>5
<1>4. ASSUME NEW r \in Runs, BroadcastEnds(r) PROVE RunIsDecided(q)'
  <2>1. pc[r] = "broadcast" /\ pc'[q] = IF q = r THEN "done" ELSE pc[q]
    BY <1>4, BroadcastEndsType DEF BroadcastEnds
  <2> QED
    BY <1>0, <1>4, <2>1 DEF BroadcastEnds, RunIsDecided
<1>5. ASSUME NEW c \in Clicks, NEW h \in Ids, NEW n \in Instances, Release(c, h, n)
      PROVE  RunIsDecided(q)'
  <2>1. \A d \in Calls : d # <<"release", c>> => sending'[d] = sending[d]
    BY <1>5, ReleaseType
  <2>2. <<"run", q>> \in Calls /\ <<"run", q>> # <<"release", c>>
    BY CallsOf
  <2>3. sending'[<<"run", q>>] = sending[<<"run", q>>]
    BY <2>1, <2>2
  <2> QED
    BY <1>0, <1>5, <2>3 DEF Release, RunIsDecided
<1>6. ASSUME NEW n \in Instances, Recycle(n) PROVE RunIsDecided(q)'
  <2>1. pc'[q] = pc[q] \/ (pc[q] # "new" /\ pc'[q] = "done")
    BY <1>6, RecycleType
  <2> QED
    BY <1>0, <1>6, <2>1 DEF Recycle, RunIsDecided
<1>7. ASSUME NEW c \in Calls, Apply(c) PROVE RunIsDecided(q)'
  <2>1. sending[<<"run", q>>] = "idle" => sending'[<<"run", q>>] = "idle"
    BY <1>7, CallsOf, ApplyType
  <2> QED
    BY <1>0, <1>7, <2>1 DEF Apply, RunIsDecided
<1> QED
  BY <1>0, <1>1, <1>2, <1>3, <1>4, <1>5, <1>6, <1>7
     DEF Next, Cancel, Released, ReleaseFails, Dismiss, RunIsDecided

\* What becomes of a hold in a step: it stays, goes, is made for an intent that was
\* submitted, or is resolved; released, by an operator whose release was taken up.
LEMMA LedgerStep ==
    ASSUME IInv, Next, NEW j \in Ids, NEW m \in Instances
    PROVE  \/ ledger'[m][j] = ledger[m][j]
           \/ ledger'[m][j].status = "none"
           \/ ledger'[m][j].status = "held" /\ IsHeld(j, ledger[m][j].intent)'
           \/ /\ ledger[m][j].status # "none" /\ ledger'[m][j].intent = ledger[m][j].intent
              /\ \/ ledger'[m][j].status = "cancelled"
                 \/ \E c \in Clicks : Released(c) /\ click[c].id = j
<1> USE DEF IInv
<1>1. ASSUME NEW r \in Runs, NEW h \in Ids, NEW i \in Intents, NEW n \in Instances, Submit(r, h, i, n)
      PROVE  \/ ledger'[m][j] = ledger[m][j]
             \/ ledger'[m][j].status = "held" /\ IsHeld(j, ledger[m][j].intent)'
  <2>1. /\ run'[r].id = h /\ run'[r].intent = i
        /\ pc'[r] # "new"
        /\ \/ ledger'[m][j] = ledger[m][j]
           \/ /\ j = h /\ Policy[i] = "HOLD"
              /\ ledger'[m][j].status = "held" /\ ledger'[m][j].intent = i
    BY <1>1, SubmitType
  <2> QED
    BY <2>1 DEF IsHeld, WasSubmitted
<1>2. ASSUME NEW c \in Clicks, NEW h \in Ids, NEW n \in Instances, Cancel(c, h, n)
      PROVE  \/ ledger'[m][j] = ledger[m][j]
             \/ /\ ledger[m][j].status # "none" /\ ledger'[m][j].intent = ledger[m][j].intent
                /\ ledger'[m][j].status = "cancelled"
  BY <1>2, CancelType
<1>3. ASSUME NEW c \in Clicks, Released(c)
      PROVE  \/ ledger'[m][j] = ledger[m][j]
             \/ /\ ledger[m][j].status # "none" /\ ledger'[m][j].intent = ledger[m][j].intent
                /\ click[c].id = j
  BY <1>3, ReleasedType
<1>4. ASSUME NEW n \in Instances, Recycle(n)
      PROVE  ledger'[m][j] = ledger[m][j] \/ ledger'[m][j].status = "none"
  BY <1>4, RecycleType
<1> QED
  BY <1>1, <1>2, <1>3, <1>4
     DEF Next, Shows, Simulate, BroadcastEnds, Release, ReleaseFails, Dismiss, Apply

LEMMA BrowserStep ==
    ASSUME IInv, Next, NEW j \in Ids
    PROVE  \/ browser'[j] = browser[j]
           \/ browser'[j].status = "none"
           \/ browser'[j].status = "held" /\ IsHeld(j, browser[j].intent)'
           \/ /\ browser[j].status # "none" /\ browser'[j].intent = browser[j].intent
              /\ \/ browser'[j].status = "cancelled"
                 \/ \E c \in Clicks : Released(c) /\ click[c].id = j
<1> USE DEF IInv
<1>1. ASSUME NEW r \in Runs, Shows(r)
      PROVE  \/ browser'[j] = browser[j]
             \/ browser'[j].status = "held" /\ IsHeld(j, browser[j].intent)'
  <2>1. /\ pc'[r] # "new" /\ run[r].intent \in Intents /\ Policy[run[r].intent] = "HOLD"
        /\ \/ browser'[j] = browser[j]
           \/ /\ j = run[r].id
              /\ browser'[j].status = "held" /\ browser'[j].intent = run[r].intent
    BY <1>1, ShowsType
  <2>2. run' = run
    BY <1>1 DEF Shows
  <2> QED
    BY <2>1, <2>2 DEF IsHeld, WasSubmitted
<1>2. ASSUME NEW c \in Clicks, NEW h \in Ids, NEW n \in Instances, Cancel(c, h, n)
      PROVE  \/ browser'[j] = browser[j]
             \/ /\ browser[j].status # "none" /\ browser'[j].intent = browser[j].intent
                /\ browser'[j].status = "cancelled"
  BY <1>2, CancelType
<1>3. ASSUME NEW c \in Clicks, Released(c)
      PROVE  \/ browser'[j] = browser[j]
             \/ /\ browser[j].status # "none" /\ browser'[j].intent = browser[j].intent
                /\ click[c].id = j
  BY <1>3, ReleasedType
<1>4. ASSUME NEW h \in Ids, Dismiss(h)
      PROVE  browser'[j] = browser[j] \/ browser'[j].status = "none"
  BY <1>4, DismissType
<1>5. ASSUME \/ \E r \in Runs :
                \/ \E h \in Ids, i \in Intents, n \in Instances : Submit(r, h, i, n)
                \/ Simulate(r) \/ BroadcastEnds(r)
             \/ \E c \in Clicks :
                \/ \E h \in Ids, n \in Instances : Release(c, h, n)
                \/ ReleaseFails(c)
             \/ \E n \in Instances : Recycle(n)
             \/ \E c \in Calls : Apply(c)
      PROVE  browser' = browser
  BY <1>5 DEF Submit, Simulate, BroadcastEnds, Release, ReleaseFails, Recycle, Apply
<1> QED
  BY <1>1, <1>2, <1>3, <1>4, <1>5 DEF Next

LEMMA HoldsKept == ASSUME IInv, Next PROVE HoldsAreHeld'
<1>1. ASSUME NEW j \in Ids, browser'[j].status # "none" PROVE IsHeld(j, browser[j].intent)'
  <2>1. CASE browser'[j].status = "held" /\ IsHeld(j, browser[j].intent)'
    BY <2>1
  <2>2. CASE browser[j].status # "none" /\ browser'[j].intent = browser[j].intent
    <3>1. IsHeld(j, browser[j].intent)
      BY <2>2 DEF IInv, HoldsAreHeld
    <3>2. PICK i0 : i0 = browser[j].intent
      OBVIOUS
    <3>3. IsHeld(j, i0)'
      BY <3>1, <3>2, HeldStays
    <3> QED
      BY <2>2, <3>2, <3>3 DEF IsHeld, WasSubmitted
  <2> QED
    BY <1>1, <2>1, <2>2, BrowserStep
<1>2. ASSUME NEW j \in Ids, NEW m \in Instances, ledger'[m][j].status # "none"
      PROVE  IsHeld(j, ledger[m][j].intent)'
  <2>1. CASE ledger'[m][j].status = "held" /\ IsHeld(j, ledger[m][j].intent)'
    BY <2>1
  <2>2. CASE ledger[m][j].status # "none" /\ ledger'[m][j].intent = ledger[m][j].intent
    <3>1. IsHeld(j, ledger[m][j].intent)
      BY <2>2 DEF IInv, HoldsAreHeld
    <3>2. PICK i0 : i0 = ledger[m][j].intent
      OBVIOUS
    <3>3. IsHeld(j, i0)'
      BY <3>1, <3>2, HeldStays
    <3> QED
      BY <2>2, <3>2, <3>3 DEF IsHeld, WasSubmitted
  <2> QED
    BY <1>2, <2>1, <2>2, LedgerStep
<1> QED
  BY <1>1, <1>2 DEF HoldsAreHeld

LEMMA ReleasesKept == ASSUME IInv, Next PROVE ReleasesAreDecided'
<1> SUFFICES ASSUME NEW d \in Clicks PROVE ReleaseIsDecided(d)'
  BY DEF ReleasesAreDecided
<1> USE DEF IInv
<1>0. ReleaseIsDecided(d) /\ <<"release", d>> \in Calls
  BY CallsOf DEF ReleasesAreDecided
<1>1. sending[<<"release", d>>] # "idle" =>
        /\ click'[d].id \in Ids /\ click'[d].intent \in Intents /\ click'[d].at \in Instances
        /\ click'[d].from # "body" => IsHeld(click[d].id, click[d].intent)'
  <2> SUFFICES ASSUME sending[<<"release", d>>] # "idle"
               PROVE  /\ click'[d].id \in Ids /\ click'[d].intent \in Intents
                      /\ click'[d].at \in Instances
                      /\ click'[d].from # "body" => IsHeld(click[d].id, click[d].intent)'
    OBVIOUS
  <2>1. click'[d] = click[d]
    BY <1>0, CallsStay
  <2>2. PICK id, i : id = click[d].id /\ i = click[d].intent
    OBVIOUS
  <2>3. click[d].from # "body" => IsHeld(id, i)'
    BY <1>0, <2>2, HeldStays DEF ReleaseIsDecided
  <2> QED
    BY <1>0, <2>1, <2>2, <2>3 DEF ReleaseIsDecided, IsHeld, WasSubmitted
<1>2. ASSUME NEW c \in Clicks, NEW h \in Ids, NEW n \in Instances, Release(c, h, n)
      PROVE  ReleaseIsDecided(d)'
  <2>1. /\ \A e \in Clicks : e # c => click'[e] = click[e] /\ phase'[e] = phase[e]
        /\ \A e \in Calls : e # <<"release", c>> => sending'[e] = sending[e]
        /\ \/ click' = click /\ sending' = sending /\ phase'[c] = "done"
           \/ /\ phase'[c] = "broadcast" /\ sending'[<<"release", c>>] = "wire"
              /\ click'[c].id \in Ids /\ click'[c].intent \in Intents
              /\ click'[c].at \in Instances
              /\ click'[c].from # "body" => IsHeld(click'[c].id, click'[c].intent)
    BY <1>2, ReleaseType
  <2>2. pc' = pc /\ run' = run
    BY <1>2 DEF Release
  <2>3. CASE d # c
    <3>1. <<"release", d>> # <<"release", c>>
      BY <2>3
    <3>2. phase'[d] = phase[d] /\ sending'[<<"release", d>>] = sending[<<"release", d>>]
      BY <1>0, <2>1, <2>3, <3>1
    <3> QED
      BY <1>0, <1>1, <3>2 DEF ReleaseIsDecided
  <2>4. CASE d = c
    <3>1. CASE click' = click /\ sending' = sending /\ phase'[c] = "done"
      BY <1>0, <1>1, <2>4, <3>1 DEF ReleaseIsDecided
    <3>2. CASE /\ phase'[c] = "broadcast" /\ sending'[<<"release", c>>] = "wire"
               /\ click'[c].id \in Ids /\ click'[c].intent \in Intents
               /\ click'[c].at \in Instances
               /\ click'[c].from # "body" => IsHeld(click'[c].id, click'[c].intent)
      BY <2>2, <2>4, <3>2 DEF ReleaseIsDecided, IsHeld, WasSubmitted
    <3> QED
      BY <2>1, <3>1, <3>2
  <2> QED
    BY <2>3, <2>4
<1>3. ASSUME NEW c \in Clicks, NEW h \in Ids, NEW n \in Instances, Cancel(c, h, n)
      PROVE  ReleaseIsDecided(d)'
  <2>1. sending' = sending /\ phase'[d] = IF d = c THEN "done" ELSE phase[d]
    BY <1>3, CancelType DEF Cancel
  <2> QED
    BY <1>0, <1>1, <2>1 DEF ReleaseIsDecided
<1>4. ASSUME NEW c \in Clicks, Released(c) \/ ReleaseFails(c) PROVE ReleaseIsDecided(d)'
  <2>1. sending' = sending /\ phase[c] = "broadcast" /\ phase'[d] = IF d = c THEN "done" ELSE phase[d]
    BY <1>4, ReleasedType, ReleaseFailsType DEF Released, ReleaseFails
  <2> QED
    BY <1>0, <1>1, <2>1 DEF ReleaseIsDecided
<1>5. ASSUME NEW n \in Instances, Recycle(n) PROVE ReleaseIsDecided(d)'
  <2>1. sending' = sending /\ (phase'[d] = phase[d] \/ (phase[d] = "broadcast" /\ phase'[d] = "done"))
    BY <1>5, RecycleType DEF Recycle
  <2> QED
    BY <1>0, <1>1, <2>1 DEF ReleaseIsDecided
<1>6. ASSUME NEW c \in Calls, Apply(c) PROVE ReleaseIsDecided(d)'
  <2>1. /\ phase' = phase /\ sending[c] = "wire"
        /\ sending'[<<"release", d>>] = IF <<"release", d>> = c THEN "taken" ELSE sending[<<"release", d>>]
    BY <1>0, <1>6, ApplyType DEF Apply
  <2> QED
    BY <1>0, <1>1, <2>1 DEF ReleaseIsDecided
<1>7. ASSUME NEW r \in Runs, Simulate(r) PROVE ReleaseIsDecided(d)'
  <2>1. \/ \A c \in Calls : sending'[c] = IF c = <<"run", r>> THEN "wire" ELSE sending[c]
        \/ sending' = sending
    BY <1>7, SimulateType
  <2>2. <<"release", d>> # <<"run", r>>
    OBVIOUS
  <2>3. sending'[<<"release", d>>] = sending[<<"release", d>>] /\ phase' = phase
    BY <1>0, <1>7, <2>1, <2>2 DEF Simulate
  <2> QED
    BY <1>0, <1>1, <2>3 DEF ReleaseIsDecided
<1>8. ASSUME UNCHANGED <<phase, sending>> PROVE ReleaseIsDecided(d)'
  BY <1>0, <1>1, <1>8 DEF ReleaseIsDecided
<1> QED
  BY <1>2, <1>3, <1>4, <1>5, <1>6, <1>7, <1>8
     DEF Next, Submit, Shows, BroadcastEnds, Dismiss
-----------------------------------------------------------------------------
LEMMA LedgerKept == ASSUME IInv, Next PROVE LedgerIsKeyed'
<1> USE DEF IInv
<1>1. CASE \E c \in Calls : Apply(c)
  <2>1. PICK c \in Calls : Apply(c)
    BY <1>1
  <2>2. /\ sending[c] = "wire"
        /\ applied' = IF Taken(c) THEN applied ELSE applied \cup {[key |-> KeyOf(c), by |-> c]}
    BY <2>1 DEF Apply
  <2>3. \A d \in Calls : KeyOf(d)' = KeyOf(d) /\ sending'[d] = IF d = c THEN "taken" ELSE sending[d]
    BY <2>1, ApplyType DEF Apply, KeyOf, IdOf
  <2>4. \A e \in applied : e.by \in Calls /\ e.by # c
    BY <2>2 DEF LedgerIsKeyed, TypeOK
  <2>5. \A e \in applied' : e.key = KeyOf(e.by)' /\ sending'[e.by] = "taken"
    BY <2>2, <2>3, <2>4 DEF LedgerIsKeyed
  <2>6. ASSUME NEW d \in Calls, sending'[d] = "taken" PROVE Taken(d)'
    <3>1. applied \subseteq applied'
      BY <2>2
    <3>2. CASE Taken(d)
      <4>1. PICK e \in applied : e.key = KeyOf(d)
        BY <3>2 DEF Taken
      <4>2. e \in applied' /\ e.key = KeyOf(d)'
        BY <2>3, <3>1, <4>1
      <4> QED
        BY <4>2 DEF Taken
    <3>3. CASE ~Taken(d)
      <4>1. d = c
        BY <2>3, <2>6, <3>3 DEF LedgerIsKeyed
      <4>2. [key |-> KeyOf(c), by |-> c] \in applied'
        BY <2>2, <3>3, <4>1
      <4>3. [key |-> KeyOf(c), by |-> c].key = KeyOf(d)'
        BY <2>3, <4>1
      <4> QED
        BY <4>2, <4>3 DEF Taken
    <3> QED
      BY <3>2, <3>3
  <2>7. \A d, e \in applied' : d.key = e.key => d = e
    BY <2>2 DEF LedgerIsKeyed, Taken
  <2> QED
    BY <2>5, <2>6, <2>7 DEF LedgerIsKeyed
<1>2. CASE \A c \in Calls : ~Apply(c)
  <2>1. applied' = applied
    BY <1>2 DEF Next, Submit, Shows, Simulate, BroadcastEnds, Release, Cancel, Released,
                ReleaseFails, Dismiss, Recycle
  <2>2. \A e \in applied : e.by \in Calls /\ e.key = KeyOf(e.by) /\ sending[e.by] = "taken"
    BY DEF LedgerIsKeyed, TypeOK
  <2>3. \A e \in applied : e.key = KeyOf(e.by)' /\ sending'[e.by] = "taken"
    BY <2>2, CallsStay
  <2>4. ASSUME NEW c \in Calls, sending'[c] = "taken" PROVE Taken(c)'
    <3>1. sending[c] = "taken"
      BY <1>2, <2>4, OnlyApplyTakes
    <3>2. KeyOf(c)' = KeyOf(c)
      BY <3>1, CallsStay
    <3> QED
      BY <2>1, <3>1, <3>2 DEF LedgerIsKeyed, Taken
  <2> QED
    BY <2>1, <2>3, <2>4 DEF LedgerIsKeyed
<1> QED
  BY <1>1, <1>2

LEMMA ReleasedKept == ASSUME IInv, Next PROVE ReleasedWasSent'
<1> USE DEF IInv
<1>1. ASSUME NEW h \in Ids, \E e \in applied : e.key = <<"release", h>>
      PROVE  \E e \in applied' : e.key = <<"release", h>>
  <2>1. applied \subseteq applied'
    BY ZenonT(40) DEF Next, Submit, Shows, Simulate, BroadcastEnds, Release, Cancel, Released, ReleaseFails,
           Dismiss, Recycle, Apply
  <2> QED
    BY <1>1, <2>1
<1>2. ASSUME NEW h \in Ids, NEW c \in Clicks, Released(c), click[c].id = h
      PROVE  \E e \in applied : e.key = <<"release", h>>
  <2>1. <<"release", c>> \in Calls /\ sending[<<"release", c>>] = "taken"
    BY <1>2, CallsOf DEF Released
  <2>2. PICK e \in applied : e.key = KeyOf(<<"release", c>>)
    BY <2>1 DEF LedgerIsKeyed, Taken
  <2>3. KeyOf(<<"release", c>>) = <<"release", h>>
    BY <1>2 DEF KeyOf, IdOf
  <2> QED
    BY <2>2, <2>3
<1>3. ASSUME NEW h \in Ids, browser'[h].status = "released"
      PROVE  \E e \in applied' : e.key = <<"release", h>>
  <2>1. browser[h].status = "released" \/ \E c \in Clicks : Released(c) /\ click[c].id = h
    BY <1>3, BrowserStep
  <2> QED
    BY <1>1, <1>2, <2>1 DEF ReleasedWasSent
<1>4. ASSUME NEW h \in Ids, NEW n \in Instances, ledger'[n][h].status = "released"
      PROVE  \E e \in applied' : e.key = <<"release", h>>
  <2>1. ledger[n][h].status = "released" \/ \E c \in Clicks : Released(c) /\ click[c].id = h
    BY <1>4, LedgerStep
  <2> QED
    BY <1>1, <1>2, <2>1 DEF ReleasedWasSent
<1> QED
  BY <1>3, <1>4 DEF ReleasedWasSent

LEMMA NextIInv == IInv /\ [Next]_vars => IInv'
<1>1. ASSUME IInv, Next PROVE IInv'
  BY <1>1, NextType, RunsKept, HoldsKept, ReleasesKept, LedgerKept, ReleasedKept DEF IInv
<1>2. ASSUME IInv, UNCHANGED vars PROVE IInv'
  BY <1>2 DEF IInv, vars, TypeOK, RunsAreDecided, RunIsDecided, HoldsAreHeld, IsHeld, WasSubmitted,
              ReleasesAreDecided, ReleaseIsDecided, LedgerIsKeyed, ReleasedWasSent, Taken, KeyOf, IdOf
<1> QED
  BY <1>1, <1>2

LEMMA AlwaysIInv == Spec => []IInv
BY InitIInv, NextIInv, PTL DEF Spec

LEMMA SentIsDecided == IInv => SentWasDecided
<1> SUFFICES ASSUME IInv, NEW e \in applied
             PROVE  IF e.by[1] = "run"
                      THEN /\ Policy[IntentOf(e.by)] = "ALLOW"
                           /\ run[e.by[2]].broadcast
                           /\ simulation[e.by[2]] = "passes"
                      ELSE \/ click[e.by[2]].from = "body"
                           \/ Policy[IntentOf(e.by)] = "HOLD" /\ WasSubmitted(IdOf(e.by), IntentOf(e.by))
  BY DEF SentWasDecided
<1> USE DEF IInv
<1>1. e.by \in Calls /\ sending[e.by] # "idle"
  BY DEF LedgerIsKeyed, TypeOK
<1>2. CASE e.by[1] = "run" /\ e.by[2] \in Runs /\ e.by = <<"run", e.by[2]>>
  <2>1. RunIsDecided(e.by[2]) /\ sending[<<"run", e.by[2]>>] # "idle"
    BY <1>1, <1>2 DEF RunsAreDecided
  <2>2. IntentOf(e.by) = run[e.by[2]].intent
    BY <1>2 DEF IntentOf
  <2> QED
    BY <1>2, <2>1, <2>2 DEF RunIsDecided
<1>3. CASE e.by[1] = "release" /\ e.by[2] \in Clicks /\ e.by = <<"release", e.by[2]>>
  <2>1. ReleaseIsDecided(e.by[2]) /\ sending[<<"release", e.by[2]>>] # "idle"
    BY <1>1, <1>3 DEF ReleasesAreDecided
  <2>2. IdOf(e.by) = click[e.by[2]].id /\ IntentOf(e.by) = click[e.by[2]].intent
    BY <1>3 DEF IdOf, IntentOf
  <2> QED
    BY <1>3, <2>1, <2>2 DEF ReleaseIsDecided, IsHeld
<1> QED
  BY <1>1, <1>2, <1>3, CallsOf
-----------------------------------------------------------------------------
(* Theorems                                                                *)

\* The state of every run, hold, request and broadcast stays in its type.
THEOREM TypeCorrect == Spec => []TypeOK
BY AlwaysIInv, PTL DEF IInv

\* Nothing is taken up but an allowed intent whose simulation passed, a held one
\* that was submitted and an operator released, or one that a client's body handed
\* the release route.
THEOREM OnlyDecidedOrHandedIsSent == Spec => []SentWasDecided
BY SentIsDecided, AlwaysIInv, PTL

\* However often it is submitted or released, on any instance, an intent is taken up
\* once under its id, and a second time only by a release to which a body handed
\* what a run had sent: by each way it has one key.
THEOREM OnceUnlessHandedIn == Spec => []SentOnce
<1>1. IInv => SentOnce
  <2> SUFFICES ASSUME IInv, NEW d \in applied, NEW e \in applied, d # e,
                      IdOf(d.by) = IdOf(e.by), IntentOf(d.by) = IntentOf(e.by)
               PROVE  /\ {d.by[1], e.by[1]} = {"run", "release"}
                      /\ \E c \in {d.by, e.by} : c[1] = "release" /\ click[c[2]].from = "body"
    BY DEF SentOnce
  <2> USE DEF IInv
  <2>1. /\ d.by \in Calls /\ d.key = KeyOf(d.by)
        /\ e.by \in Calls /\ e.key = KeyOf(e.by)
    BY DEF LedgerIsKeyed, TypeOK
  <2>2. d.by[1] # e.by[1]
    <3>1. ASSUME d.by[1] = e.by[1] PROVE FALSE
      <4>1. KeyOf(d.by) = KeyOf(e.by)
        BY <3>1 DEF KeyOf
      <4> QED
        BY <2>1, <4>1 DEF LedgerIsKeyed
    <3> QED
      BY <3>1
  <2>3. d.by[1] \in {"run", "release"} /\ e.by[1] \in {"run", "release"}
    BY <2>1, CallsOf
  <2>4. ASSUME NEW f \in applied, NEW g \in applied, f.by[1] = "run", g.by[1] = "release",
               IntentOf(f.by) = IntentOf(g.by)
        PROVE  click[g.by[2]].from = "body"
    <3>1. SentWasDecided
      BY SentIsDecided
    <3>2. Policy[IntentOf(f.by)] = "ALLOW"
      BY <2>4, <3>1 DEF SentWasDecided
    <3> QED
      BY <2>4, <3>1, <3>2 DEF SentWasDecided
  <2>5. CASE d.by[1] = "run" /\ e.by[1] = "release"
    BY <2>4, <2>5
  <2>6. CASE d.by[1] = "release" /\ e.by[1] = "run"
    BY <2>4, <2>6
  <2> QED
    BY <2>2, <2>3, <2>5, <2>6
<1> QED
  BY <1>1, AlwaysIInv, PTL

\* Where an instance or the browser shows a hold as released, a release was taken up
\* under its id.
THEOREM ReleasesWereSent == Spec => []ReleasedWasSent
BY AlwaysIInv, PTL DEF IInv
-----------------------------------------------------------------------------
(* PolicyWindow: sums of values.                                           *)

Sums == INSTANCE Folding WITH Op <- AddValue

LEMMA SumIsFold ==
    ASSUME NEW calls
    PROVE  SumValues(calls) = Sums!FoldLeft(AddValue, 0, calls)
  BY DEF SumValues, FoldLeft, Sums!FoldLeft, MapThenFoldSet, Sums!MapThenFoldSet, Max, Sums!Max

\* Sums of naturals are naturals, and are ordered as what they sum up.
LEMMA SumsAreOrdered ==
    ASSUME NEW S, NEW T, NEW less \in Seq(S), NEW more \in Seq(T), Len(less) = Len(more),
           \A k \in 1 .. Len(less) : /\ less[k].value \in Nat /\ more[k].value \in Nat
                                     /\ less[k].value <= more[k].value
    PROVE  SumValues(less) \in Nat /\ SumValues(more) \in Nat /\ SumValues(less) <= SumValues(more)
<1> DEFINE n == Len(less)
           a(k) == Sums!FoldLeft(AddValue, 0, SubSeq(less, 1, k))
           b(k) == Sums!FoldLeft(AddValue, 0, SubSeq(more, 1, k))
           Good == {k \in Nat : k <= n => a(k) \in Nat /\ b(k) \in Nat /\ a(k) <= b(k)}
<1>1. n \in Nat /\ n = Len(more)
  OBVIOUS
<1>2. 0 \in Good
  <2>1. SubSeq(less, 1, 0) = <<>> /\ SubSeq(more, 1, 0) = <<>>
    OBVIOUS
  <2>2. a(0) = 0 /\ b(0) = 0
    BY <2>1, Sums!FoldLeftEmpty
  <2> HIDE DEF a, b
  <2> QED
    BY <2>2
<1>3. ASSUME NEW k \in Nat, k \in Good PROVE k + 1 \in Good
  <2> SUFFICES ASSUME k + 1 <= n PROVE a(k + 1) \in Nat /\ b(k + 1) \in Nat /\ a(k + 1) <= b(k + 1)
    OBVIOUS
  <2>1. k + 1 \in 1 .. Len(less) /\ k + 1 \in 1 .. Len(more) /\ (k + 1) - 1 = k
    BY <1>1
  <2>2. a(k + 1) = AddValue(a((k + 1) - 1), less[k + 1])
    BY <2>1, Sums!FoldLeftPrefix
  <2>3. b(k + 1) = AddValue(b((k + 1) - 1), more[k + 1])
    BY <2>1, Sums!FoldLeftPrefix
  <2>4. k <= n
    BY <1>1
  <2>5. less[k + 1].value \in Nat /\ more[k + 1].value \in Nat /\ less[k + 1].value <= more[k + 1].value
    BY <2>1
  <2> HIDE DEF a, b
  <2>6. a(k + 1) = a(k) + less[k + 1].value /\ b(k + 1) = b(k) + more[k + 1].value
    BY <2>1, <2>2, <2>3 DEF AddValue
  <2>7. a(k) \in Nat /\ b(k) \in Nat /\ a(k) <= b(k)
    BY <1>3, <2>4
  <2> QED
    BY <2>5, <2>6, <2>7
<1> HIDE DEF Good
<1>4. n \in Good
  BY <1>1, <1>2, <1>3, Sums!SetInduction
<1>5. SubSeq(less, 1, n) = less /\ SubSeq(more, 1, n) = more
  BY <1>1, SubSeqFull
<1>6. a(n) \in Nat /\ b(n) \in Nat /\ a(n) <= b(n)
  <2> HIDE DEF a, b
  <2> QED
    BY <1>1, <1>4 DEF Good
<1> QED
  BY <1>5, <1>6, SumIsFold

\* A history of naturals.
IsHistory(history) ==
    /\ \E S : history \in Seq(S)
    /\ \A k \in DOMAIN history : history[k].value \in Nat

\* More places, more value.
LEMMA MorePlaces ==
    ASSUME NEW history, IsHistory(history), NEW few, NEW many, few \subseteq many
    PROVE  /\ ValueOf(history, few) \in Nat /\ ValueOf(history, many) \in Nat
           /\ ValueOf(history, few) <= ValueOf(history, many)
<1> DEFINE at(places) == [k \in DOMAIN history |-> [value |-> IF k \in places THEN history[k].value ELSE 0]]
           V == {[value |-> v] : v \in Nat}
<1>1. PICK n \in Nat : DOMAIN history = 1 .. n
  BY DEF IsHistory
<1>2. ASSUME NEW places
      PROVE  /\ at(places) \in Seq(V) /\ Len(at(places)) = n
             /\ \A k \in 1 .. n : at(places)[k].value = IF k \in places THEN history[k].value ELSE 0
  <2>1. \A k \in 1 .. n : (IF k \in places THEN history[k].value ELSE 0) \in Nat
    BY <1>1 DEF IsHistory
  <2>2. at(places) = [k \in 1 .. n |-> [value |-> IF k \in places THEN history[k].value ELSE 0]]
    BY <1>1
  <2>3. at(places) \in [1 .. n -> V]
    BY <2>1, <2>2
  <2>4. \A k \in 1 .. n : at(places)[k].value = IF k \in places THEN history[k].value ELSE 0
    BY <2>2
  <2> HIDE DEF at, V
  <2> QED
    BY <2>3, <2>4
<1>3. \A k \in 1 .. n : history[k].value \in Nat
  BY <1>1 DEF IsHistory
<1>4. /\ at(few) \in Seq(V) /\ at(many) \in Seq(V) /\ Len(at(few)) = n /\ Len(at(many)) = n
      /\ \A k \in 1 .. n : /\ at(few)[k].value \in Nat /\ at(many)[k].value \in Nat
                           /\ at(few)[k].value <= at(many)[k].value
  <2> HIDE DEF at, V
  <2> QED
    BY <1>2, <1>3
<1> HIDE DEF at, V
<1>5. /\ SumValues(at(few)) \in Nat /\ SumValues(at(many)) \in Nat
      /\ SumValues(at(few)) <= SumValues(at(many))
  BY <1>4, SumsAreOrdered
<1> QED
  BY <1>5 DEF ValueOf, at

LEMMA SumsAreNatural ==
    ASSUME NEW intent \in Submitted
    PROVE  SumValues(intent.calls) \in Nat
<1>1. /\ intent.calls \in Seq(Range(intent.calls))
      /\ \A k \in 1 .. Len(intent.calls) : intent.calls[k].value \in Nat
  BY WindowConstants
<1> QED
  BY <1>1, SumsAreOrdered
-----------------------------------------------------------------------------
(* The intents followed, and the page.                                     *)

\* What was decided is in order, and decided under one of the first policies.
HistoryOK ==
    /\ now \in Nat /\ Start <= now
    /\ \E S : decided \in Seq(S)
    /\ \A k \in DOMAIN decided : decided[k].at \in Start .. now
    /\ decided # <<>> => policy \in Policies

\* The page carries over what it was opened with.
CanvasOK ==
    /\ IsOpen => carry = CarryOver(policy)
    /\ \E S : canvas \in Seq(S)
    /\ \A k \in DOMAIN canvas : IsBlock(canvas[k])

LEMMA HistorySubmits ==
    ASSUME HistoryOK, NEW intent \in Submitted, Submits(intent)
    PROVE  HistoryOK'
<1> DEFINE entry == [at |-> now, verdict |-> Evaluate(intent, policy, ContextFor(now))]
<1>1. PICK S : decided \in Seq(S)
  BY DEF HistoryOK
<1>2. decided' = Append(decided, entry) /\ now' = now /\ policy' = policy /\ policy \in Policies
  BY DEF Submits, Followed
<1>3. entry.at = now
  OBVIOUS
<1> HIDE DEF entry
<1>4. Append(decided, entry) \in Seq(S \cup {entry})
  BY <1>1
<1>5. \A k \in DOMAIN Append(decided, entry) :
        IF k \in DOMAIN decided THEN Append(decided, entry)[k] = decided[k]
        ELSE Append(decided, entry)[k] = entry
  BY <1>1
<1>6. \A k \in DOMAIN decided' : decided'[k].at \in Start .. now'
  BY <1>2, <1>3, <1>5, WindowConstants DEF HistoryOK
<1> QED
  BY <1>2, <1>4, <1>6 DEF HistoryOK

\* The policy opened has what CanvasEditor's constants say.
LEMMA HistoryIsOK == WindowSpec => []HistoryOK
<1>1. WindowInit => HistoryOK
  BY WindowConstants DEF WindowInit, EditorInit, HistoryOK
<1>2. HistoryOK /\ [WindowNext]_windowVars => HistoryOK'
  <2> SUFFICES ASSUME HistoryOK, [WindowNext]_windowVars PROVE HistoryOK'
    OBVIOUS
  <2>1. CASE \E intent \in Submitted : Submits(intent)
    BY <2>1, HistorySubmits
  <2>2. CASE Tick
    BY <2>2, WindowConstants DEF Tick, HistoryOK, Followed
  <2>3. CASE EditPolicy
    BY <2>3 DEF EditPolicy, HistoryOK
  <2>4. CASE UNCHANGED windowVars
    BY <2>4 DEF windowVars, pageVars, HistoryOK
  <2> QED
    BY <2>1, <2>2, <2>3, <2>4 DEF WindowNext
<1> QED
  BY <1>1, <1>2, PTL DEF WindowSpec
-----------------------------------------------------------------------------
(* The blocks a policy is opened as, and what blocks compile to.           *)

LEMMA Joined ==
    ASSUME NEW S, NEW T, NEW s \in Seq(S), NEW t \in Seq(T)
    PROVE  /\ s \o t \in Seq(S \cup T) /\ Len(s \o t) = Len(s) + Len(t)
           /\ \A k \in 1 .. Len(s) : (s \o t)[k] = s[k]
           /\ \A k \in 1 .. Len(t) : (s \o t)[Len(s) + k] = t[k]
  OBVIOUS

LEMMA ImagesAreFinite ==
    ASSUME NEW f, IsFiniteSet(DOMAIN f)
    PROVE  IsFiniteSet(Range(f))
<1> DEFINE g == [x \in DOMAIN f |-> f[x]]
<1>1. g \in Surjection(DOMAIN f, Range(f))
  BY DEF Surjection, Range
<1> HIDE DEF g
<1> QED
  BY <1>1, FS_Surjection

LEMMA Listed ==
    ASSUME NEW S, IsFiniteSet(S)
    PROVE  SetToSeq(S) \in Seq(S) /\ Range(SetToSeq(S)) = S
<1> DEFINE n == Cardinality(S)
<1>1. n \in Nat /\ ExistsBijection(1 .. n, S)
  BY FS_CardinalityType
<1>2. PICK f : f \in Bijection(1 .. n, S)
  BY <1>1 DEF ExistsBijection
<1>3. f \in [1 .. n -> S] /\ IsInjective(f)
  BY <1>2 DEF Bijection, Injection, Surjection, IsInjective
<1>4. SetToSeq(S) \in [1 .. n -> S] /\ IsInjective(SetToSeq(S))
  BY <1>3 DEF SetToSeq
<1>5. SetToSeq(S) \in Injection(1 .. n, S)
  BY <1>4 DEF Injection, IsInjective
<1>6. IsFiniteSet(1 .. n) /\ Cardinality(1 .. n) = n
  BY <1>1, FS_Interval
<1>7. SetToSeq(S) \in Surjection(1 .. n, S)
  BY <1>5, <1>6, FS_Injection
<1>8. SetToSeq(S) \in Seq(S)
  BY <1>1, <1>4
<1>9. \A x \in S : \E k \in 1 .. n : SetToSeq(S)[k] = x
  BY <1>7 DEF Surjection
<1>10. Range(SetToSeq(S)) = S
  BY <1>4, <1>9 DEF Range
<1> QED
  BY <1>8, <1>10

\* The first of the places of a kind.
LEMMA FirstPlaced ==
    ASSUME NEW S, NEW blocks \in Seq(S), NEW kind, Placed(blocks, kind) # {}
    PROVE  /\ Min(Placed(blocks, kind)) \in Placed(blocks, kind)
           /\ \A k \in Placed(blocks, kind) : Min(Placed(blocks, kind)) <= k
<1>1. Placed(blocks, kind) \subseteq Nat
  BY DEF Placed
<1>2. \E x \in Placed(blocks, kind) : \A y \in Placed(blocks, kind) : x <= y
  BY <1>1, Sums!LeastNatural
<1> QED
  BY <1>2 DEF Min

TargetBlock(t) == Block("target", [address |-> <<t, "lower">>])
SelectorBlock(a, s) == Block("selector", [address |-> a, selector |-> s])
CapBlock(p) == Block("valueCap", [maxPerIntent |-> p.maxValuePerIntent])
RateBlock(p) == Block("rateLimit", [maxValue |-> p.maxValuePerWindow, window |-> p.window,
                                    maxIntents |-> p.maxIntentsPerWindow])
ApprovalBlock(p) == Block("approvalBound", [maxApproval |-> p.maxApproval])
HoldBlock(p) == Block("holdAbove", [nativeValue |-> p.holdAboveValue])

\* What a policy is opened as: a block for every target, one for every selector
\* of a target, four with its numbers, and the invariants configured.
LEMMA OpenedAs ==
    ASSUME NEW p, IsPolicy(p)
    PROVE  LET blocks == PolicyToBlocks(p) \o Floor
           IN  /\ \E S : blocks \in Seq(S)
               /\ \E m \in Nat :
                    /\ m + 4 <= Len(blocks)
                    /\ {blocks[k] : k \in 1 .. m} =
                         {TargetBlock(t) : t \in p.allow}
                         \cup UNION {{SelectorBlock(a, s) : s \in p.selectors[a]} : a \in DOMAIN p.selectors}
                    /\ blocks[m + 1] = CapBlock(p)
                    /\ blocks[m + 2] = RateBlock(p)
                    /\ blocks[m + 3] = ApprovalBlock(p)
                    /\ blocks[m + 4] = HoldBlock(p)
                    /\ \A k \in m + 5 .. Len(blocks) :
                         IsBlock(blocks[k]) /\ blocks[k].kind \in {"invariantFloor", "invariantDrop"}
<1> DEFINE targets == {TargetBlock(t) : t \in p.allow}
           scopes(a) == {SelectorBlock(a, s) : s \in p.selectors[a]}
           selectors == UNION {scopes(a) : a \in DOMAIN p.selectors}
           first == SetToSeq(targets)
           second == SetToSeq(selectors)
           numbers == <<CapBlock(p), RateBlock(p), ApprovalBlock(p), HoldBlock(p)>>
           N == {CapBlock(p), RateBlock(p), ApprovalBlock(p), HoldBlock(p)}
           F == Range(Floor)
           blocks == PolicyToBlocks(p) \o Floor
<1>1. IsFiniteSet(targets)
  <2> DEFINE f == [t \in p.allow |-> TargetBlock(t)]
  <2>1. IsFiniteSet(Range(f))
    <3>1. DOMAIN f = p.allow /\ IsFiniteSet(p.allow)
      BY DEF IsPolicy
    <3> HIDE DEF f
    <3> QED
      BY <3>1, ImagesAreFinite
  <2>2. Range(f) = targets
    BY DEF Range
  <2> QED
    BY <2>1, <2>2
<1>2. ASSUME NEW a \in DOMAIN p.selectors PROVE IsFiniteSet(scopes(a))
  <2> DEFINE f == [s \in p.selectors[a] |-> SelectorBlock(a, s)]
  <2>1. IsFiniteSet(Range(f))
    <3>1. DOMAIN f = p.selectors[a] /\ IsFiniteSet(p.selectors[a])
      BY DEF IsPolicy
    <3> HIDE DEF f
    <3> QED
      BY <3>1, ImagesAreFinite
  <2>2. Range(f) = scopes(a)
    BY DEF Range
  <2> QED
    BY <2>1, <2>2
<1>3. IsFiniteSet(selectors)
  <2> DEFINE f == [a \in DOMAIN p.selectors |-> scopes(a)]
  <2> HIDE DEF scopes
  <2>1. IsFiniteSet(Range(f))
    <3>1. DOMAIN f = DOMAIN p.selectors /\ IsFiniteSet(DOMAIN p.selectors)
      BY DEF IsPolicy
    <3> HIDE DEF f
    <3> QED
      BY <3>1, ImagesAreFinite
  <2>2. Range(f) = {scopes(a) : a \in DOMAIN p.selectors}
    BY DEF Range
  <2>3. \A T \in Range(f) : IsFiniteSet(T)
    BY <1>2, <2>2
  <2>4. selectors = UNION Range(f)
    BY <2>2
  <2> HIDE DEF f
  <2> QED
    BY <2>1, <2>3, <2>4, FS_UNION
<1>4. first \in Seq(targets) /\ Range(first) = targets
  <2> HIDE DEF targets
  <2> QED
    BY <1>1, Listed
<1>5. second \in Seq(selectors) /\ Range(second) = selectors
  <2> HIDE DEF selectors
  <2> QED
    BY <1>3, Listed
<1>6. blocks = ((first \o second) \o numbers) \o Floor
  BY DEF PolicyToBlocks, SelectorBlocks, TargetBlock, SelectorBlock, CapBlock, RateBlock, ApprovalBlock,
         HoldBlock
<1>7. Floor \in Seq(F)
  BY EditorConstants
<1>8. numbers \in Seq(N) /\ Len(numbers) = 4 /\ numbers[1] = CapBlock(p) /\ numbers[2] = RateBlock(p)
      /\ numbers[3] = ApprovalBlock(p) /\ numbers[4] = HoldBlock(p)
  OBVIOUS
<1> DEFINE m == Len(first) + Len(second)
<1> HIDE DEF first, second, numbers, blocks, N, F, targets, selectors
<1>9. /\ Len(first) \in Nat /\ Len(second) \in Nat /\ Len(Floor) \in Nat
      /\ DOMAIN first = 1 .. Len(first) /\ DOMAIN second = 1 .. Len(second)
      /\ m \in Nat
  BY <1>4, <1>5, <1>7
<1>10. first \o second \in Seq(targets \cup selectors) /\ Len(first \o second) = m
  BY <1>4, <1>5
<1>11. /\ \A k \in 1 .. Len(first) : (first \o second)[k] = first[k]
       /\ \A k \in 1 .. Len(second) : (first \o second)[Len(first) + k] = second[k]
       /\ \A k \in 1 .. m : (first \o second)[k] \in targets \cup selectors
  BY <1>4, <1>5, <1>10
<1>12. {(first \o second)[k] : k \in 1 .. m} = targets \cup selectors
  <2>1. ASSUME NEW b \in targets PROVE \E k \in 1 .. m : (first \o second)[k] = b
    <3>1. PICK k \in 1 .. Len(first) : first[k] = b
      BY <1>4, <1>9 DEF Range
    <3> QED
      BY <3>1, <1>9, <1>11
  <2>2. ASSUME NEW b \in selectors PROVE \E k \in 1 .. m : (first \o second)[k] = b
    <3>1. PICK k \in 1 .. Len(second) : second[k] = b
      BY <1>5, <1>9 DEF Range
    <3>2. Len(first) + k \in 1 .. m
      BY <1>9
    <3> QED
      BY <3>1, <3>2, <1>11
  <2> QED
    BY <2>1, <2>2, <1>11
<1> DEFINE named == first \o second
<1> HIDE DEF m, named
<1>13. named \in Seq(targets \cup selectors) /\ Len(named) = m
  BY <1>10 DEF named
<1>14. /\ named \o numbers \in Seq(targets \cup selectors \cup N)
       /\ Len(named \o numbers) = m + 4
       /\ \A k \in 1 .. m : (named \o numbers)[k] = named[k]
       /\ \A k \in 1 .. 4 : (named \o numbers)[m + k] = numbers[k]
  <2> HIDE DEF named
  <2>1. named \o numbers \in Seq((targets \cup selectors) \cup N)
    BY <1>8, <1>13, Joined
  <2>2. Len(named \o numbers) = m + 4
    <3>1. Len(named \o numbers) = Len(named) + Len(numbers)
      <4>1. named \in Seq(targets \cup selectors)
        BY <1>13
      <4>2. numbers \in Seq(N)
        BY <1>8
      <4> QED
        BY <4>1, <4>2
    <3> QED
      BY <3>1, <1>8, <1>13
  <2>3. \A k \in 1 .. m : (named \o numbers)[k] = named[k]
    BY <1>8, <1>13, Joined
  <2>4. \A k \in 1 .. 4 : (named \o numbers)[m + k] = numbers[k]
    BY <1>8, <1>13, Joined, SMTT(30)
  <2> QED
    BY <2>1, <2>2, <2>3, <2>4
<1> DEFINE all == named \o numbers
<1> HIDE DEF all
<1>15. all \in Seq(targets \cup selectors \cup N) /\ Len(all) = m + 4
  BY <1>14 DEF all
<1>16. /\ all \o Floor \in Seq(targets \cup selectors \cup N \cup F)
       /\ Len(all \o Floor) = m + 4 + Len(Floor)
       /\ \A k \in 1 .. m + 4 : (all \o Floor)[k] = all[k]
       /\ \A k \in 1 .. Len(Floor) : (all \o Floor)[m + 4 + k] = Floor[k]
  BY <1>7, <1>9, <1>15
<1>17. blocks = all \o Floor
  BY <1>6 DEF all, named
<1>18. {blocks[k] : k \in 1 .. m} = targets \cup selectors
  <2>1. \A k \in 1 .. m : blocks[k] = named[k]
    BY <1>9, <1>14, <1>16, <1>17 DEF all
  <2> QED
    BY <2>1, <1>12 DEF named
<1>19. /\ blocks[m + 1] = CapBlock(p) /\ blocks[m + 2] = RateBlock(p)
       /\ blocks[m + 3] = ApprovalBlock(p) /\ blocks[m + 4] = HoldBlock(p)
  <2>1. \A k \in 1 .. 4 : m + k \in 1 .. m + 4
    BY <1>9
  <2>2. \A k \in 1 .. 4 : blocks[m + k] = numbers[k]
    BY <2>1, <1>14, <1>16, <1>17 DEF all
  <2> QED
    BY <2>2, <1>8
<1>20. \A k \in m + 5 .. Len(blocks) :
         IsBlock(blocks[k]) /\ blocks[k].kind \in {"invariantFloor", "invariantDrop"}
  <2> SUFFICES ASSUME NEW k \in m + 5 .. Len(blocks)
               PROVE  IsBlock(blocks[k]) /\ blocks[k].kind \in {"invariantFloor", "invariantDrop"}
    OBVIOUS
  <2>1. k - (m + 4) \in 1 .. Len(Floor) /\ m + 4 + (k - (m + 4)) = k
    BY <1>9, <1>16, <1>17
  <2>2. blocks[k] = Floor[k - (m + 4)]
    BY <2>1, <1>16, <1>17
  <2>3. k - (m + 4) \in DOMAIN Floor
    BY <2>1, <1>7
  <2> QED
    BY <2>2, <2>3, EditorConstants
<1>21. m + 4 <= Len(blocks) /\ blocks \in Seq(targets \cup selectors \cup N \cup F)
  BY <1>9, <1>16, <1>17
<1> QED
  BY <1>9, <1>18, <1>19, <1>20, <1>21 DEF targets, selectors, blocks

\* All of them are blocks of the palette, with numbers where they have fields
\* for numbers.
LEMMA OpenedAsBlocks ==
    ASSUME NEW p, IsPolicy(p)
    PROVE  LET blocks == PolicyToBlocks(p) \o Floor
           IN  /\ \E S : blocks \in Seq(S)
               /\ \A k \in DOMAIN blocks : IsBlock(blocks[k])
<1> DEFINE blocks == PolicyToBlocks(p) \o Floor
           named == {TargetBlock(t) : t \in p.allow}
                    \cup UNION {{SelectorBlock(a, s) : s \in p.selectors[a]} : a \in DOMAIN p.selectors}
<1>1. PICK S : blocks \in Seq(S)
  BY OpenedAs
<1>2. PICK m \in Nat :
        /\ m + 4 <= Len(blocks)
        /\ {blocks[k] : k \in 1 .. m} = named
        /\ blocks[m + 1] = CapBlock(p)
        /\ blocks[m + 2] = RateBlock(p)
        /\ blocks[m + 3] = ApprovalBlock(p)
        /\ blocks[m + 4] = HoldBlock(p)
        /\ \A k \in m + 5 .. Len(blocks) :
             IsBlock(blocks[k]) /\ blocks[k].kind \in {"invariantFloor", "invariantDrop"}
  BY OpenedAs
<1>3. \A t : IsBlock(TargetBlock(t))
  BY DEF IsBlock, TargetBlock, Block, Initial, NumberFields
<1>4. \A a, s : IsBlock(SelectorBlock(a, s))
  BY DEF IsBlock, SelectorBlock, Block, Initial, NumberFields
<1>5. \A b \in named : IsBlock(b)
  BY <1>3, <1>4
<1>6. /\ p.maxValuePerIntent \in Nat /\ p.maxValuePerWindow \in Nat /\ p.window \in Nat
      /\ p.maxIntentsPerWindow \in Nat /\ p.holdAboveValue \in Nat /\ p.maxApproval \in Nat
  BY DEF IsPolicy
<1>7. IsBlock(CapBlock(p))
  BY <1>6 DEF IsBlock, CapBlock, Block, Initial, NumberFields
<1>8. IsBlock(RateBlock(p))
  BY <1>6 DEF IsBlock, RateBlock, Block, Initial, NumberFields
<1>9. IsBlock(ApprovalBlock(p))
  BY <1>6 DEF IsBlock, ApprovalBlock, Block, Initial, NumberFields
<1>10. IsBlock(HoldBlock(p))
  BY <1>6 DEF IsBlock, HoldBlock, Block, Initial, NumberFields
<1> HIDE DEF blocks, named
<1>11. ASSUME NEW k \in DOMAIN blocks PROVE IsBlock(blocks[k])
  <2>1. k \in 1 .. Len(blocks) /\ Len(blocks) \in Nat
    BY <1>1
  <2>2. \/ k \in 1 .. m \/ k = m + 1 \/ k = m + 2 \/ k = m + 3 \/ k = m + 4 \/ k \in m + 5 .. Len(blocks)
    BY <2>1
  <2>3. CASE k \in 1 .. m
    <3>1. blocks[k] \in named
      BY <2>3, <1>2
    <3> QED
      BY <3>1, <1>5
  <2> QED
    BY <2>2, <2>3, <1>2, <1>7, <1>8, <1>9, <1>10
<1> QED
  BY <1>1, <1>11 DEF blocks

\* A field for numbers of blocks of the palette, as it is compiled.
LEMMA ValueIsNumber ==
    ASSUME NEW S, NEW blocks \in Seq(S), \A k \in DOMAIN blocks : IsBlock(blocks[k]),
           NEW kind \in DOMAIN Initial, NEW key \in NumberFields \cap DOMAIN Initial[kind],
           NEW fallback \in Nat
    PROVE  Value(blocks, kind, key, fallback) \in Nat \cup {Malformed}
<1> DEFINE first == blocks[Min(Placed(blocks, kind))]
<1>1. CASE Placed(blocks, kind) = {}
  BY <1>1 DEF Value
<1>2. CASE Placed(blocks, kind) # {}
  <2>1. Min(Placed(blocks, kind)) \in DOMAIN blocks /\ first.kind = kind
    BY <1>2, FirstPlaced, ZenonT(40) DEF Placed
  <2>2. IsBlock(first)
    BY <2>1
  <2> HIDE DEF first
  <2>3. first.values[key] \in Nat \cup {Blank, Malformed}
    BY <2>1, <2>2 DEF IsBlock
  <2>4. Value(blocks, kind, key, fallback) = IF Filled(first, key) THEN first.values[key] ELSE fallback
    BY <1>2 DEF Value, first
  <2> QED
    BY <2>3, <2>4 DEF Filled
<1> QED
  BY <1>1, <1>2

LEMMA PlacedIsFinite ==
    ASSUME NEW S, NEW blocks \in Seq(S), NEW places, places \subseteq DOMAIN blocks
    PROVE  IsFiniteSet(places)
<1>1. DOMAIN blocks = 1 .. Len(blocks) /\ Len(blocks) \in Nat
  OBVIOUS
<1>2. IsFiniteSet(1 .. Len(blocks))
  BY <1>1, FS_Interval
<1> QED
  BY <1>1, <1>2, FS_Subset

\* What blocks compile to and parsePolicy accepts is a policy.
LEMMA AcceptedIsPolicy ==
    ASSUME CanvasOK, IsOpen, IsPolicy(policy), Accepted(Compile(canvas, carry))
    PROVE  IsPolicy(Compile(canvas, carry))
<1> DEFINE r == Compile(canvas, carry)
<1>1. PICK S : canvas \in Seq(S)
  BY DEF CanvasOK
<1>2. \A k \in DOMAIN canvas : IsBlock(canvas[k])
  BY SMTT(30) DEF CanvasOK
<1>3. /\ r = [chains |-> r.chains, allow |-> r.allow, selectors |-> r.selectors,
              maxValuePerIntent |-> r.maxValuePerIntent, maxValuePerWindow |-> r.maxValuePerWindow,
              window |-> r.window, maxIntentsPerWindow |-> r.maxIntentsPerWindow,
              maxGas |-> r.maxGas, holdAboveValue |-> r.holdAboveValue,
              holdUnknown |-> r.holdUnknown, schedule |-> r.schedule,
              maxApproval |-> r.maxApproval, minInvariants |-> r.minInvariants]
      /\ r.chains = Carried(carry.chains, {HomeChain}) /\ r.maxGas = Carried(carry.maxGas, DefaultGas)
      /\ r.holdUnknown = Carried(carry.holdUnknown, TRUE)
      /\ \E n : r.minInvariants = Carried(carry.minInvariants, n)
      /\ r.allow = {a[1] : a \in Addresses(canvas, "target")}
      /\ r.selectors = Selectors(canvas)
      /\ r.maxValuePerIntent = Value(canvas, "valueCap", "maxPerIntent", 0)
      /\ r.maxValuePerWindow = Value(canvas, "rateLimit", "maxValue", 0)
      /\ r.window = Value(canvas, "rateLimit", "window", 1)
      /\ r.maxIntentsPerWindow = Value(canvas, "rateLimit", "maxIntents", 1)
      /\ r.holdAboveValue = Value(canvas, "holdAbove", "nativeValue", 0)
      /\ r.maxApproval = Value(canvas, "approvalBound", "maxApproval", 0)
      /\ r.schedule =
            IF Placed(canvas, "schedule") = {} THEN Absent
            ELSE <<Value(canvas, "schedule", "startHour", 0), Value(canvas, "schedule", "endHour", HoursOfDay)>>
  BY DEF Compile, Cap
<1> HIDE DEF r
<1>4. r.chains # Absent /\ r.maxGas # Absent /\ r.holdUnknown # Absent /\ r.minInvariants # Absent
  <2>1. carry = CarryOver(policy)
    BY DEF CanvasOK
  <2>2. /\ carry.chains = policy.chains /\ carry.maxGas = policy.maxGas
        /\ carry.holdUnknown = policy.holdUnknown /\ carry.minInvariants = policy.minInvariants
    BY <2>1 DEF CarryOver
  <2>3. /\ policy.chains # Absent /\ policy.maxGas # Absent /\ policy.holdUnknown # Absent
        /\ policy.minInvariants # Absent
    BY DEF IsPolicy
  <2> QED
    BY <1>3, <2>2, <2>3 DEF Carried
<1>5. /\ Malformed \notin {r.maxValuePerIntent, r.maxValuePerWindow, r.window,
                           r.maxIntentsPerWindow, r.holdAboveValue, r.maxApproval}
      /\ r.schedule # Absent =>
           /\ r.schedule[1] # Malformed /\ r.schedule[2] # Malformed
           /\ r.schedule[1] < HoursOfDay /\ r.schedule[2] <= HoursOfDay
  BY DEF Accepted, r
<1>6. {"valueCap", "rateLimit", "holdAbove", "approvalBound", "schedule"} \subseteq DOMAIN Initial
      /\ DOMAIN Initial["valueCap"] = {"maxPerIntent"}
      /\ DOMAIN Initial["rateLimit"] = {"maxIntents", "window", "maxValue"}
      /\ DOMAIN Initial["holdAbove"] = {"nativeValue"}
      /\ DOMAIN Initial["approvalBound"] = {"maxApproval"}
      /\ DOMAIN Initial["schedule"] = {"startHour", "endHour"}
  BY DEF Initial
<1>7. {"maxPerIntent", "maxIntents", "window", "maxValue", "nativeValue", "maxApproval", "startHour", "endHour"}
        \subseteq NumberFields
  BY DEF NumberFields
<1>8. /\ Value(canvas, "valueCap", "maxPerIntent", 0) \in Nat \cup {Malformed}
      /\ Value(canvas, "rateLimit", "maxValue", 0) \in Nat \cup {Malformed}
      /\ Value(canvas, "rateLimit", "window", 1) \in Nat \cup {Malformed}
      /\ Value(canvas, "rateLimit", "maxIntents", 1) \in Nat \cup {Malformed}
      /\ Value(canvas, "holdAbove", "nativeValue", 0) \in Nat \cup {Malformed}
      /\ Value(canvas, "approvalBound", "maxApproval", 0) \in Nat \cup {Malformed}
      /\ Value(canvas, "schedule", "startHour", 0) \in Nat \cup {Malformed}
      /\ Value(canvas, "schedule", "endHour", HoursOfDay) \in Nat \cup {Malformed}
  <2>1. Value(canvas, "valueCap", "maxPerIntent", 0) \in Nat \cup {Malformed}
    BY <1>1, <1>2, <1>6, <1>7, ValueIsNumber
  <2>2. Value(canvas, "rateLimit", "maxValue", 0) \in Nat \cup {Malformed}
    BY <1>1, <1>2, <1>6, <1>7, ValueIsNumber
  <2>3. Value(canvas, "rateLimit", "window", 1) \in Nat \cup {Malformed}
    BY <1>1, <1>2, <1>6, <1>7, ValueIsNumber
  <2>4. Value(canvas, "rateLimit", "maxIntents", 1) \in Nat \cup {Malformed}
    BY <1>1, <1>2, <1>6, <1>7, ValueIsNumber
  <2>5. Value(canvas, "holdAbove", "nativeValue", 0) \in Nat \cup {Malformed}
    BY <1>1, <1>2, <1>6, <1>7, ValueIsNumber
  <2>6. Value(canvas, "approvalBound", "maxApproval", 0) \in Nat \cup {Malformed}
    BY <1>1, <1>2, <1>6, <1>7, ValueIsNumber
  <2>7. Value(canvas, "schedule", "startHour", 0) \in Nat \cup {Malformed}
    BY <1>1, <1>2, <1>6, <1>7, ValueIsNumber
  <2>8. Value(canvas, "schedule", "endHour", HoursOfDay) \in Nat \cup {Malformed}
    BY <1>1, <1>2, <1>6, <1>7, ValueIsNumber, EditorConstants
  <2> QED
    BY <2>1, <2>2, <2>3, <2>4, <2>5, <2>6, <2>7, <2>8
<1>9. {r.maxValuePerIntent, r.maxValuePerWindow, r.window, r.maxIntentsPerWindow,
       r.holdAboveValue, r.maxApproval} \subseteq Nat
  BY <1>3, <1>5, <1>8
<1>10. r.schedule # Absent =>
         r.schedule[1] \in 0 .. HoursOfDay - 1 /\ r.schedule[2] \in 0 .. HoursOfDay
  <2> SUFFICES ASSUME r.schedule # Absent
               PROVE  r.schedule[1] \in 0 .. HoursOfDay - 1 /\ r.schedule[2] \in 0 .. HoursOfDay
    OBVIOUS
  <2>1. /\ r.schedule[1] = Value(canvas, "schedule", "startHour", 0)
        /\ r.schedule[2] = Value(canvas, "schedule", "endHour", HoursOfDay)
    BY <1>3
  <2>2. r.schedule[1] \in Nat /\ r.schedule[2] \in Nat
    BY <1>5, <1>8, <2>1
  <2> QED
    BY <1>5, <2>2, EditorConstants
<1>11. IsFiniteSet(r.allow)
  <2> DEFINE places == {j \in Placed(canvas, "target") : Filled(canvas[j], "address")}
             f == [k \in places |-> canvas[k].values.address[1]]
  <2>1. IsFiniteSet(places)
    BY <1>1, PlacedIsFinite DEF Placed
  <2>2. DOMAIN f = places
    OBVIOUS
  <2>3. Range(f) = {a[1] : a \in Addresses(canvas, "target")}
    BY DEF Range, Addresses
  <2> HIDE DEF places, f
  <2> QED
    BY <1>3, <2>1, <2>2, <2>3, ImagesAreFinite
<1> DEFINE scoped == {k \in Placed(canvas, "selector") :
                        Filled(canvas[k], "address") /\ Filled(canvas[k], "selector")}
           D == {canvas[k].values.address : k \in scoped}
           codes(a) == {canvas[k].values.selector : k \in {j \in scoped : canvas[j].values.address = a}}
<1>12. r.selectors = [a \in D |-> codes(a)]
  BY <1>3 DEF Selectors
<1>13. IsFiniteSet(D)
  <2> DEFINE f == [k \in scoped |-> canvas[k].values.address]
  <2>1. IsFiniteSet(scoped)
    BY <1>1, PlacedIsFinite DEF Placed
  <2>2. DOMAIN f = scoped /\ Range(f) = D
    BY DEF Range
  <2> HIDE DEF scoped, f, D
  <2> QED
    BY <2>1, <2>2, ImagesAreFinite
<1>14. ASSUME NEW a PROVE IsFiniteSet(codes(a)) /\ Blank \notin codes(a)
  <2> DEFINE own == {j \in scoped : canvas[j].values.address = a}
             f == [k \in own |-> canvas[k].values.selector]
  <2>1. IsFiniteSet(own)
    BY <1>1, PlacedIsFinite DEF Placed
  <2>2. DOMAIN f = own /\ Range(f) = codes(a)
    BY DEF Range
  <2>3. Blank \notin codes(a)
    BY DEF Filled
  <2> HIDE DEF scoped, own, f, codes
  <2> QED
    BY <2>1, <2>2, <2>3, ImagesAreFinite
<1> HIDE DEF D, codes, scoped
<1>15. /\ DOMAIN r.selectors = D
       /\ r.selectors = [a \in DOMAIN r.selectors |-> r.selectors[a]]
       /\ \A a \in D : r.selectors[a] = codes(a)
  BY <1>12
<1>16. /\ IsFiniteSet(DOMAIN r.selectors)
       /\ \A a \in DOMAIN r.selectors : IsFiniteSet(r.selectors[a]) /\ Blank \notin r.selectors[a]
  BY <1>13, <1>14, <1>15
<1>18. r.window > 0 /\ r.maxIntentsPerWindow > 0 /\ Blank \notin DOMAIN r.selectors
  <2>1. r.window > 0 /\ r.maxIntentsPerWindow > 0
    BY DEF Accepted, r
  <2>2. Blank \notin D
    BY DEF D, scoped, Filled
  <2> QED
    BY <2>1, <2>2, <1>15
<1>17. IsPolicy(r)
  BY <1>3, <1>4, <1>9, <1>10, <1>11, <1>15, <1>16, <1>18 DEF IsPolicy
<1> QED
  BY <1>17 DEF r

LEMMA EditsKeepBlocks ==
    ASSUME CanvasOK, IsPolicy(policy), EditorNext
    PROVE  CanvasOK' /\ IsPolicy(policy)'
<1>1. PICK S : canvas \in Seq(S)
  BY DEF CanvasOK
<1>2. \A k \in DOMAIN canvas : IsBlock(canvas[k])
  BY DEF CanvasOK
<1>4. CASE OpenPage
  <2>1. canvas' = PolicyToBlocks(policy) \o Floor /\ carry' = CarryOver(policy) /\ policy' = policy
    BY <1>4 DEF OpenPage
  <2>2. (\E T : canvas' \in Seq(T)) /\ \A k \in DOMAIN canvas' : IsBlock(canvas'[k])
    BY <2>1, OpenedAsBlocks
  <2> QED
    BY <2>1, <2>2 DEF CanvasOK
<1>5. CASE Deploy
  <2>1. policy' = Compile(canvas, carry) /\ canvas' = <<>> /\ carry' = Absent
    BY <1>5 DEF Deploy
  <2>2. IsPolicy(Compile(canvas, carry))
    BY <1>5, AcceptedIsPolicy DEF Deploy
  <2>3. <<>> \in Seq({})
    OBVIOUS
  <2> QED
    BY <2>1, <2>2, <2>3 DEF CanvasOK, IsOpen
<1>6. CASE ClosePage
  <2>1. policy' = policy /\ canvas' = <<>> /\ carry' = Absent
    BY <1>6 DEF ClosePage
  <2>2. <<>> \in Seq({})
    OBVIOUS
  <2> QED
    BY <2>1, <2>2 DEF CanvasOK, IsOpen
<1>7. ASSUME NEW blocks, Edit(blocks), NEW T, blocks \in Seq(T), \A k \in DOMAIN blocks : IsBlock(blocks[k])
      PROVE  CanvasOK' /\ IsPolicy(policy)'
  BY <1>7 DEF Edit, CanvasOK, IsOpen
<1>8. ASSUME NEW kind \in DOMAIN Initial, Drop(kind) PROVE CanvasOK' /\ IsPolicy(policy)'
  <2> DEFINE b == Block(kind, Initial[kind])
  <2>1. \A key \in NumberFields \cap DOMAIN Initial[kind] : Initial[kind][key] \in Nat
    <3>1. HoursOfDay \div 3 \in Nat /\ (5 * HoursOfDay) \div 6 \in Nat
      BY EditorConstants
    <3> DEFINE early == HoursOfDay \div 3
               late == (5 * HoursOfDay) \div 6
    <3>2. DOMAIN Initial[kind] \cap NumberFields # {} =>
            kind \in {"valueCap", "approvalBound", "rateLimit", "schedule", "holdAbove"}
      BY DEF Initial, NumberFields
    <3>3. /\ Initial["valueCap"] = [maxPerIntent |-> 10]
          /\ Initial["approvalBound"] = [maxApproval |-> 10]
          /\ Initial["rateLimit"] = [maxIntents |-> 20, window |-> 1, maxValue |-> 50]
          /\ Initial["schedule"] = [startHour |-> early, endHour |-> late]
          /\ Initial["holdAbove"] = [nativeValue |-> 5]
      BY DEF Initial
    <3> HIDE DEF early, late
    <3>4. early \in Nat /\ late \in Nat
      BY <3>1 DEF early, late
    <3> QED
      BY <3>2, <3>3, <3>4
  <2>2. IsBlock(b)
    BY <2>1 DEF IsBlock, Block
  <2> HIDE DEF b
  <2>3. Append(canvas, b) \in Seq(S \cup {b})
    BY <1>1
  <2>4. \A k \in DOMAIN Append(canvas, b) : IsBlock(Append(canvas, b)[k])
    BY <1>1, <1>2, <2>2
  <2>5. Edit(Append(canvas, b))
    BY <1>8 DEF Drop, b
  <2> QED
    BY <1>7, <2>3, <2>4, <2>5
<1>9. ASSUME NEW k \in DOMAIN canvas, RemoveNode(k) PROVE CanvasOK' /\ IsPolicy(policy)'
  <2> DEFINE left == SubSeq(canvas, 1, k - 1)
             right == SubSeq(canvas, k + 1, Len(canvas))
  <2>1. k \in 1 .. Len(canvas) /\ Len(canvas) \in Nat
    BY <1>1
  <2>2. left \in Seq(S) /\ right \in Seq(S)
    BY <1>1, <2>1
  <2>3. \A j \in DOMAIN left : IsBlock(left[j])
    BY <1>1, <1>2, <2>1
  <2>4. \A j \in DOMAIN right : IsBlock(right[j])
    <3> SUFFICES ASSUME NEW j \in DOMAIN right PROVE IsBlock(right[j])
      OBVIOUS
    <3>1. right[j] = canvas[k + j] /\ k + j \in 1 .. Len(canvas)
      BY <1>1, <2>1
    <3> QED
      BY <1>1, <1>2, <3>1
  <2>5. Edit(left \o right)
    BY <1>9 DEF RemoveNode, RemoveAt
  <2> HIDE DEF left, right
  <2>6. left \o right \in Seq(S)
    BY <2>2
  <2>7. \A j \in DOMAIN (left \o right) : IsBlock((left \o right)[j])
    <3> SUFFICES ASSUME NEW j \in DOMAIN (left \o right) PROVE IsBlock((left \o right)[j])
      OBVIOUS
    <3>1. CASE j <= Len(left)
      BY <2>2, <2>3, <3>1
    <3>2. CASE j > Len(left)
      BY <2>2, <2>4, <3>2
    <3> QED
      BY <2>2, <3>1, <3>2
  <2> QED
    BY <1>7, <2>5, <2>6, <2>7
<1>10. ASSUME NEW k \in DOMAIN canvas, NEW key \in DOMAIN canvas[k].values, NEW filling \in Fillings[key],
              UpdateValue(k, key, filling)
       PROVE  CanvasOK' /\ IsPolicy(policy)'
  <2> DEFINE old == canvas[k]
             b == [old EXCEPT !.values = [old.values EXCEPT ![key] = filling]]
             blocks == [canvas EXCEPT ![k] = b]
  <2>1. Edit(blocks)
    BY <1>10 DEF UpdateValue
  <2>2. IsBlock(old) /\ key \in DOMAIN old.values
    BY <1>2
  <2> HIDE DEF old
  <2>3. /\ b = Block(b.kind, b.values) /\ b.kind = old.kind
        /\ b.values = [old.values EXCEPT ![key] = filling]
    BY <2>2 DEF IsBlock, Block
  <2> HIDE DEF b
  <2>4. DOMAIN b.values = DOMAIN old.values
    BY <2>3
  <2>5. \A j \in NumberFields \cap DOMAIN b.values : b.values[j] \in Nat \cup {Blank, Malformed}
    BY <2>2, <2>3, <2>4, EditorConstants DEF IsBlock
  <2>6. IsBlock(b)
    BY <2>2, <2>3, <2>4, <2>5 DEF IsBlock
  <2>7. blocks \in Seq(S \cup {b})
    BY <1>1
  <2>8. \A j \in DOMAIN blocks : IsBlock(blocks[j])
    BY <1>1, <1>2, <2>6
  <2> HIDE DEF blocks
  <2> QED
    BY <1>7, <2>1, <2>7, <2>8
<1> QED
  BY <1>4, <1>5, <1>6, <1>8, <1>9, <1>10 DEF EditorNext

LEMMA CanvasIsOK == WindowSpec => [](CanvasOK /\ IsPolicy(policy))
<1>1. WindowInit => CanvasOK /\ IsPolicy(policy)
  <2>1. <<>> \in Seq({})
    OBVIOUS
  <2> QED
    BY <2>1, EditorConstants DEF WindowInit, EditorInit, CanvasOK, IsOpen
<1>2. CanvasOK /\ IsPolicy(policy) /\ [WindowNext]_windowVars => CanvasOK' /\ IsPolicy(policy)'
  <2> SUFFICES ASSUME CanvasOK, IsPolicy(policy), [WindowNext]_windowVars
               PROVE  CanvasOK' /\ IsPolicy(policy)'
    OBVIOUS
  <2>1. ASSUME policy' = policy, pageVars' = pageVars PROVE CanvasOK' /\ IsPolicy(policy)'
    BY <2>1 DEF CanvasOK, IsOpen, pageVars
  <2>2. ASSUME NEW intent, Submits(intent) PROVE CanvasOK' /\ IsPolicy(policy)'
    BY <2>1, <2>2 DEF Submits
  <2>3. CASE Tick
    BY <2>1, <2>3 DEF Tick
  <2>4. CASE EditPolicy
    BY <2>4, EditsKeepBlocks DEF EditPolicy
  <2>5. CASE UNCHANGED windowVars
    BY <2>1, <2>5 DEF windowVars
  <2> QED
    BY <2>2, <2>3, <2>4, <2>5 DEF WindowNext
<1> QED
  BY <1>1, <1>2, PTL DEF WindowSpec
-----------------------------------------------------------------------------
(* The schedule.                                                           *)

LEMMA HourOf ==
    ASSUME NEW h \in Nat \ {0}, NEW x \in Nat
    PROVE  /\ x % h \in 0 .. h - 1
           /\ x < h => x % h = x
           /\ x >= h /\ x < 2 * h => x % h = x - h
<1>1. x % h \in 0 .. h - 1
  OBVIOUS
<1>2. x < h => x % h = x
  OBVIOUS
<1>3. x >= h /\ x < 2 * h => x % h = x - h
  OBVIOUS
<1> QED
  BY <1>1, <1>2, <1>3

\* The hours walked from a start to an end are those inside them.
LEMMA InsideIsScheduled ==
    ASSUME IsPolicy(policy), policy.schedule # Absent, NEW hour \in 0 .. HoursOfDay - 1
    PROVE  Inside(hour, policy.schedule[1], policy.schedule[2]) <=> hour \in Scheduled
<1> DEFINE s == policy.schedule[1]
           e == policy.schedule[2]
           H == HoursOfDay
           length == e - s
           hours == IF length >= 0 THEN length ELSE length + H
<1>1. H \in Nat \ {0} /\ s \in 0 .. H - 1 /\ e \in 0 .. H
  BY EditorConstants DEF IsPolicy
<1>2. Scheduled = {(s + k) % H : k \in 0 .. hours - 1}
  BY DEF Scheduled
<1> HIDE DEF s, e, H
<1>3. hour \in 0 .. H - 1
  BY DEF H
<1>4. ASSUME Inside(hour, s, e) PROVE \E k \in 0 .. hours - 1 : (s + k) % H = hour
  <2>1. CASE hour >= s
    <3>1. hour - s \in 0 .. hours - 1
      BY <1>1, <1>3, <1>4, <2>1 DEF Inside
    <3>2. hour \in Nat /\ hour < H /\ s + (hour - s) = hour
      BY <1>1, <1>3
    <3>3. hour % H = hour
      BY <3>2, <1>1, HourOf
    <3> QED
      BY <3>1, <3>2, <3>3
  <2>2. CASE ~ (hour >= s)
    <3>1. e < s /\ hour < e
      BY <1>1, <1>3, <1>4, <2>2 DEF Inside
    <3>2. hour + H - s \in 0 .. hours - 1
      BY <1>1, <1>3, <3>1
    <3>3. s + (hour + H - s) = hour + H /\ hour + H \in Nat /\ hour + H >= H /\ hour + H < 2 * H
      BY <1>1, <1>3
    <3>4. (hour + H) % H = (hour + H) - H
      <4> DEFINE x == hour + H
      <4>1. x \in Nat /\ x >= H /\ x < 2 * H
        BY <3>3
      <4> HIDE DEF x
      <4>2. x % H = x - H
        BY <1>1, <4>1, HourOf
      <4> QED
        BY <4>2 DEF x
    <3>5. (hour + H) - H = hour
      BY <1>1, <1>3
    <3> QED
      BY <3>2, <3>3, <3>4, <3>5
  <2> QED
    BY <2>1, <2>2
<1>5. ASSUME NEW k \in 0 .. hours - 1, (s + k) % H = hour PROVE Inside(hour, s, e)
  <2>1. s + k \in Nat /\ s + k < 2 * H
    BY <1>1
  <2>2. CASE s + k < H
    <3>1. hour = s + k
      BY <1>1, <1>5, <2>1, <2>2, HourOf
    <3> QED
      BY <1>1, <3>1 DEF Inside
  <2>3. CASE ~ (s + k < H)
    <3>1. hour = (s + k) - H
      <4> DEFINE x == s + k
      <4>1. x \in Nat /\ x >= H /\ x < 2 * H /\ x % H = hour
        BY <1>1, <1>5, <2>1, <2>3
      <4> HIDE DEF x
      <4>2. x % H = x - H
        BY <1>1, <4>1, HourOf
      <4> QED
        BY <4>1, <4>2 DEF x
    <3>2. e < s
      BY <1>1, <2>3
    <3>3. hours = e - s + H
      BY <1>1, <3>2
    <3>4. k <= e - s + H - 1
      BY <1>1, <3>3
    <3>5. hour < e
      BY <1>1, <3>1, <3>4
    <3> QED
      BY <3>2, <3>5, <1>1 DEF Inside
  <2> QED
    BY <2>2, <2>3
<1> QED
  BY <1>2, <1>4, <1>5 DEF s, e

\* What passed was inside the schedule.
PassedOnSchedule ==
    policy.schedule # Absent =>
        \A k \in DOMAIN decided :
            decided[k].verdict # "DENY" => decided[k].at % HoursOfDay \in Scheduled

LEMMA ScheduleSubmits ==
    ASSUME HistoryOK, IsPolicy(policy), PassedOnSchedule, NEW intent \in Submitted, Submits(intent)
    PROVE  PassedOnSchedule'
<1> DEFINE ctx == ContextFor(now)
           entry == [at |-> now, verdict |-> Evaluate(intent, policy, ctx)]
<1> SUFFICES ASSUME policy'.schedule # Absent, NEW k \in DOMAIN decided', decided'[k].verdict # "DENY"
             PROVE  decided'[k].at % HoursOfDay \in Scheduled'
  BY DEF PassedOnSchedule
<1>1. PICK S : decided \in Seq(S)
  BY DEF HistoryOK
<1>2. decided' = Append(decided, entry) /\ now' = now /\ policy' = policy
  BY DEF Submits
<1>3. Scheduled' = Scheduled
  BY <1>2 DEF Scheduled
<1>4. CASE k \in DOMAIN decided
  <2>1. decided'[k] = decided[k]
    BY <1>1, <1>2, <1>4
  <2> QED
    BY <1>2, <1>3, <1>4, <2>1 DEF PassedOnSchedule
<1>5. CASE k \notin DOMAIN decided
  <2>1. decided'[k] = entry
    BY <1>1, <1>2, <1>5
  <2>2. Evaluate(intent, policy, ctx) # "DENY"
    BY <2>1
  <2>3. ScheduleWindow(policy, ctx) = {}
    BY <2>2 DEF Evaluate, Verdict, Denials
  <2>4. Inside(ctx.now % HoursOfDay, policy.schedule[1], policy.schedule[2])
    BY <2>3, <1>2 DEF ScheduleWindow, Raise
  <2>5. ctx.now = now
    BY DEF ContextFor
  <2>6. now % HoursOfDay \in 0 .. HoursOfDay - 1
    BY EditorConstants, HourOf DEF HistoryOK
  <2>7. now % HoursOfDay \in Scheduled
    BY <1>2, <2>4, <2>5, <2>6, InsideIsScheduled
  <2> QED
    BY <1>3, <2>1, <2>7
<1> QED
  BY <1>4, <1>5

\* Nothing passes outside the schedule of the policy in force, over midnight
\* too, and within it the schedule refuses nothing.
THEOREM SchedulesAreKept == WindowSpec => []ScheduleIsKept
<1>1. WindowInit => PassedOnSchedule
  BY DEF WindowInit, PassedOnSchedule
<1>2. PassedOnSchedule /\ HistoryOK /\ IsPolicy(policy) /\ [WindowNext]_windowVars => PassedOnSchedule'
  <2> SUFFICES ASSUME PassedOnSchedule, HistoryOK, IsPolicy(policy), [WindowNext]_windowVars
               PROVE  PassedOnSchedule'
    OBVIOUS
  <2>1. ASSUME NEW intent \in Submitted, Submits(intent) PROVE PassedOnSchedule'
    BY <2>1, ScheduleSubmits
  <2>2. CASE Tick
    BY <2>2 DEF Tick, PassedOnSchedule, Scheduled
  <2>3. CASE EditPolicy
    BY <2>3 DEF EditPolicy, PassedOnSchedule
  <2>4. CASE UNCHANGED windowVars
    BY <2>4 DEF windowVars, PassedOnSchedule, Scheduled
  <2> QED
    BY <2>1, <2>2, <2>3, <2>4 DEF WindowNext
<1>3. PassedOnSchedule /\ HistoryOK /\ IsPolicy(policy) => ScheduleIsKept
  <2> SUFFICES ASSUME PassedOnSchedule, HistoryOK, IsPolicy(policy), policy.schedule # Absent
               PROVE  now % HoursOfDay \in Scheduled => ScheduleWindow(policy, ContextFor(now)) = {}
    BY DEF ScheduleIsKept, PassedOnSchedule
  <2>1. now % HoursOfDay \in 0 .. HoursOfDay - 1
    BY EditorConstants, HourOf DEF HistoryOK
  <2>2. now % HoursOfDay \in Scheduled => Inside(now % HoursOfDay, policy.schedule[1], policy.schedule[2])
    BY <2>1, InsideIsScheduled
  <2>3. ContextFor(now).now = now
    BY DEF ContextFor
  <2> QED
    BY <2>2, <2>3 DEF ScheduleWindow, Raise
<1> QED
  BY <1>1, <1>2, <1>3, HistoryIsOK, CanvasIsOK, PTL DEF WindowSpec
-----------------------------------------------------------------------------
(* A policy opened on the canvas, and compiled again.                      *)

\* An emptied field is the empty string, which is no address.
BlankIsNoAddress == \A target : <<target, "lower">> # Blank

\* A field of the only block of its kind.
LEMMA ValueOfTheOnly ==
    ASSUME NEW blocks, NEW kind, NEW k \in Nat, Placed(blocks, kind) = {k}, NEW key, NEW fallback,
           blocks[k].values[key] # Blank
    PROVE  Value(blocks, kind, key, fallback) = blocks[k].values[key]
<1>1. Min({k}) = k
  BY DEF Min
<1> QED
  BY <1>1 DEF Value, Filled

\* The selectors compiled, by the blocks placed for them, whatever their order.
LEMMA SelectorsAre ==
    ASSUME NEW blocks
    PROVE  LET placed == {blocks[k] : k \in Placed(blocks, "selector")}
               filled == {b \in placed : Filled(b, "address") /\ Filled(b, "selector")}
           IN  Selectors(blocks) =
                 [a \in {b.values.address : b \in filled} |->
                    {b.values.selector : b \in {c \in filled : c.values.address = a}}]
<1> DEFINE placed == {blocks[k] : k \in Placed(blocks, "selector")}
           filled == {b \in placed : Filled(b, "address") /\ Filled(b, "selector")}
           places == {k \in Placed(blocks, "selector") :
                        Filled(blocks[k], "address") /\ Filled(blocks[k], "selector")}
<1>1. {blocks[k].values.address : k \in places} = {b.values.address : b \in filled}
  OBVIOUS
<1>2. ASSUME NEW a
      PROVE  {blocks[k].values.selector : k \in {j \in places : blocks[j].values.address = a}}
             = {b.values.selector : b \in {c \in filled : c.values.address = a}}
  OBVIOUS
<1>3. Selectors(blocks) =
        [a \in {blocks[k].values.address : k \in places} |->
            {blocks[k].values.selector : k \in {j \in places : blocks[j].values.address = a}}]
  BY DEF Selectors
<1> HIDE DEF places, filled
<1> QED
  BY <1>1, <1>2, <1>3 DEF filled

\* Everything but the schedule survives the way over the canvas.
LEMMA ReopenedIsTheSame ==
    ASSUME NEW p, IsPolicy(p), {} \notin Range(p.selectors), BlankIsNoAddress
    PROVE  Compile(PolicyToBlocks(p) \o Floor, CarryOver(p)) = [p EXCEPT !.schedule = Absent]
<1> DEFINE blocks == PolicyToBlocks(p) \o Floor
           targets == {TargetBlock(t) : t \in p.allow}
           selectors == UNION {{SelectorBlock(a, s) : s \in p.selectors[a]} : a \in DOMAIN p.selectors}
           c == Compile(blocks, CarryOver(p))
<1>1. PICK S : blocks \in Seq(S)
  BY OpenedAs
<1>2. PICK m \in Nat :
        /\ m + 4 <= Len(blocks)
        /\ {blocks[k] : k \in 1 .. m} = targets \cup selectors
        /\ blocks[m + 1] = CapBlock(p)
        /\ blocks[m + 2] = RateBlock(p)
        /\ blocks[m + 3] = ApprovalBlock(p)
        /\ blocks[m + 4] = HoldBlock(p)
        /\ \A k \in m + 5 .. Len(blocks) :
             IsBlock(blocks[k]) /\ blocks[k].kind \in {"invariantFloor", "invariantDrop"}
  BY OpenedAs
<1>3. /\ \A b \in targets : b.kind = "target"
      /\ \A b \in selectors : b.kind = "selector"
  BY DEF TargetBlock, SelectorBlock, Block
<1>4. /\ CapBlock(p).kind = "valueCap" /\ CapBlock(p).values = [maxPerIntent |-> p.maxValuePerIntent]
      /\ RateBlock(p).kind = "rateLimit"
      /\ RateBlock(p).values = [maxValue |-> p.maxValuePerWindow, window |-> p.window,
                                maxIntents |-> p.maxIntentsPerWindow]
      /\ ApprovalBlock(p).kind = "approvalBound"
      /\ ApprovalBlock(p).values = [maxApproval |-> p.maxApproval]
      /\ HoldBlock(p).kind = "holdAbove" /\ HoldBlock(p).values = [nativeValue |-> p.holdAboveValue]
  BY DEF CapBlock, RateBlock, ApprovalBlock, HoldBlock, Block
<1> HIDE DEF blocks, targets, selectors, c
<1>5. ASSUME NEW k \in DOMAIN blocks
      PROVE  \/ k \in 1 .. m /\ blocks[k] \in targets /\ blocks[k].kind = "target"
             \/ k \in 1 .. m /\ blocks[k] \in selectors /\ blocks[k].kind = "selector"
             \/ k = m + 1 /\ blocks[k].kind = "valueCap"
             \/ k = m + 2 /\ blocks[k].kind = "rateLimit"
             \/ k = m + 3 /\ blocks[k].kind = "approvalBound"
             \/ k = m + 4 /\ blocks[k].kind = "holdAbove"
             \/ blocks[k].kind \in {"invariantFloor", "invariantDrop"}
  <2>1. k \in 1 .. Len(blocks) /\ Len(blocks) \in Nat
    BY <1>1
  <2>2. \/ k \in 1 .. m \/ k = m + 1 \/ k = m + 2 \/ k = m + 3 \/ k = m + 4 \/ k \in m + 5 .. Len(blocks)
    BY <2>1
  <2>3. CASE k \in 1 .. m
    <3>1. blocks[k] \in targets \cup selectors
      BY <2>3, <1>2
    <3> QED
      BY <3>1, <2>3, <1>3
  <2>4. CASE k \in m + 5 .. Len(blocks)
    BY <2>4, <1>2
  <2> QED
    BY <2>2, <2>3, <2>4, <1>2, <1>4
<1>6. 1 .. m + 4 \subseteq DOMAIN blocks /\ m + 1 \in DOMAIN blocks /\ m + 2 \in DOMAIN blocks
      /\ m + 3 \in DOMAIN blocks /\ m + 4 \in DOMAIN blocks
  BY <1>1, <1>2
<1>7. /\ Placed(blocks, "valueCap") = {m + 1} /\ Placed(blocks, "rateLimit") = {m + 2}
      /\ Placed(blocks, "approvalBound") = {m + 3} /\ Placed(blocks, "holdAbove") = {m + 4}
      /\ Placed(blocks, "schedule") = {}
  BY <1>2, <1>4, <1>5, <1>6 DEF Placed
<1>8. {blocks[k] : k \in Placed(blocks, "target")} = targets
  <2>1. \A k \in Placed(blocks, "target") : blocks[k] \in targets
    BY <1>5 DEF Placed
  <2>2. ASSUME NEW b \in targets PROVE \E k \in Placed(blocks, "target") : blocks[k] = b
    <3>1. PICK k \in 1 .. m : blocks[k] = b
      BY <1>2
    <3> QED
      BY <3>1, <1>3, <1>6 DEF Placed
  <2> QED
    BY <2>1, <2>2
<1>9. {blocks[k] : k \in Placed(blocks, "selector")} = selectors
  <2>1. \A k \in Placed(blocks, "selector") : blocks[k] \in selectors
    BY <1>5 DEF Placed
  <2>2. ASSUME NEW b \in selectors PROVE \E k \in Placed(blocks, "selector") : blocks[k] = b
    <3>1. PICK k \in 1 .. m : blocks[k] = b
      BY <1>2
    <3> QED
      BY <3>1, <1>3, <1>6 DEF Placed
  <2> QED
    BY <2>1, <2>2
<1>10. /\ p.maxValuePerIntent \in Nat /\ p.maxValuePerWindow \in Nat /\ p.window \in Nat
       /\ p.maxIntentsPerWindow \in Nat /\ p.holdAboveValue \in Nat /\ p.maxApproval \in Nat
       /\ Blank \notin Nat
  BY EditorConstants DEF IsPolicy
<1>11. m + 1 \in Nat /\ m + 2 \in Nat /\ m + 3 \in Nat /\ m + 4 \in Nat
  OBVIOUS
<1>12. Value(blocks, "valueCap", "maxPerIntent", 0) = p.maxValuePerIntent
  <2>1. blocks[m + 1].values["maxPerIntent"] = p.maxValuePerIntent
    BY <1>2, <1>4
  <2> QED
    BY <2>1, <1>7, <1>10, <1>11, ValueOfTheOnly
<1>13. /\ Value(blocks, "rateLimit", "maxValue", 0) = p.maxValuePerWindow
       /\ Value(blocks, "rateLimit", "window", 1) = p.window
       /\ Value(blocks, "rateLimit", "maxIntents", 1) = p.maxIntentsPerWindow
  <2>1. /\ blocks[m + 2].values["maxValue"] = p.maxValuePerWindow
        /\ blocks[m + 2].values["window"] = p.window
        /\ blocks[m + 2].values["maxIntents"] = p.maxIntentsPerWindow
    BY <1>2, <1>4
  <2>2. Value(blocks, "rateLimit", "maxValue", 0) = p.maxValuePerWindow
    BY <2>1, <1>7, <1>10, <1>11, ValueOfTheOnly
  <2>3. Value(blocks, "rateLimit", "window", 1) = p.window
    BY <2>1, <1>7, <1>10, <1>11, ValueOfTheOnly
  <2>4. Value(blocks, "rateLimit", "maxIntents", 1) = p.maxIntentsPerWindow
    BY <2>1, <1>7, <1>10, <1>11, ValueOfTheOnly
  <2> QED
    BY <2>2, <2>3, <2>4
<1>14. Value(blocks, "approvalBound", "maxApproval", 0) = p.maxApproval
  <2>1. blocks[m + 3].values["maxApproval"] = p.maxApproval
    BY <1>2, <1>4
  <2> QED
    BY <2>1, <1>7, <1>10, <1>11, ValueOfTheOnly
<1>15. Value(blocks, "holdAbove", "nativeValue", 0) = p.holdAboveValue
  <2>1. blocks[m + 4].values["nativeValue"] = p.holdAboveValue
    BY <1>2, <1>4
  <2> QED
    BY <2>1, <1>7, <1>10, <1>11, ValueOfTheOnly
<1>16. {a[1] : a \in Addresses(blocks, "target")} = p.allow
  <2>1. Addresses(blocks, "target") =
          {b.values.address : b \in {d \in {blocks[k] : k \in Placed(blocks, "target")} : Filled(d, "address")}}
    BY DEF Addresses
  <2>2. \A b \in targets : Filled(b, "address")
    BY DEF targets, TargetBlock, Block, Filled, BlankIsNoAddress
  <2>3. Addresses(blocks, "target") = {b.values.address : b \in targets}
    BY <2>1, <2>2, <1>8
  <2>4. {b.values.address : b \in targets} = {<<t, "lower">> : t \in p.allow}
    <3>1. \A t : TargetBlock(t).values.address = <<t, "lower">>
      BY DEF TargetBlock, Block
    <3> QED
      BY <3>1 DEF targets
  <2>5. Addresses(blocks, "target") = {<<t, "lower">> : t \in p.allow}
    BY <2>3, <2>4
  <2>6. {a[1] : a \in {<<t, "lower">> : t \in p.allow}} = p.allow
    <3> DEFINE spelled == {<<t, "lower">> : t \in p.allow}
    <3>1. \A a \in spelled : a[1] \in p.allow
      OBVIOUS
    <3>2. \A t \in p.allow : <<t, "lower">> \in spelled /\ <<t, "lower">>[1] = t
      OBVIOUS
    <3> HIDE DEF spelled
    <3>3. {a[1] : a \in spelled} = p.allow
      BY <3>1, <3>2
    <3> QED
      BY <3>3 DEF spelled
  <2> QED
    BY <2>5, <2>6
<1>17. Selectors(blocks) = p.selectors
  <2> DEFINE D == DOMAIN p.selectors
             filled == {b \in selectors : Filled(b, "address") /\ Filled(b, "selector")}
  <2>1. /\ Blank \notin D /\ \A a \in D : Blank \notin p.selectors[a] /\ p.selectors[a] # {}
        /\ p.selectors = [a \in D |-> p.selectors[a]]
    BY DEF IsPolicy, Range
  <2>2. \A a, s : SelectorBlock(a, s).values.address = a /\ SelectorBlock(a, s).values.selector = s
    BY DEF SelectorBlock, Block
  <2>3. selectors = UNION {{SelectorBlock(a, s) : s \in p.selectors[a]} : a \in D}
    BY DEF selectors
  <2> HIDE DEF D
  <2>4. filled = selectors
    BY <2>1, <2>2, <2>3 DEF Filled
  <2>5. Selectors(blocks) =
          [a \in {b.values.address : b \in selectors} |->
             {b.values.selector : b \in {d \in selectors : d.values.address = a}}]
    BY <2>4, <1>9, SelectorsAre
  <2>6. {b.values.address : b \in selectors} = D
    <3>1. \A b \in selectors : b.values.address \in D
      BY <2>2, <2>3
    <3>2. ASSUME NEW a \in D PROVE \E b \in selectors : b.values.address = a
      <4>1. PICK s : s \in p.selectors[a]
        BY <2>1
      <4>2. SelectorBlock(a, s) \in selectors
        BY <4>1, <2>3
      <4> QED
        BY <4>2, <2>2
    <3> QED
      BY <3>1, <3>2
  <2>7. ASSUME NEW a \in D
        PROVE  {b.values.selector : b \in {d \in selectors : d.values.address = a}} = p.selectors[a]
    <3>1. ASSUME NEW b \in selectors, b.values.address = a PROVE b.values.selector \in p.selectors[a]
      BY <3>1, <2>2, <2>3
    <3>2. ASSUME NEW s \in p.selectors[a]
          PROVE  \E b \in {d \in selectors : d.values.address = a} : b.values.selector = s
      <4>1. SelectorBlock(a, s) \in selectors
        BY <2>3
      <4> QED
        BY <4>1, <2>2
    <3> QED
      BY <3>1, <3>2
  <2> QED
    BY <2>1, <2>5, <2>6, <2>7
<1>18. /\ Carried(CarryOver(p).chains, {HomeChain}) = p.chains
       /\ Carried(CarryOver(p).maxGas, DefaultGas) = p.maxGas
       /\ Carried(CarryOver(p).holdUnknown, TRUE) = p.holdUnknown
       /\ \A n : Carried(CarryOver(p).minInvariants, n) = p.minInvariants
  BY DEF Carried, CarryOver, IsPolicy
<1>19. c = [chains |-> p.chains, allow |-> p.allow, selectors |-> p.selectors,
            maxValuePerIntent |-> p.maxValuePerIntent, maxValuePerWindow |-> p.maxValuePerWindow,
            window |-> p.window, maxIntentsPerWindow |-> p.maxIntentsPerWindow,
            maxGas |-> p.maxGas, holdAboveValue |-> p.holdAboveValue,
            holdUnknown |-> p.holdUnknown, schedule |-> Absent,
            maxApproval |-> p.maxApproval, minInvariants |-> p.minInvariants]
  BY <1>7, <1>12, <1>13, <1>14, <1>15, <1>16, <1>17, <1>18 DEF c, Compile, Cap
<1>20. p = [chains |-> p.chains, allow |-> p.allow, selectors |-> p.selectors,
            maxValuePerIntent |-> p.maxValuePerIntent, maxValuePerWindow |-> p.maxValuePerWindow,
            window |-> p.window, maxIntentsPerWindow |-> p.maxIntentsPerWindow,
            maxGas |-> p.maxGas, holdAboveValue |-> p.holdAboveValue,
            holdUnknown |-> p.holdUnknown, schedule |-> p.schedule,
            maxApproval |-> p.maxApproval, minInvariants |-> p.minInvariants]
  BY DEF IsPolicy
<1>21. c = [p EXCEPT !.schedule = Absent]
  BY <1>19, <1>20
<1> QED
  BY <1>21 DEF c, blocks

\* Opening the policy in force on the canvas and deploying it again changes no
\* verdict but those of its schedule, however often it was edited there and in
\* whatever context, wherever no target is left with an empty list of selectors
\* (policyToBlocks has no block for one, and reopening would lift it).
THEOREM ReopeningIsKept ==
    ASSUME BlankIsNoAddress
    PROVE  WindowSpec => []ReopeningKeepsTheRules
<1>1. IsPolicy(policy) => ReopeningKeepsTheRules
  BY ReopenedIsTheSame DEF ReopeningKeepsTheRules
<1> QED
  BY <1>1, CanvasIsOK, PTL
-----------------------------------------------------------------------------
(* What the canvas tells.                                                  *)

LEMMA CompiledFields ==
    ASSUME NEW blocks, NEW c
    PROVE  LET r == Compile(blocks, c)
           IN  /\ r.chains = Carried(c.chains, {HomeChain}) /\ r.maxGas = Carried(c.maxGas, DefaultGas)
               /\ r.holdUnknown = Carried(c.holdUnknown, TRUE)
               /\ \E n : r.minInvariants = Carried(c.minInvariants, n)
               /\ r.allow = {a[1] : a \in Addresses(blocks, "target")}
               /\ r.selectors = Selectors(blocks)
               /\ r.maxValuePerIntent = Value(blocks, "valueCap", "maxPerIntent", 0)
               /\ r.maxValuePerWindow = Value(blocks, "rateLimit", "maxValue", 0)
               /\ r.window = Value(blocks, "rateLimit", "window", 1)
               /\ r.maxIntentsPerWindow = Value(blocks, "rateLimit", "maxIntents", 1)
               /\ r.holdAboveValue = Value(blocks, "holdAbove", "nativeValue", 0)
               /\ r.maxApproval = Value(blocks, "approvalBound", "maxApproval", 0)
               /\ r.schedule =
                     IF Placed(blocks, "schedule") = {} THEN Absent
                     ELSE <<Value(blocks, "schedule", "startHour", 0), Value(blocks, "schedule", "endHour", HoursOfDay)>>
  BY DEF Compile, Cap

\* A field of the first block of a kind is what a block of that kind holds.
LEMMA ValueIsHeld ==
    ASSUME NEW S, NEW blocks \in Seq(S), NEW kind, NEW key, NEW fallback
    PROVE  \/ Value(blocks, kind, key, fallback) = fallback
           \/ \E k \in Placed(blocks, kind) : Value(blocks, kind, key, fallback) = blocks[k].values[key]
<1>1. CASE Placed(blocks, kind) = {}
  BY <1>1 DEF Value
<1>2. CASE Placed(blocks, kind) # {}
  BY <1>2, FirstPlaced DEF Value
<1> QED
  BY <1>1, <1>2

\* A canvas without errors has no field that parsePolicy refuses, but for the
\* numbers it takes and parsePolicy does not.
LEMMA DeployableIsAccepted ==
    ASSUME CanvasOK, Deployable(canvas)
    PROVE  LET rules == Compile(canvas, carry) IN Accepted(rules) \/ OddNumbers(rules)
<1> DEFINE r == Compile(canvas, carry)
<1>1. PICK S : canvas \in Seq(S)
  BY DEF CanvasOK
<1>2. ASSUME NEW k \in DOMAIN canvas PROVE IsBlock(canvas[k]) /\ ~ Invalid(canvas[k])
  BY DEF CanvasOK, Deployable, ToSet
<1>3. ASSUME NEW kind \in DOMAIN Initial, NEW key \in DOMAIN Initial[kind], NEW fallback \in Nat
      PROVE  Value(canvas, kind, key, fallback) # Malformed
  <2>1. CASE Value(canvas, kind, key, fallback) = fallback
    BY <2>1, EditorConstants
  <2>2. ASSUME NEW k \in Placed(canvas, kind), Value(canvas, kind, key, fallback) = canvas[k].values[key]
        PROVE  Value(canvas, kind, key, fallback) # Malformed
    <3>1. k \in DOMAIN canvas /\ canvas[k].kind = kind
      BY DEF Placed
    <3>2. key \in DOMAIN canvas[k].values
      BY <3>1, <1>2 DEF IsBlock
    <3> QED
      BY <1>2, <2>2, <3>1, <3>2 DEF Invalid
  <2> QED
    BY <1>1, <2>1, <2>2, ValueIsHeld
<1>4. {"valueCap", "rateLimit", "holdAbove", "approvalBound", "schedule"} \subseteq DOMAIN Initial
      /\ DOMAIN Initial["valueCap"] = {"maxPerIntent"}
      /\ DOMAIN Initial["rateLimit"] = {"maxIntents", "window", "maxValue"}
      /\ DOMAIN Initial["holdAbove"] = {"nativeValue"}
      /\ DOMAIN Initial["approvalBound"] = {"maxApproval"}
      /\ DOMAIN Initial["schedule"] = {"startHour", "endHour"}
      /\ "selector" \in DOMAIN Initial /\ DOMAIN Initial["selector"] = {"address", "selector"}
  BY DEF Initial
<1>5. {"window", "maxIntents", "startHour", "endHour"} \subseteq NumberFields
  BY DEF NumberFields
<1>6. /\ r.selectors = Selectors(canvas)
      /\ r.maxValuePerIntent = Value(canvas, "valueCap", "maxPerIntent", 0)
      /\ r.maxValuePerWindow = Value(canvas, "rateLimit", "maxValue", 0)
      /\ r.window = Value(canvas, "rateLimit", "window", 1)
      /\ r.maxIntentsPerWindow = Value(canvas, "rateLimit", "maxIntents", 1)
      /\ r.holdAboveValue = Value(canvas, "holdAbove", "nativeValue", 0)
      /\ r.maxApproval = Value(canvas, "approvalBound", "maxApproval", 0)
      /\ r.schedule =
            IF Placed(canvas, "schedule") = {} THEN Absent
            ELSE <<Value(canvas, "schedule", "startHour", 0), Value(canvas, "schedule", "endHour", HoursOfDay)>>
  BY CompiledFields
<1> HIDE DEF r
<1>7. /\ Value(canvas, "valueCap", "maxPerIntent", 0) # Malformed
      /\ Value(canvas, "rateLimit", "maxValue", 0) # Malformed
      /\ Value(canvas, "rateLimit", "window", 1) # Malformed
      /\ Value(canvas, "rateLimit", "maxIntents", 1) # Malformed
      /\ Value(canvas, "holdAbove", "nativeValue", 0) # Malformed
      /\ Value(canvas, "approvalBound", "maxApproval", 0) # Malformed
      /\ Value(canvas, "schedule", "startHour", 0) # Malformed
      /\ Value(canvas, "schedule", "endHour", HoursOfDay) # Malformed
  <2>1. 0 \in Nat /\ 1 \in Nat /\ HoursOfDay \in Nat
    BY EditorConstants
  <2> QED
    BY <1>3, <1>4, <2>1
<1>8. Malformed \notin {r.maxValuePerIntent, r.maxValuePerWindow, r.window,
                       r.maxIntentsPerWindow, r.holdAboveValue, r.maxApproval}
  BY <1>6, <1>7
<1>9. \A codes \in Range(r.selectors) : Malformed \notin codes
  <2> SUFFICES ASSUME NEW codes \in Range(Selectors(canvas)) PROVE Malformed \notin codes
    BY <1>6
  <2>1. \A code \in codes : \E k \in Placed(canvas, "selector") : code = canvas[k].values.selector
    <3> DEFINE filled == {k \in Placed(canvas, "selector") :
                            Filled(canvas[k], "address") /\ Filled(canvas[k], "selector")}
               D == {canvas[k].values.address : k \in filled}
               own(a) == {canvas[k].values.selector : k \in {j \in filled : canvas[j].values.address = a}}
    <3>1. Selectors(canvas) = [a \in D |-> own(a)]
      BY DEF Selectors
    <3>2. \A a : \A code \in own(a) : \E k \in Placed(canvas, "selector") : code = canvas[k].values.selector
      OBVIOUS
    <3> HIDE DEF D, own
    <3>3. PICK a \in D : codes = own(a)
      BY <3>1 DEF Range
    <3> QED
      BY <3>2, <3>3
  <2>2. ASSUME NEW k \in Placed(canvas, "selector") PROVE canvas[k].values.selector # Malformed
    <3>1. k \in DOMAIN canvas /\ canvas[k].kind = "selector"
      BY DEF Placed
    <3>2. "selector" \in DOMAIN canvas[k].values
      BY <3>1, <1>2, <1>4 DEF IsBlock
    <3> QED
      BY <1>2, <3>1, <3>2 DEF Invalid
  <2> QED
    BY <2>1, <2>2
<1>10. /\ r.window \in Nat /\ r.maxIntentsPerWindow \in Nat
  <2>1. \A k \in DOMAIN canvas : IsBlock(canvas[k])
    BY <1>2
  <2>2. Value(canvas, "rateLimit", "window", 1) \in Nat \cup {Malformed}
    BY <1>1, <2>1, <1>4, <1>5, ValueIsNumber
  <2>3. Value(canvas, "rateLimit", "maxIntents", 1) \in Nat \cup {Malformed}
    BY <1>1, <2>1, <1>4, <1>5, ValueIsNumber
  <2> QED
    BY <1>6, <1>7, <2>2, <2>3
<1>11. /\ Value(canvas, "schedule", "startHour", 0) \in 0 .. HoursOfDay
       /\ Value(canvas, "schedule", "endHour", HoursOfDay) \in 0 .. HoursOfDay
  <2>1. HoursOfDay \in Nat
    BY EditorConstants
  <2>2. ASSUME NEW key \in {"startHour", "endHour"}, NEW fallback \in 0 .. HoursOfDay
        PROVE  Value(canvas, "schedule", key, fallback) \in 0 .. HoursOfDay
    <3>1. CASE Value(canvas, "schedule", key, fallback) = fallback
      BY <3>1
    <3>2. ASSUME NEW k \in Placed(canvas, "schedule"),
                 Value(canvas, "schedule", key, fallback) = canvas[k].values[key]
          PROVE  Value(canvas, "schedule", key, fallback) \in 0 .. HoursOfDay
      <4>1. k \in DOMAIN canvas /\ canvas[k].kind = "schedule"
        BY DEF Placed
      <4>2. key \in DOMAIN canvas[k].values
        BY <4>1, <1>2, <1>4 DEF IsBlock
      <4>3. /\ canvas[k].values[key] \notin {Blank, Malformed}
            /\ ~ (canvas[k].values[key] > HoursOfDay)
        BY <1>2, <4>1, <4>2 DEF Invalid
      <4>4. canvas[k].values[key] \in Nat \cup {Blank, Malformed}
        BY <1>2, <1>5, <4>1, <4>2 DEF IsBlock
      <4> QED
        BY <2>1, <3>2, <4>3, <4>4
    <3> QED
      BY <1>1, <3>1, <3>2, ValueIsHeld
  <2>3. 0 \in 0 .. HoursOfDay /\ HoursOfDay \in 0 .. HoursOfDay
    BY <2>1
  <2> QED
    BY <2>2, <2>3
<1>12. ASSUME ~ OddNumbers(r) PROVE Accepted(r)
  <2>1. r.window > 0 /\ r.maxIntentsPerWindow > 0
    BY <1>10, <1>12 DEF OddNumbers
  <2>2. r.schedule # Absent =>
          /\ Malformed \notin {r.schedule[1], r.schedule[2]}
          /\ r.schedule[1] < HoursOfDay /\ r.schedule[2] <= HoursOfDay
    BY <1>6, <1>7, <1>11, <1>12, EditorConstants DEF OddNumbers
  <2> QED
    BY <1>8, <1>9, <2>1, <2>2 DEF Accepted
<1> QED
  BY <1>12 DEF r

\* What the canvas warns of, in a policy that is accepted.
LEMMA TheWarningsAreTrue ==
    ASSUME CanvasOK, IsOpen, IsPolicy(policy), Accepted(Compile(canvas, carry)),
           NEW intent \in Submitted, NEW ctx, Denials(intent, Compile(canvas, carry), ctx) = {}
    PROVE  /\ {canvas[k].values.address[1] : k \in Unlisted(canvas)}
                \cap {call.target : call \in ToSet(intent.calls)} = {}
           /\ intent.calls # <<>> => Placed(canvas, "target") # {}
           /\ HoldAboveCap(canvas) => HoldOnLargeValue(intent, Compile(canvas, carry)) = {}
<1> DEFINE r == Compile(canvas, carry)
           unlisted == {canvas[k].values.address[1] : k \in Unlisted(canvas)}
<1>1. \A call \in ToSet(intent.calls) : call.target \in {a[1] : a \in Addresses(canvas, "target")}
  <2>1. TargetAllowlist(intent, r) = {}
    BY DEF Denials
  <2>2. r.allow = {a[1] : a \in Addresses(canvas, "target")}
    BY CompiledFields
  <2> HIDE DEF r
  <2> QED
    BY <2>1, <2>2 DEF TargetAllowlist, Raise
<1>2. unlisted \cap {call.target : call \in ToSet(intent.calls)} = {}
  BY <1>1 DEF Unlisted
<1>3. ASSUME intent.calls # <<>> PROVE Placed(canvas, "target") # {}
  <2>1. intent.calls \in Seq(Range(intent.calls))
    BY WindowConstants
  <2>2. 1 \in DOMAIN intent.calls
    BY <1>3, <2>1
  <2>3. intent.calls[1] \in ToSet(intent.calls)
    BY <2>2 DEF ToSet
  <2> QED
    BY <1>1, <2>3 DEF Addresses
<1>4. ASSUME HoldAboveCap(canvas) PROVE HoldOnLargeValue(intent, r) = {}
  <2>1. r.holdAboveValue > r.maxValuePerIntent
    <3>1. /\ r.maxValuePerIntent = Value(canvas, "valueCap", "maxPerIntent", 0)
          /\ r.holdAboveValue = Value(canvas, "holdAbove", "nativeValue", 0)
      BY CompiledFields
    <3> QED
      BY <1>4, <3>1 DEF HoldAboveCap, Cap
  <2>2. r.holdAboveValue \in Nat /\ r.maxValuePerIntent \in Nat
    BY AcceptedIsPolicy DEF IsPolicy
  <2>3. ValueCap(intent, r) = {}
    BY DEF Denials
  <2> HIDE DEF r
  <2>4. ~ (SumValues(intent.calls) > r.maxValuePerIntent)
    BY <2>3 DEF ValueCap, Raise
  <2>5. SumValues(intent.calls) \in Nat
    BY SumsAreNatural
  <2>6. ~ (SumValues(intent.calls) >= r.holdAboveValue)
    BY <2>1, <2>2, <2>4, <2>5
  <2> QED
    BY <2>6 DEF HoldOnLargeValue, Raise
<1> QED
  BY <1>2, <1>3, <1>4

\* What is left when one block is removed.
LEMMA Removed ==
    ASSUME NEW S, NEW blocks \in Seq(S), NEW k \in DOMAIN blocks
    PROVE  /\ RemoveAt(blocks, k) \in Seq(S) /\ Len(RemoveAt(blocks, k)) = Len(blocks) - 1
           /\ DOMAIN RemoveAt(blocks, k) = 1 .. Len(blocks) - 1
           /\ \A j \in 1 .. k - 1 : RemoveAt(blocks, k)[j] = blocks[j]
           /\ \A j \in k .. Len(blocks) - 1 : RemoveAt(blocks, k)[j] = blocks[j + 1]
<1> DEFINE n == Len(blocks)
           left == SubSeq(blocks, 1, k - 1)
           right == SubSeq(blocks, k + 1, n)
<1>1. k \in 1 .. n /\ n \in Nat
  OBVIOUS
<1>2. left \in Seq(S) /\ Len(left) = k - 1 /\ \A j \in 1 .. k - 1 : left[j] = blocks[j]
  BY <1>1
<1>3. right \in Seq(S) /\ Len(right) = n - k /\ \A j \in 1 .. n - k : right[j] = blocks[k + j]
  BY <1>1
<1>4. RemoveAt(blocks, k) = left \o right
  BY DEF RemoveAt
<1> HIDE DEF left, right, n
<1>5. /\ left \o right \in Seq(S) /\ Len(left \o right) = Len(left) + Len(right)
      /\ \A j \in 1 .. Len(left) : (left \o right)[j] = left[j]
      /\ \A j \in 1 .. Len(right) : (left \o right)[Len(left) + j] = right[j]
  <2>1. left \in Seq(S) /\ right \in Seq(S) /\ S \cup S = S
    BY <1>2, <1>3
  <2> QED
    BY <2>1, Joined
<1>6. Len(left \o right) = n - 1 /\ DOMAIN (left \o right) = 1 .. n - 1
  <2>1. Len(left) = k - 1 /\ Len(right) = n - k
    BY <1>2, <1>3
  <2>2. Len(left \o right) = n - 1
    BY <1>1, <1>5, <2>1
  <2> QED
    BY <1>5, <2>2
<1>7. \A j \in 1 .. k - 1 : (left \o right)[j] = blocks[j]
  BY <1>2, <1>5
<1>8. ASSUME NEW j \in k .. n - 1 PROVE (left \o right)[j] = blocks[j + 1]
  <2>0. j \in Int /\ k \in Int /\ n \in Int /\ j - (k - 1) \in 1 .. n - k
    BY <1>1
  <2>1. j - (k - 1) \in 1 .. Len(right) /\ Len(left) + (j - (k - 1)) = j /\ k + (j - (k - 1)) = j + 1
    <3>1. (k - 1) + (j - (k - 1)) = j /\ k + (j - (k - 1)) = j + 1
      BY <2>0
    <3>2. Len(left) = k - 1 /\ Len(right) = n - k
      BY <1>2, <1>3
    <3> QED
      BY <2>0, <3>1, <3>2
  <2>2. (left \o right)[j] = right[j - (k - 1)]
    BY <1>5, <2>1
  <2>3. right[j - (k - 1)] = blocks[j + 1]
    BY <1>3, <2>0, <2>1
  <2> QED
    BY <2>2, <2>3
<1> QED
  BY <1>4, <1>5, <1>6, <1>7, <1>8 DEF n

\* Which blocks those are: all but the one removed, in their order.
LEMMA OthersStay ==
    ASSUME NEW S, NEW blocks \in Seq(S), NEW k \in DOMAIN blocks, NEW kind
    PROVE  LET left == RemoveAt(blocks, k)
           IN  /\ {left[j] : j \in Placed(left, kind)} \subseteq {blocks[j] : j \in Placed(blocks, kind)}
               /\ kind # blocks[k].kind =>
                    /\ {left[j] : j \in Placed(left, kind)} = {blocks[j] : j \in Placed(blocks, kind)}
                    /\ Placed(left, kind) = {} <=> Placed(blocks, kind) = {}
                    /\ \A key, fallback : Value(left, kind, key, fallback) = Value(blocks, kind, key, fallback)
               /\ Placed(blocks, kind) \subseteq {k} => Placed(left, kind) = {}
<1> DEFINE left == RemoveAt(blocks, k)
           n == Len(blocks)
           to(j) == IF j < k THEN j ELSE j + 1
<1>1. /\ k \in 1 .. n /\ n \in Nat /\ DOMAIN blocks = 1 .. n
      /\ left \in Seq(S) /\ DOMAIN left = 1 .. n - 1
      /\ \A j \in 1 .. k - 1 : left[j] = blocks[j]
      /\ \A j \in k .. n - 1 : left[j] = blocks[j + 1]
  BY Removed
<1> HIDE DEF left, n
<1>2. ASSUME NEW j \in DOMAIN left
      PROVE  /\ to(j) \in DOMAIN blocks /\ to(j) # k /\ left[j] = blocks[to(j)]
  BY <1>1
<1>3. ASSUME NEW i \in DOMAIN blocks, i # k
      PROVE  \E j \in DOMAIN left : to(j) = i
  <2>1. CASE i < k
    <3>1. i \in DOMAIN left /\ to(i) = i
      BY <1>1, <2>1
    <3> QED
      BY <3>1
  <2>2. CASE i > k
    <3>1. i - 1 \in DOMAIN left /\ to(i - 1) = i
      BY <1>1, <2>2
    <3> QED
      BY <3>1
  <2> QED
    BY <1>1, <1>3, <2>1, <2>2
<1>4. \A i, j \in DOMAIN left : i <= j <=> to(i) <= to(j)
  BY <1>1
<1> HIDE DEF to
<1>5. \A j \in Placed(left, kind) : to(j) \in Placed(blocks, kind) /\ left[j] = blocks[to(j)] /\ to(j) # k
  BY <1>2 DEF Placed
<1>6. \A i \in Placed(blocks, kind) : i # k => \E j \in Placed(left, kind) : to(j) = i /\ left[j] = blocks[i]
  BY <1>2, <1>3 DEF Placed
<1>7. {left[j] : j \in Placed(left, kind)} \subseteq {blocks[j] : j \in Placed(blocks, kind)}
  BY <1>5
<1>8. Placed(blocks, kind) \subseteq {k} => Placed(left, kind) = {}
  BY <1>5
<1>9. ASSUME kind # blocks[k].kind
      PROVE  /\ {left[j] : j \in Placed(left, kind)} = {blocks[j] : j \in Placed(blocks, kind)}
             /\ Placed(left, kind) = {} <=> Placed(blocks, kind) = {}
             /\ \A key, fallback : Value(left, kind, key, fallback) = Value(blocks, kind, key, fallback)
  <2>1. k \notin Placed(blocks, kind)
    BY <1>9 DEF Placed
  <2>2. {left[j] : j \in Placed(left, kind)} = {blocks[j] : j \in Placed(blocks, kind)}
    BY <1>5, <1>6, <2>1
  <2>3. Placed(left, kind) = {} <=> Placed(blocks, kind) = {}
    BY <1>5, <1>6, <2>1
  <2>4. ASSUME Placed(left, kind) # {}
        PROVE  left[Min(Placed(left, kind))] = blocks[Min(Placed(blocks, kind))]
    <3> DEFINE a == Min(Placed(left, kind))
               b == Min(Placed(blocks, kind))
    <3>1. a \in Placed(left, kind) /\ \A j \in Placed(left, kind) : a <= j
      BY <1>1, <2>4, FirstPlaced
    <3>2. b \in Placed(blocks, kind) /\ \A j \in Placed(blocks, kind) : b <= j
      BY <2>3, <2>4, FirstPlaced
    <3> HIDE DEF a, b
    <3>3. PICK c \in Placed(left, kind) : to(c) = b /\ left[c] = blocks[b]
      BY <1>6, <2>1, <3>2
    <3>4. a \in DOMAIN left /\ c \in DOMAIN left /\ a <= c
      BY <3>1 DEF Placed
    <3>5. to(a) <= to(c)
      BY <1>4, <3>4
    <3>6. b <= to(a)
      BY <1>5, <3>1, <3>2
    <3>7. to(a) \in DOMAIN blocks /\ b \in DOMAIN blocks
      BY <1>2, <3>2, <3>4 DEF Placed
    <3>8. to(a) = b
      BY <1>1, <3>3, <3>5, <3>6, <3>7
    <3>9. left[a] = blocks[b]
      BY <1>5, <3>1, <3>8
    <3> QED
      BY <3>9 DEF a, b
  <2>5. ASSUME NEW key, NEW fallback
        PROVE  Value(left, kind, key, fallback) = Value(blocks, kind, key, fallback)
    BY <2>3, <2>4 DEF Value
  <2> QED
    BY <2>2, <2>3, <2>5
<1> QED
  BY <1>7, <1>8, <1>9 DEF left

\* Rules with smaller numbers, fewer targets and a window no shorter deny what
\* the others deny, and hold what they hold.
LEMMA StricterRules ==
    ASSUME NEW r, NEW w, NEW intent \in Submitted, NEW ctx,
           IsHistory(ctx.history), \A k \in DOMAIN ctx.history : ctx.history[k].at \in Int,
           ctx.now \in Int,
           w.chains = r.chains, w.selectors = r.selectors, w.schedule = r.schedule,
           w.maxGas = r.maxGas, w.holdUnknown = r.holdUnknown, w.minInvariants = r.minInvariants,
           w.allow \subseteq r.allow,
           r.maxValuePerIntent \in Nat, w.maxValuePerIntent \in 0 .. r.maxValuePerIntent,
           r.maxValuePerWindow \in Nat, w.maxValuePerWindow \in 0 .. r.maxValuePerWindow,
           r.maxIntentsPerWindow \in Nat, w.maxIntentsPerWindow \in 0 .. r.maxIntentsPerWindow,
           r.holdAboveValue \in Nat, w.holdAboveValue \in 0 .. r.holdAboveValue,
           r.maxApproval \in Nat, w.maxApproval \in 0 .. r.maxApproval,
           r.window \in Nat, w.window \in Nat, r.window <= w.window
    PROVE  /\ Denials(intent, r, ctx) \subseteq Denials(intent, w, ctx)
           /\ Holds(intent, r, ctx) \subseteq Holds(intent, w, ctx)
<1>1. SumValues(intent.calls) \in Nat
  BY SumsAreNatural
<1>2. ChainAllowed(intent, r) = ChainAllowed(intent, w)
  BY DEF ChainAllowed
<1>3. TargetAllowlist(intent, r) \subseteq TargetAllowlist(intent, w)
  BY DEF TargetAllowlist, Raise
<1>4. SelectorAllowlist(intent, r) = SelectorAllowlist(intent, w)
  BY DEF SelectorAllowlist, SelectorEntry
<1>5. ValueCap(intent, r) \subseteq ValueCap(intent, w)
  BY <1>1 DEF ValueCap, Raise
<1>6. WindowedLimits(intent, r, ctx) \subseteq WindowedLimits(intent, w, ctx)
  <2> DEFINE few == Recent(r, ctx)
             many == Recent(w, ctx)
  <2>1. few \subseteq many /\ many \subseteq DOMAIN ctx.history
    BY DEF Recent
  <2>2. IsFiniteSet(few) /\ IsFiniteSet(many) /\ Cardinality(few) \in Nat /\ Cardinality(many) \in Nat
    <3>1. IsFiniteSet(many)
      BY <2>1, PlacedIsFinite DEF IsHistory
    <3> HIDE DEF few, many
    <3> QED
      BY <2>1, <3>1, FS_Subset, FS_CardinalityType
  <2> HIDE DEF few, many
  <2>3. Cardinality(few) <= Cardinality(many)
    BY <2>1, <2>2, FS_Subset
  <2>4. /\ ValueOf(ctx.history, few) \in Nat /\ ValueOf(ctx.history, many) \in Nat
        /\ ValueOf(ctx.history, few) <= ValueOf(ctx.history, many)
    BY <2>1, MorePlaces
  <2>5. Cardinality(few) + 1 > r.maxIntentsPerWindow => Cardinality(many) + 1 > w.maxIntentsPerWindow
    BY <2>2, <2>3
  <2>6. ValueOf(ctx.history, few) + SumValues(intent.calls) > r.maxValuePerWindow
        => ValueOf(ctx.history, many) + SumValues(intent.calls) > w.maxValuePerWindow
    BY <1>1, <2>4
  <2> QED
    BY <2>5, <2>6 DEF WindowedLimits, Raise, few, many
<1>7. ScheduleWindow(r, ctx) = ScheduleWindow(w, ctx)
  BY DEF ScheduleWindow
<1>8. ApprovalBound(intent, r) \subseteq ApprovalBound(intent, w)
  <2>1. \A call \in ToSet(intent.calls) : call.approval \in Nat \cup {Absent}
    BY WindowConstants DEF ToSet
  <2>2. ASSUME NEW call \in ToSet(intent.calls), call.approval # Absent, call.approval > r.maxApproval
        PROVE  call.approval > w.maxApproval
    BY <2>1, <2>2
  <2> QED
    BY <2>2 DEF ApprovalBound, Raise
<1>9. GasCeiling(r, ctx) = GasCeiling(w, ctx)
  BY DEF GasCeiling
<1>10. InvariantsRequired(intent, r) = InvariantsRequired(intent, w)
  BY DEF InvariantsRequired
<1>11. Denials(intent, r, ctx) \subseteq Denials(intent, w, ctx)
  BY <1>2, <1>3, <1>4, <1>5, <1>6, <1>7, <1>8, <1>9, <1>10 DEF Denials
<1>12. HoldOnLargeValue(intent, r) \subseteq HoldOnLargeValue(intent, w)
  BY <1>1 DEF HoldOnLargeValue, Raise
<1>13. HoldOnUnknownCounterparty(intent, r, ctx) = HoldOnUnknownCounterparty(intent, w, ctx)
  BY DEF HoldOnUnknownCounterparty
<1> QED
  BY <1>11, <1>12, <1>13 DEF Holds

\* The policy without one block of a kind that limits is stricter.
LEMMA MissingBlocksAreStricter ==
    ASSUME CanvasOK, IsOpen, IsPolicy(policy), Accepted(Compile(canvas, carry)),
           NEW k \in DOMAIN canvas,
           canvas[k].kind \in {"target", "valueCap", "rateLimit", "approvalBound", "holdAbove"},
           canvas[k].kind # "target" => Placed(canvas, canvas[k].kind) = {k}
    PROVE  LET r == Compile(canvas, carry)
               w == Compile(RemoveAt(canvas, k), carry)
           IN  /\ w.chains = r.chains /\ w.selectors = r.selectors /\ w.schedule = r.schedule
               /\ w.maxGas = r.maxGas /\ w.holdUnknown = r.holdUnknown
               /\ w.minInvariants = r.minInvariants /\ w.allow \subseteq r.allow
               /\ r.maxValuePerIntent \in Nat /\ w.maxValuePerIntent \in 0 .. r.maxValuePerIntent
               /\ r.maxValuePerWindow \in Nat /\ w.maxValuePerWindow \in 0 .. r.maxValuePerWindow
               /\ r.maxIntentsPerWindow \in Nat /\ w.maxIntentsPerWindow \in 0 .. r.maxIntentsPerWindow
               /\ r.holdAboveValue \in Nat /\ w.holdAboveValue \in 0 .. r.holdAboveValue
               /\ r.maxApproval \in Nat /\ w.maxApproval \in 0 .. r.maxApproval
               /\ r.window \in Nat /\ w.window \in Nat
               /\ canvas[k].kind # "rateLimit" => w.window = r.window
<1> DEFINE left == RemoveAt(canvas, k)
           kind == canvas[k].kind
           r == Compile(canvas, carry)
           w == Compile(left, carry)
<1>1. PICK S : canvas \in Seq(S)
  BY DEF CanvasOK
<1>2. kind \in {"target", "valueCap", "rateLimit", "holdAbove", "approvalBound"}
  OBVIOUS
<1>3. /\ r.chains = Carried(carry.chains, {HomeChain}) /\ r.maxGas = Carried(carry.maxGas, DefaultGas)
      /\ r.holdUnknown = Carried(carry.holdUnknown, TRUE)
      /\ \E n : r.minInvariants = Carried(carry.minInvariants, n)
      /\ r.allow = {a[1] : a \in Addresses(canvas, "target")}
      /\ r.selectors = Selectors(canvas)
      /\ r.maxValuePerIntent = Value(canvas, "valueCap", "maxPerIntent", 0)
      /\ r.maxValuePerWindow = Value(canvas, "rateLimit", "maxValue", 0)
      /\ r.window = Value(canvas, "rateLimit", "window", 1)
      /\ r.maxIntentsPerWindow = Value(canvas, "rateLimit", "maxIntents", 1)
      /\ r.holdAboveValue = Value(canvas, "holdAbove", "nativeValue", 0)
      /\ r.maxApproval = Value(canvas, "approvalBound", "maxApproval", 0)
      /\ r.schedule =
            IF Placed(canvas, "schedule") = {} THEN Absent
            ELSE <<Value(canvas, "schedule", "startHour", 0), Value(canvas, "schedule", "endHour", HoursOfDay)>>
  BY CompiledFields
<1>4. /\ w.chains = Carried(carry.chains, {HomeChain}) /\ w.maxGas = Carried(carry.maxGas, DefaultGas)
      /\ w.holdUnknown = Carried(carry.holdUnknown, TRUE)
      /\ \E n : w.minInvariants = Carried(carry.minInvariants, n)
      /\ w.allow = {a[1] : a \in Addresses(left, "target")}
      /\ w.selectors = Selectors(left)
      /\ w.maxValuePerIntent = Value(left, "valueCap", "maxPerIntent", 0)
      /\ w.maxValuePerWindow = Value(left, "rateLimit", "maxValue", 0)
      /\ w.window = Value(left, "rateLimit", "window", 1)
      /\ w.maxIntentsPerWindow = Value(left, "rateLimit", "maxIntents", 1)
      /\ w.holdAboveValue = Value(left, "holdAbove", "nativeValue", 0)
      /\ w.maxApproval = Value(left, "approvalBound", "maxApproval", 0)
      /\ w.schedule =
            IF Placed(left, "schedule") = {} THEN Absent
            ELSE <<Value(left, "schedule", "startHour", 0), Value(left, "schedule", "endHour", HoursOfDay)>>
  BY CompiledFields
<1>5. IsPolicy(r)
  BY AcceptedIsPolicy
<1> HIDE DEF r, w
<1>6. /\ r.maxValuePerIntent \in Nat /\ r.maxValuePerWindow \in Nat /\ r.window \in Nat
      /\ r.maxIntentsPerWindow \in Nat /\ r.holdAboveValue \in Nat /\ r.maxApproval \in Nat
      /\ r.maxIntentsPerWindow > 0
  BY <1>5 DEF IsPolicy
<1>7. w.chains = r.chains /\ w.maxGas = r.maxGas /\ w.holdUnknown = r.holdUnknown
      /\ w.minInvariants = r.minInvariants
  <2>1. carry.minInvariants # Absent
    BY DEF CanvasOK, CarryOver, IsPolicy
  <2> QED
    BY <1>3, <1>4, <2>1 DEF Carried
<1>8. ASSUME NEW other, other # kind
      PROVE  /\ {left[j] : j \in Placed(left, other)} = {canvas[j] : j \in Placed(canvas, other)}
             /\ Placed(left, other) = {} <=> Placed(canvas, other) = {}
             /\ \A key, fallback : Value(left, other, key, fallback) = Value(canvas, other, key, fallback)
  BY <1>1, <1>8, OthersStay, ZenonT(40)
<1>9. {left[j] : j \in Placed(left, "target")} \subseteq {canvas[j] : j \in Placed(canvas, "target")}
  BY <1>1, OthersStay
<1>10. ASSUME kind # "target", NEW key, NEW fallback
       PROVE  Value(left, kind, key, fallback) = fallback
  <2>6. Placed(canvas, kind) = {k}
    BY <1>10
  <2>7. Placed(left, kind) = {}
    BY <1>1, <2>6, OthersStay
  <2> QED
    BY <2>7 DEF Value
<1> HIDE DEF left
<1>11. w.schedule = r.schedule
  BY <1>2, <1>3, <1>4, <1>8
<1>12. w.selectors = r.selectors
  <2>1. {left[j] : j \in Placed(left, "selector")} = {canvas[j] : j \in Placed(canvas, "selector")}
    BY <1>2, <1>8
  <2>2. Selectors(left) = Selectors(canvas)
    <3> DEFINE Of(placed) ==
                 LET filled == {b \in placed : Filled(b, "address") /\ Filled(b, "selector")}
                 IN  [a \in {b.values.address : b \in filled} |->
                        {b.values.selector : b \in {d \in filled : d.values.address = a}}]
    <3>1. Selectors(left) = Of({left[j] : j \in Placed(left, "selector")})
      BY SelectorsAre
    <3>2. Selectors(canvas) = Of({canvas[j] : j \in Placed(canvas, "selector")})
      BY SelectorsAre
    <3> HIDE DEF Of
    <3> QED
      BY <2>1, <3>1, <3>2
  <2> QED
    BY <1>3, <1>4, <2>2
<1>13. w.allow \subseteq r.allow
  <2>1. Addresses(left, "target") \subseteq Addresses(canvas, "target")
    <3> SUFFICES ASSUME NEW j \in Placed(left, "target"), Filled(left[j], "address")
                 PROVE  left[j].values.address \in Addresses(canvas, "target")
      BY DEF Addresses
    <3>1. PICK i \in Placed(canvas, "target") : left[j] = canvas[i]
      BY <1>9
    <3> QED
      BY <3>1 DEF Addresses
  <2> QED
    BY <1>3, <1>4, <2>1
<1>14. w.maxValuePerIntent \in 0 .. r.maxValuePerIntent
  <2>1. CASE kind = "valueCap"
    BY <2>1, <1>4, <1>6, <1>10
  <2>2. CASE kind # "valueCap"
    BY <2>2, <1>3, <1>4, <1>6, <1>8
  <2> QED
    BY <2>1, <2>2
<1>15. /\ w.maxValuePerWindow \in 0 .. r.maxValuePerWindow
       /\ w.maxIntentsPerWindow \in 0 .. r.maxIntentsPerWindow
       /\ w.window \in Nat /\ (kind # "rateLimit" => w.window = r.window)
  <2>1. CASE kind = "rateLimit"
    <3>1. w.maxValuePerWindow = 0 /\ w.maxIntentsPerWindow = 1 /\ w.window = 1
      BY <2>1, <1>4, <1>10
    <3> QED
      BY <2>1, <3>1, <1>6
  <2>2. CASE kind # "rateLimit"
    <3>1. /\ w.maxValuePerWindow = r.maxValuePerWindow /\ w.window = r.window
          /\ w.maxIntentsPerWindow = r.maxIntentsPerWindow
      BY <2>2, <1>3, <1>4, <1>8
    <3> QED
      BY <3>1, <1>6
  <2> QED
    BY <2>1, <2>2
<1>16. w.holdAboveValue \in 0 .. r.holdAboveValue
  <2>1. CASE kind = "holdAbove"
    BY <2>1, <1>4, <1>6, <1>10
  <2>2. CASE kind # "holdAbove"
    BY <2>2, <1>3, <1>4, <1>6, <1>8
  <2> QED
    BY <2>1, <2>2
<1>17. w.maxApproval \in 0 .. r.maxApproval
  <2>1. CASE kind = "approvalBound"
    BY <2>1, <1>4, <1>6, <1>10
  <2>2. CASE kind # "approvalBound"
    BY <2>2, <1>3, <1>4, <1>6, <1>8
  <2> QED
    BY <2>1, <2>2
<1> QED
  BY <1>6, <1>7, <1>11, <1>12, <1>13, <1>14, <1>15, <1>16, <1>17 DEF r, w, left

\* However the canvas was edited, over any number of deployments: what it reports as
\* deployable is accepted but for odd numbers, a function reported as one that can
\* never run never does, without a target no call runs, and above the cap the review
\* threshold holds nothing, in whatever context an intent is evaluated.
THEOREM ReportsHold == WindowSpec => []ReportsAreTrue
<1>1. CanvasOK /\ IsPolicy(policy) => ReportsAreTrue
  BY DeployableIsAccepted, TheWarningsAreTrue DEF ReportsAreTrue
<1> QED
  BY <1>1, CanvasIsOK, PTL

\* Taking a target, or the only cap, rate limit (unless its window was longer than the
\* one that stands in for it), approval bound or review threshold off the canvas never
\* turns a denial into anything else nor a hold into an allowance, in whatever context.
THEOREM RemovalsTighten == WindowSpec => []RemovalsNeverLoosen
<1>1. CanvasOK /\ IsPolicy(policy) => RemovalsNeverLoosen
  <2> DEFINE r == Compile(canvas, carry)
             w(k) == Compile(RemoveAt(canvas, k), carry)
  <2> SUFFICES ASSUME CanvasOK, IsPolicy(policy), IsOpen, Accepted(r), NEW k \in Tightening(r),
                      NEW intent \in Submitted, NEW ctx \in Contexts
               PROVE  /\ Evaluate(intent, r, ctx) = "DENY" => Evaluate(intent, w(k), ctx) = "DENY"
                      /\ Evaluate(intent, r, ctx) = "HOLD" => Evaluate(intent, w(k), ctx) # "ALLOW"
    BY DEF RemovalsNeverLoosen, Ruled
  <2>1. /\ k \in DOMAIN canvas
        /\ canvas[k].kind \in {"target", "valueCap", "rateLimit", "approvalBound", "holdAbove"}
        /\ canvas[k].kind # "target" => Placed(canvas, canvas[k].kind) = {k}
        /\ canvas[k].kind = "rateLimit" => r.window <= w(k).window
    BY DEF Tightening
  <2>2. /\ IsHistory(ctx.history) /\ ctx.now \in Int
        /\ \A j \in DOMAIN ctx.history : ctx.history[j].at \in Int
    BY WindowConstants DEF IsHistory
  <2>3. /\ w(k).chains = r.chains /\ w(k).selectors = r.selectors /\ w(k).schedule = r.schedule
        /\ w(k).maxGas = r.maxGas /\ w(k).holdUnknown = r.holdUnknown
        /\ w(k).minInvariants = r.minInvariants /\ w(k).allow \subseteq r.allow
        /\ r.maxValuePerIntent \in Nat /\ w(k).maxValuePerIntent \in 0 .. r.maxValuePerIntent
        /\ r.maxValuePerWindow \in Nat /\ w(k).maxValuePerWindow \in 0 .. r.maxValuePerWindow
        /\ r.maxIntentsPerWindow \in Nat /\ w(k).maxIntentsPerWindow \in 0 .. r.maxIntentsPerWindow
        /\ r.holdAboveValue \in Nat /\ w(k).holdAboveValue \in 0 .. r.holdAboveValue
        /\ r.maxApproval \in Nat /\ w(k).maxApproval \in 0 .. r.maxApproval
        /\ r.window \in Nat /\ w(k).window \in Nat
        /\ canvas[k].kind # "rateLimit" => w(k).window = r.window
    BY <2>1, MissingBlocksAreStricter
  <2> HIDE DEF r, w
  <2>4. r.window <= w(k).window
    BY <2>1, <2>3
  <2>5. /\ Denials(intent, r, ctx) \subseteq Denials(intent, w(k), ctx)
        /\ Holds(intent, r, ctx) \subseteq Holds(intent, w(k), ctx)
    BY <2>2, <2>3, <2>4, StricterRules
  <2> QED
    BY <2>5 DEF Evaluate, Verdict
<1> QED
  BY <1>1, CanvasIsOK, PTL
=============================================================================
