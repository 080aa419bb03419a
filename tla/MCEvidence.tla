----------------------------- MODULE MCEvidence -----------------------------
(***************************************************************************)
(* Intents that differ in one thing each, a decision of each verdict, and  *)
(* an editor with another value for every field.                           *)
(***************************************************************************)
EXTENDS Evidence

Borrow == [target |-> "pool", value |-> <<"1">>, data |-> <<"2", "c">>]
Intent == [id |-> "i1", chainId |-> 1, calls |-> <<Borrow>>, invariants |-> {"floor"},
           rationale |-> "because", submittedAt |-> "then"]
MCIntents ==
    {Intent, [Intent EXCEPT !.rationale = "hence"], [Intent EXCEPT !.invariants = {}],
     [Intent EXCEPT !.calls = <<Borrow, Borrow>>], [Intent EXCEPT !.chainId = 2],
     [Intent EXCEPT !.calls[1].value = <<"1", "2">>, !.calls[1].data = <<"c">>],
     [Intent EXCEPT !.calls[1].data = <<"2", ":", "c">>]}

Reason(code) ==
    Obj(<<<<"code", Str(code)>>, <<"severity", Str("deny")>>, <<"message", Str("why")>>>>)
Simulation(reverts) ==
    Obj(<<<<"wouldRevert", Bool(reverts)>>, <<"gasEstimate", Str("0")>>>>)

MCDecisions ==
    {[verdict |-> "ALLOW", reasons |-> <<>>, simulation |-> Simulation(FALSE)],
     [verdict |-> "HOLD", reasons |-> <<Reason("A"), Reason("B")>>, simulation |-> Null],
     [verdict |-> "DENY", reasons |-> <<Reason("A")>>,
      simulation |-> With(Simulation(TRUE), "invariantIndex", Num(0))]}

MCValues ==
    [intentId |-> {Str("i2")}, verdict |-> {Str("ALLOW"), Null}, chainId |-> {Num(2), Str("1")},
     at |-> {Str("later"), Infinite}, reasons |-> {Null, Arr(<<>>)},
     simulation |-> {Null, Simulation(FALSE), With(Simulation(TRUE), "invariantIndex", Num(1))},
     execution |-> {Obj(<<<<"txHash", Str("h")>>, <<"gasUsed", Str("1")>>, <<"block", Num(7)>>>>),
                    Obj(<<<<"txHash", Str("h")>>>>)}]
=============================================================================
