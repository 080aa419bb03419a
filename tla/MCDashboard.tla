---------------------------- MODULE MCDashboard -----------------------------
(***************************************************************************)
(* Three intents of the execute form, one of each verdict, under two ids,  *)
(* two runs, two operator requests, two instances; amounts of one digit    *)
(* before the point and up to three behind it.                             *)
(***************************************************************************)
EXTENDS Dashboard, ExecuteForm, TLC

Digits == {0, 1, 9}
Fractions == UNION {[1 .. n -> Digits] : n \in 0 .. 3}

MCForms ==
    {[amount |-> Typed(<<1>>, <<>>), value |-> value] :
        value \in {Empty} \cup {Typed(w, f) : w \in {<<0>>, <<1>>, <<9>>, <<1, 0>>}, f \in Fractions}}

MCIntents ==
    {[amount |-> Typed(<<1>>, <<>>), value |-> value] :
        value \in {Typed(<<0>>, <<0, 0, 9>>), Typed(<<0>>, <<0, 1>>), Typed(<<1>>, <<0, 1>>)}}

MCPolicy == [form \in MCIntents |-> FormVerdict(form)]
MCBodies == Ids \X MCIntents
Alike == Permutations(Runs) \cup Permutations(Clicks) \cup Permutations(Instances)
=============================================================================
