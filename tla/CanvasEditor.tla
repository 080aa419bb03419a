---------------------------- MODULE CanvasEditor ----------------------------
(***************************************************************************)
(* The policy page of the dashboard (app/(app)/policy/page.tsx and         *)
(* components/canvas/policy-canvas.tsx): it opens the deployed policy as   *)
(* blocks, somebody drops, fills in and removes blocks, and copies what    *)
(* they compile to, which then is what is deployed.  Which block is        *)
(* selected, the wires between blocks and where they lie change nothing    *)
(* of it and are left out.                                                 *)
(***************************************************************************)
EXTENDS PolicyCanvas

CONSTANTS
    Policies,     \* what may be deployed to begin with
    Floor,        \* the block of the deployed floor, or <<>> where none is configured
    DemoTarget,   \* the address a new block names
    Fillings,     \* Fillings[key]: what somebody may type into a field
    MaxEdits      \* bound on the edits

VARIABLES
    policy,    \* NOYEET_POLICY, as parsePolicy has it
    canvas,    \* the blocks on the page
    carry,     \* what the page carries over; Absent while it is closed
    edits

pageVars == <<canvas, carry, edits>>
IsOpen == carry # Absent

EditorInit ==
    /\ policy \in Policies
    /\ canvas = <<>>
    /\ carry = Absent
    /\ edits = 0

\* What a field holds when its block is dropped: values are in tenths of an
\* ETH, the window in hours; the schedule is 8 to 20 of 24.
Initial ==
    [target |-> [address |-> DemoTarget],
     selector |-> [address |-> DemoTarget, selector |-> "borrow"],
     valueCap |-> [maxPerIntent |-> 10],
     approvalBound |-> [maxApproval |-> 10],
     rateLimit |-> [maxIntents |-> 20, window |-> 1, maxValue |-> 50],
     schedule |-> [startHour |-> HoursOfDay \div 3, endHour |-> (5 * HoursOfDay) \div 6],
     holdAbove |-> [nativeValue |-> 5],
     invariantFloor |-> [word |-> 5, threshold |-> 14],
     invariantDrop |-> [word |-> 0, threshold |-> 1]]

\* The fields for numbers; they hold one, or nothing, or what is none.
NumberFields ==
    {"maxPerIntent", "maxApproval", "maxIntents", "window", "maxValue", "nativeValue",
     "startHour", "endHour"}

IsBlock(b) ==
    /\ b = Block(b.kind, b.values) /\ b.kind \in DOMAIN Initial
    /\ DOMAIN b.values = DOMAIN Initial[b.kind]
    /\ \A key \in NumberFields \cap DOMAIN b.values : b.values[key] \in Nat \cup {Blank, Malformed}

ASSUME EditorConstants ==
    /\ HoursOfDay \in Nat \ {0}
    /\ \A p \in Policies : IsPolicy(p)
    /\ \A key \in NumberFields : Fillings[key] \subseteq Nat \cup {Blank, Malformed}
    /\ Blank \notin Nat /\ Malformed \notin Nat /\ Blank # Malformed
    /\ Floor \in Seq(Range(Floor))
    /\ \A k \in DOMAIN Floor :
         IsBlock(Floor[k]) /\ Floor[k].kind \in {"invariantFloor", "invariantDrop"}

OpenPage ==
    /\ ~IsOpen
    /\ canvas' = PolicyToBlocks(policy) \o Floor
    /\ carry' = CarryOver(policy)
    /\ UNCHANGED <<policy, edits>>

Edit(blocks) ==
    /\ IsOpen /\ edits < MaxEdits
    /\ canvas' = blocks
    /\ edits' = edits + 1
    /\ UNCHANGED <<policy, carry>>

\* The palette offers every block again, singletons too.
Drop(kind) == Edit(Append(canvas, Block(kind, Initial[kind])))

UpdateValue(k, key, filling) == Edit([canvas EXCEPT ![k].values[key] = filling])

\* The Remove button, Backspace or Delete.
RemoveNode(k) == Edit(RemoveAt(canvas, k))

\* Whoever copied the document deploys it; a gateway does not start with one
\* parsePolicy refuses, and the page is loaded anew.
Deploy ==
    /\ IsOpen
    /\ Accepted(Compile(canvas, carry))
    /\ policy' = Compile(canvas, carry)
    /\ canvas' = <<>>
    /\ carry' = Absent
    /\ UNCHANGED edits

\* Whatever was edited is gone.
ClosePage ==
    /\ IsOpen
    /\ canvas' = <<>>
    /\ carry' = Absent
    /\ UNCHANGED <<policy, edits>>

EditorNext ==
    \/ OpenPage \/ Deploy \/ ClosePage
    \/ \E kind \in DOMAIN Initial : Drop(kind)
    \/ \E k \in DOMAIN canvas :
         \/ RemoveNode(k)
         \/ \E key \in DOMAIN canvas[k].values :
              \E filling \in Fillings[key] : UpdateValue(k, key, filling)
=============================================================================
