--------------------------- MODULE ActionPlanning ---------------------------
(***************************************************************************)
(* From an agent's intent to native input (crates/action-planner): a plan   *)
(* is made from a compiled tree and a layout the caller holds, under the    *)
(* transaction policy (crates/transactions), and executed event by event by *)
(* a dispatcher that may fail, while the page goes on changing.             *)
(***************************************************************************)
EXTENDS PageTree

CONSTANTS Targets,   \* the nodes of the page acted on
          Policies   \* TransactionPolicies in use

ASSUME TargetsAssumption == Targets \subseteq NodeIds

VARIABLES policy,
          plan,      \* PlannedAction: {} or {its events and target}
          unmoved,   \* history: the layout is still the one the plan was tested against
          step,      \* number of its events dispatched
          pointer,   \* the engine's pointer position
          held,      \* buttons and keys that are down
          stuck,     \* history: buttons and keys a failed execution left down
          press      \* history: {} or {the last press: whom it was meant for, whom it hit}

planVars == <<policy, plan, unmoved, step, pointer, held, stuck, press>>

Pointing == {"Click", "Activate", "DoubleClick", "ContextClick", "Toggle", "Select", "Focus"}
ActionType ==
    Pointing \cup {"Hover", "Blur", "Type", "ReplaceText", "KeyPress", "Scroll", "Drag", "Drop",
                   "Upload", "Download", "Navigate", "Back", "Forward", "Reload", "Submit",
                   "Authenticate"}

PlanInit ==
    /\ policy \in Policies
    /\ plan = {} /\ unmoved = FALSE /\ step = 0 /\ pointer = None
    /\ held = {} /\ stuck = {} /\ press = {}
-----------------------------------------------------------------------------
Consequence(type) ==
    CASE type \in {"Navigate", "Back", "Forward", "Reload"} -> "Navigate"
      [] type \in {"Type", "ReplaceText", "Toggle", "Select", "Download"} -> "LocalWrite"
      [] type \in {"Submit", "Upload"} -> "Unknown"
      [] type = "Authenticate" -> "Authenticate"
      [] OTHER -> "Read"

\* TransactionPolicy::classify.
classify(consequence) ==
    CASE consequence = "Delete" /\ ~policy.allow_delete -> "Deny"
      [] consequence \in {"Purchase", "Transfer"} /\ ~policy.allow_financial -> "RequireConfirmation"
      [] consequence \in {"SecurityChange", "PermissionChange"} /\ ~policy.allow_security_changes
            -> "RequireConfirmation"
      [] consequence \in {"Send", "Publish", "Authenticate"} -> "RequireConfirmation"
      [] consequence = "Unknown" /\ policy.require_confirmation_for_unknown -> "RequireConfirmation"
      [] OTHER -> "Allow"

\* The node a target names: by id, or the only one with that identity.
Resolved(target) ==
    LET ids == {i \in DOMAIN tree.nodes : tree.nodes[i].id = target}
        same == {i \in DOMAIN tree.nodes : tree.nodes[i].key = target}
    IN IF ids # {} THEN {tree.nodes[Min(ids)]}
       ELSE IF Cardinality(same) = 1 THEN {tree.nodes[i] : i \in same} ELSE {}

\* Mutant: only nodes that are shown are looked for at the point.
InteractableIfUsable(node, boxes) == node.usable

\* A node without a box in the tree, or a layout without boxes, is not hit-tested.
Interactable(node, boxes) ==
    /\ node.usable
    /\ boxes # << >> /\ node.geometry # None => hit_test(boxes, node.geometry) = node.id

Move(at) == [do |-> "move", what |-> at]
Down(what) == [do |-> "down", what |-> what]
Up(what) == [do |-> "up", what |-> what]
Input == [do |-> "input", what |-> None]   \* TextInput and Scroll

\* The events of an action on a node at a point; there are none for the rest.
Events(type, at, to) ==
    LET button == IF type = "ContextClick" THEN "right" ELSE "left"
    IN CASE type = "DoubleClick" -> <<Move(at), Down("left"), Up("left"), Down("left"), Up("left")>>
         [] type \in Pointing \ {"DoubleClick"} -> <<Move(at), Down(button), Up(button)>>
         [] type = "Hover" -> <<Move(at)>>
         [] type \in {"Type", "Scroll"} -> <<Input>>
         [] type = "KeyPress" -> <<Down("key"), Up("key")>>
         [] type = "ReplaceText" -> <<Down("Control"), Down("A"), Up("A"), Up("Control"), Input>>
         [] type = "Drag" -> <<Move(at), Down("left"), Move(to), Up("left")>>
         [] type = "Drop" -> <<Move(at), Up("left")>>
         [] type = "Blur" -> <<Down("Tab"), Up("Tab")>>
         [] OTHER -> << >>

NeedsPoint == Pointing \cup {"Hover", "Drag", "Drop"}

\* plan, and plan_at_generation whose generation is the tree's.  The tree may be
\* older than the layout passed along, which is empty if the caller has none.
\* Bound: no plan follows a failure that left something down.
plan_internal(target, type, to, boxes) ==
    /\ plan = {} /\ stuck = {}
    /\ \E node \in Resolved(target) :
          /\ Interactable(node, boxes)
          /\ classify(Consequence(type)) = "Allow"
          /\ type \in NeedsPoint => node.geometry # None
          /\ plan' = {[target |-> node.id, events |-> Events(type, node.geometry, to)]}
    /\ unmoved' = (boxes # << >>)
    /\ step' = 0 /\ press' = {}
    /\ UNCHANGED <<pageVars, policy, pointer, held, stuck>>

\* The engine takes one event.
Dispatched(p) ==
    LET event == p.events[step + 1]
    IN /\ pointer' = IF event.do = "move" THEN event.what ELSE pointer
       /\ held' = CASE event.do = "down" -> held \cup {event.what}
                    [] event.do = "up" -> held \ {event.what}
                    [] OTHER -> held
       /\ press' = IF event.do = "down" /\ event.what \in {"left", "right"}
                   THEN {[target |-> p.target, hit |-> hit_test(layout, pointer),
                          unmoved |-> unmoved]}
                   ELSE press

execute ==
    /\ \E p \in plan : step < Len(p.events) /\ Dispatched(p)
    /\ step' = step + 1
    /\ UNCHANGED <<pageVars, policy, plan, unmoved, stuck>>

\* Mutant: the last event is left out.
CompleteEarly ==
    /\ \E p \in plan : step + 1 >= Len(p.events)
    /\ plan' = {} /\ step' = 0 /\ press' = {}
    /\ UNCHANGED <<pageVars, policy, unmoved, pointer, held, stuck>>

\* The last event is out: ActionResult { completed: true }, also if there was none.
complete ==
    /\ \E p \in plan : step = Len(p.events)
    /\ plan' = {} /\ step' = 0 /\ press' = {}
    /\ UNCHANGED <<pageVars, policy, unmoved, pointer, held, stuck>>

\* The dispatcher answers an error: execute gives up, and nothing is taken back.
dispatch_error ==
    /\ \E p \in plan : step < Len(p.events)
    /\ plan' = {} /\ step' = 0 /\ stuck' = held
    /\ UNCHANGED <<pageVars, policy, unmoved, pointer, held, press>>

\* The page changes under the agent's hands.
PageChanges ==
    /\ \/ \E n \in Targets, p \in Targets \cup {None}, k \in Keys \cup {None} :
             InsertNode(n, p, CHOOSE t \in Texts : TRUE, k, << >>)
       \/ \E n \in Targets, b \in Boxes : insert_box(n, b)
       \/ \E n \in Targets : remove_box(n)
       \/ tree.generation = 0 /\ compile   \* bound: trees only get older
    /\ unmoved' = (unmoved /\ layout' = layout)
    /\ UNCHANGED <<policy, plan, step, pointer, held, stuck, press>>

PlanNext ==
    \/ PageChanges
    \/ \E target \in Targets \cup Keys, type \in ActionType, boxes \in {layout, << >>} :
       \E to \in IF type = "Drag" THEN {b.at : b \in Boxes} ELSE {None} :
          plan_internal(target, type, to, boxes)
    \/ execute \/ complete \/ dispatch_error
-----------------------------------------------------------------------------
(* Every press of a button lands on the node the plan was made for, whatever *)
(* covers it or moved before, if the layout did not change between planning  *)
(* and pressing: execute does not look at the page again, so the hit test at *)
(* planning time and the order of the events are all there is.               *)
PressesLand ==
    \A p \in press : p.unmoved => p.hit = p.target

(* When no plan is under way no button or key is down, except those a failed *)
(* dispatch left down - which nothing in the planner releases.               *)
NothingStaysDown == plan = {} => held \subseteq stuck

(* A gesture presses what it was planned for and lets go of it (plan,        *)
(* execute).                                                                 *)
GesturesAreClean == PressesLand /\ NothingStaysDown
=============================================================================
