------------------------------ MODULE PageTree ------------------------------
(***************************************************************************)
(* How an agent sees a page: the observed document (crates/dom-observer)    *)
(* with its layout (crates/layout-observer), the tree the semantic compiler *)
(* makes of them, the differences between trees (crates/diff) that keep a   *)
(* consumer's copy up to date, the pages in which a tree is read            *)
(* (crates/state), and the frame tree (crates/frames).                      *)
(*                                                                          *)
(* A node has a text, which stands for its attributes, text and listeners,  *)
(* and an identity key or None; a text is its size.  A rectangle is a point.*)
(***************************************************************************)
EXTENDS Naturals, SequencesExt

CONSTANTS NodeIds,        \* EngineNodeIds, numbers
          Texts,          \* sizes of texts
          Keys,           \* values of the attribute the identity is made of
          Brought,        \* children that nodes to insert already name
          Boxes,          \* layout boxes nodes may get
          FrameIds, Origins,
          None,
          Limits, Budgets, \* page lengths and token budgets readers ask for
          MaxGeneration, MaxCompilations  \* bounds on the generations

ASSUME PageAssumption ==
    /\ NodeIds \subseteq Nat /\ Texts \subseteq Nat \ {0} /\ MaxGeneration \in Nat
    /\ MaxCompilations \in Nat /\ Brought \subseteq Seq(NodeIds)
    /\ None \notin NodeIds \cup FrameIds /\ FrameIds # {}
    /\ Limits \subseteq Nat /\ Budgets \subseteq Nat \cup {None}

VARIABLES document,   \* RawDocument
          grafted,    \* history: a node came into the document with children
          layout,     \* LayoutSnapshot::boxes
          refs,       \* the NodeReference a caller holds, with what it referred to
          tree,       \* the AgentRenderTree last compiled; its generation is the compiler's
          copy,       \* the consumer's copy of the tree's nodes
          ambiguous,  \* history: two nodes of a compared tree had the same identity
          reading,    \* a reader's progress through the pages of a tree
          frames      \* FrameTree

docVars == <<document, grafted, layout, refs>>
treeVars == <<tree, copy, ambiguous, reading>>
pageVars == <<docVars, treeVars, frames>>

Put(f, k, v) == [i \in DOMAIN f \cup {k} |-> IF i = k THEN v ELSE f[i]]
Without(f, S) == [i \in DOMAIN f \ S |-> f[i]]

Idle == [generation |-> 0, all |-> << >>, got |-> << >>, done |-> FALSE]

PageInit ==
    /\ document = [generation |-> 0, lifecycle |-> "Initial", root |-> None, nodes |-> << >>]
    /\ grafted = FALSE /\ layout = << >> /\ refs = {}
    /\ tree = [generation |-> 0, nodes |-> << >>] /\ copy = {} /\ ambiguous = FALSE
    /\ reading = Idle
    /\ LET f == CHOOSE f \in FrameIds : TRUE
       IN frames = [root |-> f,
                    of |-> [g \in {f} |-> [parent |-> None, origin |-> CHOOSE o \in Origins : TRUE,
                                            children |-> << >>]]]

\* The nodes of the subtree at n in the order they are visited, n first.
\* Children that are not there are passed over.
Subtree(nodes, n) ==
    LET visit[d \in 0 .. Cardinality(DOMAIN nodes)] == [m \in DOMAIN nodes |->
            IF d = 0 THEN <<m>>
            ELSE <<m>> \o FlattenSeq([i \in DOMAIN nodes[m].children |->
                    IF nodes[m].children[i] \in DOMAIN nodes
                    THEN visit[d - 1][nodes[m].children[i]] ELSE << >>])]
    IN visit[Cardinality(DOMAIN nodes)][n]

collect_descendants(nodes, n) == ToSet(Subtree(nodes, n)) \ {n}

Present(nodes, n) == ToSet(nodes[n].children) \cap DOMAIN nodes

\* The visit comes to an end: it is closed, and no node in it is below itself.
Ends(nodes, n) ==
    LET S == ToSet(Subtree(nodes, n))
    IN \A m \in S : \A c \in Present(nodes, m) : c \in S /\ m \notin ToSet(Subtree(nodes, c))
-----------------------------------------------------------------------------
(* RawDocument *)

Changed(nodes, root) ==
    /\ document.generation < MaxGeneration
    /\ document' = [document EXCEPT !.nodes = nodes, !.root = root, !.generation = @ + 1]
    /\ UNCHANGED <<layout, refs, treeVars, frames>>

\* The node is taken as it is given, with the children it names.
InsertNode(n, parent, text, key, given) ==
    /\ document.lifecycle # "Destroyed" /\ n \notin DOMAIN document.nodes
    /\ IF parent = None THEN document.root = None ELSE parent \in DOMAIN document.nodes
    /\ grafted' = (grafted \/ given # << >>)
    /\ LET node == [parent |-> parent, children |-> given, text |-> text, key |-> key]
           linked == IF parent = None THEN document.nodes
                     ELSE [document.nodes EXCEPT ![parent].children = Append(@, n)]
       IN Changed(Put(linked, n, node), IF parent = None THEN n ELSE document.root)

\* Vec::retain: the other children in their order.
OthersThan(n, children) ==
    LET kept[i \in 0 .. Len(children)] ==
          IF i = 0 THEN << >>
          ELSE IF children[i] = n THEN kept[i - 1] ELSE Append(kept[i - 1], children[i])
    IN kept[Len(children)]

\* Mutant: only the node goes, not what is below it.
RemoveOnlyNode(n) ==
    /\ document.lifecycle # "Destroyed" /\ n \in DOMAIN document.nodes
    /\ LET p == document.nodes[n].parent
           rest == Without(document.nodes, {n})
       IN Changed(IF p \in DOMAIN rest THEN [rest EXCEPT ![p].children = OthersThan(n, @)]
                  ELSE rest,
                  IF document.root = n THEN None ELSE document.root)
    /\ UNCHANGED grafted

\* What hangs below the node goes with it; a parent keeps no link to it, other
\* nodes that named it do.  A visit without an end overflows the stack: no step.
RemoveNode(n) ==
    /\ document.lifecycle # "Destroyed" /\ n \in DOMAIN document.nodes
    /\ Ends(document.nodes, n)
    /\ LET p == document.nodes[n].parent
           rest == Without(document.nodes, {n} \cup collect_descendants(document.nodes, n))
       IN Changed(IF p \in DOMAIN rest THEN [rest EXCEPT ![p].children = OthersThan(n, @)]
                  ELSE rest,
                  IF document.root = n THEN None ELSE document.root)
    /\ UNCHANGED grafted

\* SetText, and the attribute and listener mutations that change a node.
SetText(n, text) ==
    /\ document.lifecycle # "Destroyed" /\ n \in DOMAIN document.nodes
    /\ Changed([document.nodes EXCEPT ![n].text = text], document.root) /\ UNCHANGED grafted

SetAttribute(n, key) ==
    /\ document.lifecycle # "Destroyed" /\ n \in DOMAIN document.nodes
    /\ Changed([document.nodes EXCEPT ![n].key = key], document.root) /\ UNCHANGED grafted

advance_lifecycle(lifecycle) ==
    /\ document.generation < MaxGeneration
    /\ document' = [document EXCEPT !.lifecycle = lifecycle, !.generation = @ + 1]
    /\ UNCHANGED <<grafted, layout, refs, treeVars, frames>>

\* Mutant: the new document starts with the old one's generation.
NavigateInPlace ==
    /\ document.nodes # << >>
    /\ document' = [document EXCEPT !.nodes = << >>, !.root = None, !.lifecycle = "Loading"]
    /\ grafted' = FALSE
    /\ UNCHANGED <<layout, refs, treeVars, frames>>

begin_navigation ==
    /\ document.generation < MaxGeneration
    /\ document' = [generation |-> document.generation + 1, lifecycle |-> "Loading",
                    root |-> None, nodes |-> << >>]
    /\ grafted' = FALSE
    /\ UNCHANGED <<layout, refs, treeVars, frames>>

reference(n) ==
    /\ n \in DOMAIN document.nodes
    /\ refs' = {[node |-> n, generation |-> document.generation, as |-> document.nodes[n]]}
    /\ UNCHANGED <<document, grafted, layout, treeVars, frames>>

resolves(ref) == ref.generation = document.generation /\ ref.node \in DOMAIN document.nodes

\* The engine lays a node out, or takes its box away.
insert_box(n, box) ==
    /\ n \in DOMAIN document.nodes
    /\ layout' = Put(layout, n, box)
    /\ UNCHANGED <<document, grafted, refs, treeVars, frames>>

remove_box(n) ==
    /\ n \in DOMAIN layout
    /\ layout' = Without(layout, {n})
    /\ UNCHANGED <<document, grafted, refs, treeVars, frames>>

\* The topmost box at a point that takes the pointer.
hit_test(boxes, at) ==
    LET hit == {n \in DOMAIN boxes : boxes[n].at = at /\ boxes[n].shown /\ boxes[n].pointer}
        over(m, n) == boxes[m].z > boxes[n].z \/ (boxes[m].z = boxes[n].z /\ m > n)
    IN IF hit = {} THEN None ELSE CHOOSE n \in hit : \A m \in hit \ {n} : over(n, m)
-----------------------------------------------------------------------------
(* SemanticCompiler, diff and the consumer of the differences *)

AgentNode(n, generation) ==
    [id |-> n, key |-> document.nodes[n].key, text |-> document.nodes[n].text,
     generation |-> generation,
     geometry |-> IF n \in DOMAIN layout THEN layout[n].at ELSE None,
     usable |-> n \in DOMAIN layout => layout[n].shown]

visit(generation) ==
    IF document.root = None THEN << >>
    ELSE LET order == Subtree(document.nodes, document.root)
         IN [i \in DOMAIN order |-> AgentNode(order[i], generation)]

node_key(node) == IF node.key = None THEN node.id ELSE node.key

\* The map of a tree's nodes by key: of two with one key the last is left.
Keyed(nodes) ==
    [k \in {node_key(nodes[i]) : i \in DOMAIN nodes} |->
        nodes[Max({i \in DOMAIN nodes : node_key(nodes[i]) = k})]]

\* Mutant: a node is changed if it is another node.
DiffById(before, after) ==
    LET left == Keyed(before) right == Keyed(after)
        common == {k \in DOMAIN left \cap DOMAIN right : left[k].id # right[k].id}
    IN [added |-> {right[k] : k \in DOMAIN right \ DOMAIN left},
        removed |-> {left[k] : k \in DOMAIN left \ DOMAIN right},
        before |-> {left[k] : k \in common}, after |-> {right[k] : k \in common}]

\* Nodes carry the generation they were compiled in: all common nodes differ.
diff_tree(before, after) ==
    LET left == Keyed(before) right == Keyed(after)
        common == {k \in DOMAIN left \cap DOMAIN right : left[k] # right[k]}
    IN [added |-> {right[k] : k \in DOMAIN right \ DOMAIN left},
        removed |-> {left[k] : k \in DOMAIN left \ DOMAIN right},
        before |-> {left[k] : k \in common}, after |-> {right[k] : k \in common}]

Applied(nodes, d) == ((nodes \ d.removed) \ d.before) \cup d.added \cup d.after

Unambiguous(nodes) == Cardinality(DOMAIN Keyed(nodes)) = Len(nodes)

\* The compiler panics on a child that is not there, and has no end in a circle.
Compilable(root, nodes) ==
    root # None => /\ Ends(nodes, root)
                   /\ \A n \in ToSet(Subtree(nodes, root)) :
                         ToSet(nodes[n].children) \subseteq DOMAIN nodes

\* A compilation; the consumer applies the difference to the tree before.
compile ==
    /\ tree.generation < MaxCompilations /\ Compilable(document.root, document.nodes)
    /\ LET generation == tree.generation + 1
           nodes == visit(generation)
       IN /\ tree' = [generation |-> generation, nodes |-> nodes]
          /\ copy' = Applied(copy, diff_tree(tree.nodes, nodes))
          /\ ambiguous' = (ambiguous \/ ~Unambiguous(tree.nodes) \/ ~Unambiguous(nodes))
    /\ UNCHANGED <<docVars, reading, frames>>
-----------------------------------------------------------------------------
(* PageState::page: the tree in pieces *)

Size(nodes) == FoldSeq(LAMBDA n, s : s + n.text, 0, nodes)

\* Mutant: the first node counts against the budget like the others.
TakenStrictly(nodes, limit, budget) ==
    Max({k \in 0 .. Len(nodes) : /\ k <= (IF limit = 0 THEN 1 ELSE limit)
                                 /\ budget = None \/ Size(SubSeq(nodes, 1, k)) <= 4 * budget})

\* How many nodes a page takes: at least one, whatever the limit and the budget.
Taken(nodes, limit, budget) ==
    Max({k \in 0 .. Len(nodes) :
            /\ k <= (IF limit = 0 THEN 1 ELSE limit)
            /\ k <= 1 \/ budget = None \/ Size(SubSeq(nodes, 1, k)) <= 4 * budget})

\* The reader asks for the page at its offset; after the first one it insists
\* on the generation it began with, and begins again if that is gone.
page(limit, budget) ==
    /\ reading.done = FALSE
    /\ LET offset == Len(reading.got)
           stale == offset > 0 /\ reading.generation # tree.generation
           rest == SubSeq(tree.nodes, offset + 1, Len(tree.nodes))
           k == Taken(rest, limit, budget)
       IN reading' = IF stale THEN Idle
                     ELSE [generation |-> tree.generation, all |-> tree.nodes,
                           got |-> reading.got \o SubSeq(rest, 1, k),
                           done |-> offset + k = Len(tree.nodes)]
    /\ UNCHANGED <<docVars, tree, copy, ambiguous, frames>>
-----------------------------------------------------------------------------
(* FrameTree *)

add_child(parent, f, origin) ==
    /\ parent \in DOMAIN frames.of /\ f \notin DOMAIN frames.of
    /\ LET linked == [frames.of EXCEPT ![parent].children = Append(@, f)]
       IN frames' = [frames EXCEPT !.of = Put(linked, f,
                        [parent |-> parent, origin |-> origin, children |-> << >>])]
    /\ UNCHANGED <<docVars, treeVars>>

\* A navigation drops all that is below the frame.
navigate(f, origin) ==
    /\ f \in DOMAIN frames.of
    /\ frames' = [frames EXCEPT !.of = [g \in DOMAIN @ \ collect_descendants(@, f) |->
            IF g = f THEN [@[f] EXCEPT !.origin = origin, !.children = << >>] ELSE @[g]]]
    /\ UNCHANGED <<docVars, treeVars>>
-----------------------------------------------------------------------------
\* Bound: a node comes with one text and gets others by SetText.
Mutation ==
    \/ \E n \in NodeIds, p \in NodeIds \cup {None}, k \in Keys \cup {None}, g \in Brought :
          InsertNode(n, p, CHOOSE t \in Texts : TRUE, k, g)
    \/ \E n \in NodeIds : RemoveNode(n)
    \/ \E n \in NodeIds, t \in Texts : SetText(n, t)
    \/ \E n \in NodeIds, k \in Keys \cup {None} : SetAttribute(n, k)
    \/ begin_navigation

DocumentNext ==
    \/ Mutation
    \/ \E l \in {"Complete", "Destroyed"} : advance_lifecycle(l)
    \/ \E n \in NodeIds : reference(n)
DiffNext == Mutation \/ compile
PagingNext ==
    \/ \E n \in NodeIds, p \in NodeIds \cup {None}, t \in Texts : InsertNode(n, p, t, None, << >>)
    \/ \E n \in NodeIds : RemoveNode(n)
    \/ compile
    \/ \E l \in Limits, b \in Budgets : page(l, b)
FrameNext == \/ \E p, f \in FrameIds, o \in Origins : add_child(p, f, o)
             \/ \E f \in FrameIds, o \in Origins : navigate(f, o)
-----------------------------------------------------------------------------
(* A reference that resolves means the node it was taken of, untouched: no   *)
(* mutation, re-insertion under the same id, navigation or change of the     *)
(* document's life in between can be missed.                                 *)
ReferencesAreExact ==
    \A ref \in refs : ref.generation = document.generation =>
        resolves(ref) /\ document.nodes[ref.node] = ref.as

Whole(root, nodes) ==
    /\ root = None => nodes = << >>
    /\ root # None => /\ root \in DOMAIN nodes /\ nodes[root].parent = None
                      /\ ToSet(Subtree(nodes, root)) = DOMAIN nodes
    /\ \A n \in DOMAIN nodes :
          /\ ToSet(nodes[n].children) = {m \in DOMAIN nodes : nodes[m].parent = n}
          /\ IsInjective(nodes[n].children)

\* The ways that remain: from every node up to the root, and back.
Rooted(root, nodes) ==
    /\ root = None => nodes = << >>
    /\ root # None => root \in DOMAIN nodes /\ nodes[root].parent = None
    /\ \A n \in DOMAIN nodes \ {root} : /\ nodes[n].parent \in DOMAIN nodes
                                        /\ n \in ToSet(nodes[nodes[n].parent].children)

(* As long as nodes come without children the document is one tree: every    *)
(* node hangs below the root, once, parents and children agree (the compiler *)
(* panics on a child that is not there); the same of the frames after        *)
(* navigations that discard whole subtrees.  And whatever children nodes     *)
(* bring, missing, of another parent or above them, a removal leaves nothing *)
(* behind: what stays has a parent that stays and lists it.                  *)
TreesAreWhole ==
    /\ ~grafted => Whole(document.root, document.nodes)
    /\ Rooted(document.root, document.nodes)
    /\ Whole(frames.root, frames.of)

(* A consumer that starts with nothing and only applies differences has the  *)
(* whole tree, as long as identities were unique in every tree compared: the *)
(* differences are found by identity, whose node may have another id by now. *)
DifferencesSuffice == ~ambiguous => copy = Range(tree.nodes)

(* A reader that reaches the end has read every node of one generation once, *)
(* in order, however small the pages were and whatever was compiled          *)
(* meanwhile; and it always gets on, even if one node exceeds its budget.    *)
PagesAddUp ==
    /\ reading.done => reading.got = reading.all
    /\ IsPrefix(reading.got, reading.all)
    /\ reading.all # << >> => reading.got # << >>

(* The document hangs together, and a reference into it is never out of date *)
(* without telling so (RawDocument::apply, reference and resolve).           *)
DocumentIsSound == TreesAreWhole /\ ReferencesAreExact

(* Whoever follows the page by differences or page by page ends up with all  *)
(* of it (diff_tree, PageState::page).                                       *)
ConsumersSeeTheTree == DifferencesSuffice /\ PagesAddUp
=============================================================================
