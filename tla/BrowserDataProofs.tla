-------------------------- MODULE BrowserDataProofs -------------------------
(***************************************************************************)
(* Proofs about what a browser keeps for its user: the tabs and windows of  *)
(* a workspace, the stores of a profile, its requests, and the profiles     *)
(* themselves.                                                              *)
(***************************************************************************)
EXTENDS BrowserData, FiniteSetTheorems, SequenceTheorems, WellFoundedInduction, TLAPS

(* A set of numbers that is not empty has a smallest one.                    *)
LEMMA LeastNumber ==
    ASSUME NEW T, T \subseteq Nat, T # {}
    PROVE  \E x \in T : \A y \in T : x <= y
  <1> DEFINE R == {ss \in Nat \X Nat : ss[1] < ss[2]}
  <1>1. IsWellFoundedOn(R, Nat)
    BY NatLessThanWellFounded DEF OpToRel
  <1> HIDE DEF R
  <1>2. PICK x \in T : \A y \in T : <<y, x>> \notin R
    BY <1>1, WFMin
  <1>3. \A y \in T : ~(y < x)
    BY <1>2 DEF R
  <1> QED
    BY <1>3

(* Induction up to n, over a set of numbers in the place of a predicate.     *)
LEMMA UpTo ==
    ASSUME NEW n \in Nat, NEW P, 0 \in P, \A i \in 1 .. n : i - 1 \in P => i \in P
    PROVE  \A i \in 0 .. n : i \in P
  <1> DEFINE T == (0 .. n) \ P
  <1> SUFFICES ASSUME T # {} PROVE FALSE
    OBVIOUS
  <1>1. T \subseteq Nat
    OBVIOUS
  <1>2. PICK m \in T : \A k \in T : m <= k
    <2> HIDE DEF T
    <2> QED
      BY <1>1, LeastNumber
  <1>3. m \in 0 .. n /\ m \notin P /\ m # 0
    BY <1>2
  <1>4. m \in 1 .. n /\ m - 1 \in 0 .. n /\ m - 1 \notin P /\ ~(m <= m - 1)
    BY <1>3
  <1>5. m - 1 \in T
    BY <1>4
  <1> HIDE DEF T
  <1> QED
    BY <1>2, <1>4, <1>5

(* The steps of a recursion over 0 .. n in S, and a function made by them.   *)
StepsIn(n, S, step) == step \in [(1 .. n) \X S -> S]
(* The function g makes each of its values from the one before.              *)
MadeBy(n, S, base, step, g) ==
    g \in [0 .. n -> S] /\ g[0] = base /\ \A i \in 1 .. n : g[i] = step[<<i, g[i - 1]>>]

(* A recursion over 0 .. n whose steps stay in a set has a function.         *)
LEMMA RecursionExists ==
    ASSUME NEW n \in Nat, NEW S, NEW base \in S, NEW step, StepsIn(n, S, step)
    PROVE  \E g : MadeBy(n, S, base, step, g)
  <1> DEFINE Steps(g, m) == g[0] = base /\ \A i \in 1 .. m : g[i] = step[<<i, g[i - 1]>>]
             P == {m \in 0 .. n : \E g \in [0 .. m -> S] : Steps(g, m)}
  <1>1. 0 \in P
    <2> DEFINE g == [i \in 0 .. 0 |-> base]
    <2>1. g \in [0 .. 0 -> S] /\ Steps(g, 0) /\ 0 \in 0 .. n
      OBVIOUS
    <2> HIDE DEF g, Steps
    <2> QED
      BY <2>1
  <1>2. ASSUME NEW m \in 1 .. n, m - 1 \in P PROVE m \in P
    <2>1. PICK h \in [0 .. m - 1 -> S] : Steps(h, m - 1)
      <3> HIDE DEF Steps
      <3> QED
        BY <1>2
    <2> DEFINE e == step[<<m, h[m - 1]>>]
               g == [i \in 0 .. m |-> IF i = m THEN e ELSE h[i]]
    <2>2. e \in S
      <3>1. h[m - 1] \in S
        OBVIOUS
      <3> QED
        BY <3>1 DEF StepsIn
    <2>3. \A i \in 0 .. m : (i # m => i \in 0 .. m - 1)
      OBVIOUS
    <2> HIDE DEF e
    <2>4. g \in [0 .. m -> S]
      BY <2>2, <2>3
    <2>5. g[m] = e /\ \A i \in 0 .. m - 1 : g[i] = h[i]
      OBVIOUS
    <2> HIDE DEF g
    <2>6. Steps(g, m)
      <3>1. 0 \in 0 .. m - 1 /\ m - 1 \in 0 .. m - 1
        OBVIOUS
      <3>2. \A i \in 1 .. m - 1 : i \in 0 .. m - 1 /\ i - 1 \in 0 .. m - 1
        OBVIOUS
      <3>3. g[m] = step[<<m, g[m - 1]>>]
        BY <2>5, <3>1 DEF e
      <3>4. \A i \in 1 .. m - 1 : g[i] = step[<<i, g[i - 1]>>]
        BY <2>1, <2>5, <3>2
      <3>5. \A i \in 1 .. m : i = m \/ i \in 1 .. m - 1
        OBVIOUS
      <3> QED
        BY <2>1, <2>5, <3>1, <3>3, <3>4, <3>5
    <2>7. m \in 0 .. n
      OBVIOUS
    <2> HIDE DEF Steps
    <2> QED
      BY <2>4, <2>6, <2>7
  <1>3. n \in P
    <2>1. n \in 0 .. n
      OBVIOUS
    <2> HIDE DEF P
    <2> QED
      BY <1>1, <1>2, <2>1, UpTo
  <1> HIDE DEF Steps
  <1>4. PICK g \in [0 .. n -> S] : Steps(g, n)
    BY <1>3
  <1> QED
    BY <1>4 DEF Steps, MadeBy

(* The smallest number of a set is in it.                                    *)
LEMMA LeastNatural ==
    ASSUME NEW T, T \subseteq Nat, T # {}
    PROVE  Min(T) \in T
  BY LeastNumber DEF Min
-----------------------------------------------------------------------------
(* Tabs (TabManager, Navigation) *)

(* The history of a tab has the page shown at its index.                     *)
NavInv(nav) ==
    /\ DOMAIN nav = {"current", "history", "index", "status", "generation"}
    /\ nav.current \in TabUrls /\ nav.history \in Seq(TabUrls) /\ nav.index \in Nat
    /\ nav.generation \in Nat /\ nav.index < Len(nav.history)
    /\ nav.history[nav.index + 1] = nav.current

(* A tab and its history.                                                    *)
TabInv(t) ==
    /\ DOMAIN t = {"profile", "navigation", "generation", "flags"}
    /\ NavInv(t.navigation) /\ t.generation \in Nat /\ t.generation <= t.navigation.generation

(* Two managers give a tab to the same profile.                              *)
Agree(ts, us) == \A t \in DOMAIN ts \cap DOMAIN us : ts[t].profile = us[t].profile

(* The tabs last written.                                                    *)
FileInv ==
    /\ DOMAIN tabFile.tabs \subseteq opened
    /\ \A t \in DOMAIN tabFile.tabs : TabInv(tabFile.tabs[t])
    /\ tabFile.repaired => InOrder(tabFile)
    /\ Agree(tabs, tabFile.tabs)

(* All tabs, the one in the foreground among them.                           *)
TabsInv ==
    /\ OneForegroundTab
    /\ DOMAIN tabs \subseteq opened /\ opened \subseteq TabIds
    /\ \A t \in DOMAIN tabs : TabInv(tabs[t])
    /\ FileInv

(* What a navigation may do with a tab's NavigationState.                    *)
NavStep(old, new) ==
    /\ NavInv(new) /\ new.generation >= old.generation
    /\ new.current # old.current => new.generation > old.generation

(* A traversal shows the entry it leads to.                                  *)
LEMMA Traversal ==
    ASSUME NEW nav, NavInv(nav), NEW i \in Nat, i < Len(nav.history)
    PROVE  /\ NavStep(nav, Traversed(nav, i)) /\ Traversed(nav, i).index = i
           /\ Traversed(nav, i).history = nav.history
           /\ Traversed(nav, i).generation = nav.generation + 1
           /\ Traversed(nav, i).current = nav.history[i + 1]
  <1> DEFINE new == Traversed(nav, i)
  <1>1. /\ new.index = i /\ new.history = nav.history /\ new.generation = nav.generation + 1
        /\ new.current = nav.history[i + 1]
        /\ DOMAIN new = {"current", "history", "index", "status", "generation"}
    BY DEF Traversed, NavInv
  <1>2. nav.history[i + 1] \in TabUrls
    BY DEF NavInv
  <1> HIDE DEF new
  <1>3. NavInv(new) /\ NavStep(nav, new)
    BY <1>1, <1>2 DEF NavInv, NavStep
  <1> QED
    BY <1>1, <1>3 DEF new

(* A new page is the last entry of the history, after the page it was asked  *)
(* for from; another fragment of the page takes the place of its entry.      *)
LEMMA Starting ==
    ASSUME NEW nav, NavInv(nav), NEW url \in TabUrls
    PROVE  /\ NavStep(nav, start(nav, url)) /\ start(nav, url).generation = nav.generation + 1
           /\ url.doc # nav.current.doc =>
                 /\ ~can_forward(start(nav, url))
                 /\ start(nav, url).index = nav.index + 1
                 /\ start(nav, url).history[nav.index + 1] = nav.current
  <1> DEFINE n == nav.index + 1
             h == nav.history
             new == start(nav, url)
  <1>1. /\ h \in Seq(TabUrls) /\ Len(h) \in Nat /\ nav.index \in Nat /\ n \in Nat /\ n \in 1 .. Len(h)
        /\ nav.generation \in Nat /\ h[n] = nav.current /\ DOMAIN h = 1 .. Len(h)
    BY DEF NavInv
  <1>2. CASE nav.current.doc = url.doc
    <2>1. /\ new.current = url /\ new.generation = nav.generation + 1 /\ new.index = nav.index
          /\ new.history = [h EXCEPT ![n] = url]
          /\ DOMAIN new = {"current", "history", "index", "status", "generation"}
      BY <1>1, <1>2 DEF start, Replaced, NavInv
    <2> HIDE DEF new
    <2>2. new.history \in Seq(TabUrls) /\ Len(new.history) = Len(h) /\ new.history[n] = url
      BY <1>1, <2>1
    <2>3. NavInv(new) /\ NavStep(nav, new)
      BY <1>1, <2>1, <2>2 DEF NavInv, NavStep
    <2> QED
      BY <1>2, <2>1, <2>3 DEF new
  <1>3. CASE nav.current.doc # url.doc
    <2> DEFINE s == SubSeq(h, 1, n)
    <2>1. /\ new.current = url /\ new.generation = nav.generation + 1 /\ new.index = n
          /\ new.history = Append(s, url)
          /\ DOMAIN new = {"current", "history", "index", "status", "generation"}
      BY <1>1, <1>3 DEF start, Pushed, NavInv
    <2>2. s \in Seq(TabUrls) /\ Len(s) = n /\ s[n] = h[n]
      BY <1>1
    <2> HIDE DEF s, new
    <2>3. /\ new.history \in Seq(TabUrls) /\ Len(new.history) = n + 1 /\ new.history[n + 1] = url
          /\ new.history[n] = nav.current
      BY <1>1, <2>1, <2>2
    <2>4. NavInv(new) /\ NavStep(nav, new) /\ ~can_forward(new)
      BY <1>1, <2>1, <2>3 DEF NavInv, NavStep, can_forward
    <2> QED
      BY <1>3, <2>1, <2>3, <2>4 DEF new
  <1> QED
    BY <1>2, <1>3

(* complete, fail, stop and reload leave the page and the history alone.     *)
LEMMA Settling ==
    ASSUME NEW nav, NavInv(nav), NEW new \in {complete(nav), fail(nav), stop(nav), reload(nav)}
    PROVE  NavStep(nav, new) /\ complete(nav).generation = nav.generation
  <1>1. ASSUME NEW st PROVE NavStep(nav, [nav EXCEPT !.status = st]) /\ [nav EXCEPT !.status = st].generation = nav.generation
    BY DEF NavInv, NavStep
  <1>2. NavStep(nav, nav) /\ NavStep(nav, reload(nav))
    BY DEF NavInv, NavStep, reload
  <1> QED
    BY <1>1, <1>2 DEF complete, fail, stop

(* What back, forward and a new page do to a history that is in order.       *)
LEMMA Undoing ==
    ASSUME NEW nav, NavInv(nav)
    PROVE  /\ can_back(nav) => NavStep(nav, back(nav)) /\ back(nav).generation = nav.generation + 1
           /\ can_forward(nav) => NavStep(nav, forward(nav)) /\ forward(nav).generation = nav.generation + 1
           /\ can_back(nav) => forward(back(nav)).current = nav.current
           /\ can_forward(nav) => back(forward(nav)).current = nav.current
           /\ \A url \in TabUrls : url.doc # nav.current.doc => back(start(nav, url)).current = nav.current
  <1>0. nav.index \in Nat /\ nav.index < Len(nav.history) /\ Len(nav.history) \in Nat
        /\ nav.history[nav.index + 1] = nav.current
    BY DEF NavInv
  <1>1. ASSUME can_back(nav)
        PROVE  /\ NavStep(nav, back(nav)) /\ back(nav).generation = nav.generation + 1
               /\ forward(back(nav)).current = nav.current
    <2> DEFINE b == Traversed(nav, nav.index - 1)
    <2>1. nav.index - 1 \in Nat /\ nav.index - 1 < Len(nav.history) /\ (nav.index - 1) + 1 = nav.index
      BY <1>0, <1>1 DEF can_back
    <2>2. /\ NavStep(nav, b) /\ b.generation = nav.generation + 1
          /\ b.index = nav.index - 1 /\ b.history = nav.history
      BY <2>1, Traversal
    <2>3. NavInv(b)
      BY <2>2 DEF NavStep
    <2> HIDE DEF b
    <2>4. Traversed(b, nav.index).current = nav.history[nav.index + 1]
      BY <1>0, <2>2, <2>3, Traversal
    <2> QED
      BY <1>0, <2>1, <2>2, <2>4 DEF back, forward, b
  <1>2. ASSUME can_forward(nav)
        PROVE  /\ NavStep(nav, forward(nav)) /\ forward(nav).generation = nav.generation + 1
               /\ back(forward(nav)).current = nav.current
    <2> DEFINE f == Traversed(nav, nav.index + 1)
    <2>1. nav.index + 1 \in Nat /\ nav.index + 1 < Len(nav.history) /\ (nav.index + 1) - 1 = nav.index
      BY <1>0, <1>2 DEF can_forward
    <2>2. /\ NavStep(nav, f) /\ f.generation = nav.generation + 1
          /\ f.index = nav.index + 1 /\ f.history = nav.history
      BY <2>1, Traversal
    <2>3. NavInv(f)
      BY <2>2 DEF NavStep
    <2> HIDE DEF f
    <2>4. Traversed(f, nav.index).current = nav.history[nav.index + 1]
      BY <1>0, <2>2, <2>3, Traversal
    <2> QED
      BY <1>0, <2>1, <2>2, <2>4 DEF back, forward, f
  <1>3. ASSUME NEW url \in TabUrls, url.doc # nav.current.doc PROVE back(start(nav, url)).current = nav.current
    <2> DEFINE s == start(nav, url)
    <2>1. /\ NavStep(nav, s) /\ s.index = nav.index + 1 /\ s.history[nav.index + 1] = nav.current
      BY <1>3, Starting
    <2>2. NavInv(s)
      BY <2>1 DEF NavStep
    <2> HIDE DEF s
    <2>3. nav.index < Len(s.history) /\ (nav.index + 1) - 1 = nav.index
      BY <1>0, <2>1, <2>2 DEF NavInv
    <2>4. Traversed(s, nav.index).current = s.history[nav.index + 1]
      BY <1>0, <2>2, <2>3, Traversal
    <2> QED
      BY <2>1, <2>3, <2>4 DEF back, s
  <1> QED
    BY <1>1, <1>2, <1>3

(* No page changes without a number, and no number is taken back.            *)
Forward ==
    \A t \in DOMAIN tabs \cap DOMAIN tabs' :
        LET old == tabs[t].navigation  new == tabs'[t].navigation
        IN /\ new.generation >= old.generation
           /\ new.current # old.current => new.generation > old.generation

(* The action of PageChangesAreNumbered.                                     *)
Numbered ==
    /\ \/ SamePages(tabs', tabFile.tabs)
       \/ \A t \in DOMAIN tabs \cap DOMAIN tabs' :
             LET old == tabs[t].navigation  new == tabs'[t].navigation
             IN /\ new.generation >= old.generation
                /\ new.current # old.current => new.generation > old.generation
    /\ \A t \in DOMAIN tabs' : tabs'[t].generation <= tabs'[t].navigation.generation

(* What the manager calls active, in words of its variables.                 *)
LEMMA ForegroundIs ==
    OneForegroundTab <=>
        (repaired => /\ active = NoTab <=> DOMAIN tabs = {}
                     /\ active # NoTab => active \in DOMAIN tabs
                     /\ \A t \in DOMAIN tabs : tabs[t].flags = Flags(t = active))
  <1>1. PICK m : m = Manager(tabs, active, repaired)
    OBVIOUS
  <1>2. m.tabs = tabs /\ m.active = active
    BY <1>1 DEF Manager
  <1> QED
    BY <1>1, <1>2 DEF OneForegroundTab, InOrder

(* The same after a step.                                                    *)
LEMMA ForegroundWillBe ==
    OneForegroundTab' <=>
        (repaired' => /\ active' = NoTab <=> DOMAIN tabs' = {}
                      /\ active' # NoTab => active' \in DOMAIN tabs'
                      /\ \A t \in DOMAIN tabs' : tabs'[t].flags = Flags(t = active'))
  <1>1. PICK m : m = Manager(tabs', active', repaired')
    OBVIOUS
  <1>2. m.tabs = tabs' /\ m.active = active'
    BY <1>1 DEF Manager
  <1> QED
    BY <1>1, <1>2 DEF OneForegroundTab, InOrder

(* The file stays while tabs come and go.                                    *)
LEMMA FileStays ==
    ASSUME FileInv, tabFile' = tabFile, opened \subseteq opened', Agree(tabs', tabFile.tabs)
    PROVE  FileInv'
  BY DEF FileInv, InOrder

(* One tab navigates.                                                        *)
LEMMA OneTabMoves ==
    ASSUME TabsInv, NEW id \in DOMAIN tabs, NEW nav, NavStep(tabs[id].navigation, nav),
           tabs' = [tabs EXCEPT ![id].navigation = nav]
           \/ /\ nav.generation > tabs[id].navigation.generation
              /\ tabs' = [tabs EXCEPT ![id].navigation = nav, ![id].generation = @ + 1],
           UNCHANGED <<active, repaired, opened, tabFile>>
    PROVE  TabsInv' /\ Forward
  <1>1. TabInv(tabs[id]) /\ NavInv(nav)
    BY DEF TabsInv, NavStep
  <1>2. /\ DOMAIN tabs' = DOMAIN tabs /\ \A t \in DOMAIN tabs \ {id} : tabs'[t] = tabs[t]
        /\ tabs'[id].navigation = nav /\ tabs'[id].flags = tabs[id].flags
        /\ tabs'[id].profile = tabs[id].profile
        /\ DOMAIN tabs'[id] = {"profile", "navigation", "generation", "flags"}
        /\ tabs'[id].generation \in Nat /\ tabs'[id].generation <= nav.generation
    <2>1. DOMAIN tabs' = DOMAIN tabs /\ \A t \in DOMAIN tabs \ {id} : tabs'[t] = tabs[t]
      OBVIOUS
    <2>2. /\ tabs'[id].navigation = nav /\ tabs'[id].flags = tabs[id].flags
          /\ tabs'[id].profile = tabs[id].profile
          /\ DOMAIN tabs'[id] = {"profile", "navigation", "generation", "flags"}
          /\ \/ tabs'[id].generation = tabs[id].generation
             \/ /\ nav.generation > tabs[id].navigation.generation
                /\ tabs'[id].generation = tabs[id].generation + 1
      BY <1>1 DEF TabInv
    <2> QED
      BY <1>1, <2>1, <2>2 DEF TabInv, NavInv, NavStep
  <1>3. TabInv(tabs'[id])
    BY <1>1, <1>2, Zenon DEF TabInv
  <1>4. TabsInv'
    <2>1. \A t \in DOMAIN tabs : tabs'[t].profile = tabs[t].profile /\ tabs'[t].flags = tabs[t].flags
      BY <1>2
    <2>2. Agree(tabs', tabFile.tabs)
      BY <1>2, <2>1 DEF TabsInv, FileInv, Agree
    <2>3. FileInv'
      BY <2>2, FileStays DEF TabsInv
    <2>4. OneForegroundTab'
      BY <1>2, <2>1, ForegroundIs, ForegroundWillBe DEF TabsInv
    <2> QED
      BY <1>2, <1>3, <2>3, <2>4 DEF TabsInv
  <1>5. Forward
    <2> SUFFICES ASSUME NEW t \in DOMAIN tabs
                 PROVE  LET old == tabs[t].navigation  new == tabs'[t].navigation
                        IN /\ new.generation >= old.generation
                           /\ new.current # old.current => new.generation > old.generation
      BY <1>2 DEF Forward
    <2>1. CASE t = id
      BY <1>2, <2>1 DEF NavStep
    <2>2. CASE t # id
      <3>1. tabs'[t] = tabs[t] /\ TabInv(tabs[t])
        BY <1>2, <2>2 DEF TabsInv
      <3> QED
        BY <3>1 DEF TabInv, NavInv
    <2> QED
      BY <2>1, <2>2
  <1> QED
    BY <1>4, <1>5

(* Tabs that stay as they are.                                               *)
LEMMA PagesStay ==
    ASSUME \A t \in DOMAIN tabs : TabInv(tabs[t]),
           \A t \in DOMAIN tabs \cap DOMAIN tabs' : tabs'[t].navigation = tabs[t].navigation
    PROVE  Forward
  BY DEF Forward, TabInv, NavInv

(* These tabs are taken over, all but their flags.                           *)
TakenOver(D, ts) ==
    /\ D \subseteq DOMAIN ts /\ \A t \in DOMAIN ts : TabInv(ts[t])
    /\ DOMAIN tabs' = D /\ \A t \in D : tabs'[t] = [ts[t] EXCEPT !.flags = Flags(t = active')]

(* The tabs taken over have one in the foreground.                           *)
LEMMA ForegroundMoves ==
    ASSUME TabsInv, NEW ts, DOMAIN ts \subseteq opened, Agree(ts, tabFile.tabs), NEW D, TakenOver(D, ts),
           opened' = opened, tabFile' = tabFile,
           active' = NoTab <=> D = {}, active' # NoTab => active' \in D
    PROVE  /\ TabsInv'
           /\ \A t \in D : /\ tabs'[t].navigation = ts[t].navigation
                           /\ tabs'[t].generation = ts[t].generation
  <1>1. ASSUME NEW t \in D
        PROVE  /\ tabs'[t].navigation = ts[t].navigation /\ tabs'[t].generation = ts[t].generation
               /\ tabs'[t].profile = ts[t].profile
               /\ DOMAIN tabs'[t] = DOMAIN ts[t] /\ tabs'[t].flags = Flags(t = active') /\ TabInv(ts[t])
    BY DEF TabInv, TakenOver
  <1>2. ASSUME NEW t \in D PROVE TabInv(tabs'[t])
    BY <1>1 DEF TabInv
  <1>3. Agree(tabs', tabFile.tabs) /\ DOMAIN tabs' = D /\ D \subseteq DOMAIN ts
    BY <1>1 DEF Agree, TakenOver
  <1>4. FileInv'
    BY <1>3, FileStays DEF TabsInv
  <1>5. OneForegroundTab'
    BY <1>1, <1>3, ForegroundWillBe
  <1>6. TabsInv'
    BY <1>2, <1>3, <1>4, <1>5 DEF TabsInv
  <1> QED
    BY <1>1, <1>6

(* What a file may hold are the tabs of the manager or those last written,   *)
(* but for their flags.                                                      *)
Readable(m) ==
    /\ DOMAIN m.tabs \subseteq opened /\ \A t \in DOMAIN m.tabs : TabInv(m.tabs[t])
    /\ Agree(m.tabs, tabFile.tabs)
    /\ m.repaired => InOrder(m)
    /\ \E w \in {tabs, tabFile.tabs} :
          SamePages(m.tabs, w) /\ \A t \in DOMAIN w : m.tabs[t].profile = w[t].profile

(* Out of date or not, a file can be read.                                   *)
LEMMA FilesAreReadable == TabsInv => \A m \in Files : Readable(m)
  <1> SUFFICES ASSUME TabsInv, NEW m \in Files PROVE Readable(m)
    OBVIOUS
  <1>1. ASSUME NEW w, w = Manager(tabs, active, repaired) \/ w = tabFile
        PROVE  /\ w.tabs \in {tabs, tabFile.tabs} /\ (w.repaired => InOrder(w))
               /\ DOMAIN w.tabs \subseteq opened /\ \A t \in DOMAIN w.tabs : TabInv(w.tabs[t])
               /\ Agree(w.tabs, tabFile.tabs)
    <2>1. CASE w = tabFile
      BY <2>1 DEF TabsInv, FileInv, Agree
    <2>2. CASE w = Manager(tabs, active, repaired)
      <3>1. w.tabs = tabs /\ w.repaired = repaired
        BY <2>2 DEF Manager
      <3>2. w.repaired => InOrder(w)
        BY <2>2, <3>1 DEF TabsInv, OneForegroundTab
      <3> QED
        BY <3>1, <3>2 DEF TabsInv, FileInv
    <2> QED
      BY <1>1, <2>1, <2>2
  <1>2. ASSUME NEW w, w = Manager(tabs, active, repaired) \/ w = tabFile PROVE Readable(w)
    BY <1>1, <1>2 DEF Readable, SamePages
  <1>3. ASSUME NEW w, w = Manager(tabs, active, repaired) \/ w = tabFile, NEW old \in Stale,
               m = Aged(w, old)
        PROVE  Readable(m)
    <2>1. PICK ts : ts = w.tabs
      OBVIOUS
    <2>2. m = Manager([t \in DOMAIN ts |-> [ts[t] EXCEPT !.flags = Flags(t \in old.claims)]], old.active, FALSE)
      BY <1>3, <2>1 DEF Aged
    <2>3. /\ m.tabs = [t \in DOMAIN ts |-> [ts[t] EXCEPT !.flags = Flags(t \in old.claims)]]
          /\ m.repaired = FALSE
      BY <2>2 DEF Manager
    <2>4. /\ ts \in {tabs, tabFile.tabs} /\ DOMAIN ts \subseteq opened /\ \A t \in DOMAIN ts : TabInv(ts[t])
          /\ Agree(ts, tabFile.tabs)
      BY <1>1, <1>3, <2>1
    <2>5. PICK us : us = m.tabs
      OBVIOUS
    <2>6. ASSUME NEW t \in DOMAIN ts
          PROVE  /\ us[t].navigation = ts[t].navigation /\ us[t].generation = ts[t].generation
                 /\ us[t].profile = ts[t].profile
                 /\ DOMAIN us[t] = {"profile", "navigation", "generation", "flags"}
      BY <2>3, <2>4, <2>5 DEF TabInv
    <2>7. DOMAIN us = DOMAIN ts
      BY <2>3, <2>5
    <2>8. \A t \in DOMAIN us : TabInv(us[t])
      BY <2>4, <2>6, <2>7 DEF TabInv
    <2>9. Agree(us, tabFile.tabs) /\ SamePages(us, ts)
      BY <2>4, <2>6, <2>7 DEF Agree, SamePages
    <2> QED
      BY <2>3, <2>4, <2>5, <2>6, <2>7, <2>8, <2>9 DEF Readable
  <1>4. \/ m \in {Manager(tabs, active, repaired), tabFile}
        \/ \E w \in {Manager(tabs, active, repaired), tabFile}, old \in Stale : m = Aged(w, old)
    BY DEF Files
  <1> QED
    BY <1>2, <1>3, <1>4

(* Every step of the tab manager.                                            *)
LEMMA TabsStep == TabsInv /\ TabsNext => TabsInv' /\ Numbered
  <1> SUFFICES ASSUME TabsInv, TabsNext PROVE TabsInv' /\ Numbered
    OBVIOUS
  <1>0. TabIds \subseteq Nat /\ NoTab \notin TabIds /\ DOMAIN tabs \subseteq TabIds /\ StartUrls \subseteq TabUrls
    BY TabAssumption DEF TabAssumption, TabsInv
  <1>1. ASSUME NEW id \in TabIds, NEW p, NEW url \in StartUrls, open_tab(id, p, url) PROVE TabsInv' /\ Forward
    <2> DEFINE new == [profile |-> p, navigation |-> NewNavigation(url), generation |-> 0,
                       flags |-> Flags(active = NoTab)]
    <2>1. /\ id \notin DOMAIN tabs /\ DOMAIN tabs' = DOMAIN tabs \cup {id} /\ tabs'[id] = new
          /\ \A t \in DOMAIN tabs : tabs'[t] = tabs[t]
          /\ opened' = opened \cup {id} /\ id \notin opened
          /\ active' = IF active = NoTab THEN id ELSE active
          /\ UNCHANGED <<repaired, tabFile>>
      BY <1>1 DEF open_tab, TabsInv
    <2>2. NavInv(NewNavigation(url))
      BY <1>0 DEF NavInv, NewNavigation
    <2>3. TabInv(new) /\ new.flags = Flags(active = NoTab)
      BY <2>2 DEF TabInv, NewNavigation
    <2> HIDE DEF new
    <2>4. OneForegroundTab'
      <3> SUFFICES ASSUME repaired
                   PROVE  /\ active' = NoTab <=> DOMAIN tabs' = {}
                          /\ active' # NoTab => active' \in DOMAIN tabs'
                          /\ \A t \in DOMAIN tabs' : tabs'[t].flags = Flags(t = active')
        BY <2>1, ForegroundWillBe
      <3>1. /\ active = NoTab <=> DOMAIN tabs = {}
            /\ active # NoTab => active \in DOMAIN tabs
            /\ \A t \in DOMAIN tabs : tabs[t].flags = Flags(t = active)
        BY ForegroundIs DEF TabsInv
      <3> QED
        BY <1>0, <2>1, <2>3, <3>1
    <2>5. FileInv'
      <3>1. Agree(tabs', tabFile.tabs)
        BY <2>1 DEF TabsInv, FileInv, Agree
      <3> QED
        BY <2>1, <3>1, FileStays DEF TabsInv
    <2>6. TabsInv'
      BY <1>1, <2>1, <2>3, <2>4, <2>5 DEF TabsInv, open_tab
    <2>7. Forward
      BY <2>1, PagesStay DEF TabsInv
    <2> QED
      BY <2>6, <2>7
  <1>2. ASSUME NEW id \in TabIds, NEW nav, Navigated(id, nav), id \in DOMAIN tabs, NavStep(tabs[id].navigation, nav),
               nav.generation = tabs[id].navigation.generation + 1
        PROVE  TabsInv' /\ Forward
    <2> DEFINE old == tabs[id].navigation
               new == complete(nav)
    <2>1. NavInv(old) /\ NavInv(nav)
      BY <1>2 DEF TabsInv, TabInv, NavStep
    <2>2. NavStep(nav, new) /\ new.generation = nav.generation
      BY <2>1, Settling
    <2>3. /\ tabs' = [tabs EXCEPT ![id].navigation = new, ![id].generation = @ + 1]
          /\ UNCHANGED <<active, repaired, opened, tabFile>>
      BY <1>2 DEF Navigated
    <2> HIDE DEF new
    <2>4. NavStep(old, new) /\ new.generation > old.generation
      BY <1>2, <2>1, <2>2, SMTT(60) DEF NavStep, NavInv
    <2> QED
      BY <1>2, <2>3, <2>4, OneTabMoves
  <1>3. ASSUME NEW id \in TabIds, (\E url \in TabUrls : navigate(id, url)) \/ navigate_back(id) \/ navigate_forward(id)
        PROVE  TabsInv' /\ Forward
    <2>1. id \in DOMAIN tabs /\ NavInv(tabs[id].navigation)
      BY <1>3 DEF navigate, navigate_back, navigate_forward, TabsInv, TabInv
    <2> QED
      BY <1>2, <1>3, <2>1, Starting, Undoing DEF navigate, navigate_back, navigate_forward
  <1>4. ASSUME NEW id \in TabIds, get_mut(id) PROVE TabsInv' /\ Forward
    <2> DEFINE nav == tabs[id].navigation
    <2>1. id \in DOMAIN tabs /\ NavInv(nav)
      BY <1>4 DEF get_mut, TabsInv, TabInv
    <2>2. PICK new \in {complete(nav), fail(nav), stop(nav), reload(nav)}
                        \cup {start(nav, url) : url \in TabUrls}
                        \cup {back(n) : n \in {n \in {nav} : can_back(n)}}
                        \cup {forward(n) : n \in {n \in {nav} : can_forward(n)}} :
               tabs' = [tabs EXCEPT ![id].navigation = new] /\ UNCHANGED <<active, repaired, opened, tabFile>>
      BY <1>4 DEF get_mut
    <2>3. NavStep(nav, new)
      BY <2>1, <2>2, Settling, Starting, Undoing
    <2> QED
      BY <2>1, <2>2, <2>3, OneTabMoves
  <1>5. /\ DOMAIN tabs \subseteq opened /\ (\A t \in DOMAIN tabs : TabInv(tabs[t]))
        /\ Agree(tabs, tabFile.tabs)
    BY DEF TabsInv, FileInv
  <1>6. ASSUME NEW S, S \subseteq TabIds
        PROVE  (FirstKey(S) = NoTab <=> S = {}) /\ (S # {} => FirstKey(S) \in S)
    <2>1. CASE S = {}
      BY <2>1 DEF FirstKey
    <2>2. CASE S # {}
      <3>1. S \subseteq Nat
        BY <1>0, <1>6
      <3>2. FirstKey(S) = Min(S) /\ Min(S) \in S
        BY <2>2, <3>1, LeastNatural DEF FirstKey
      <3> QED
        BY <1>0, <1>6, <2>2, <3>2
    <2> QED
      BY <2>1, <2>2
  <1>7. ASSUME NEW D \in SUBSET DOMAIN tabs, DOMAIN tabs' = D, opened' = opened, tabFile' = tabFile,
               \A t \in D : tabs'[t] = [tabs[t] EXCEPT !.flags = Flags(t = active')],
               active' = NoTab <=> D = {}, active' # NoTab => active' \in D
        PROVE  TabsInv' /\ Forward
    <2>1. TakenOver(D, tabs)
      BY <1>5, <1>7 DEF TakenOver
    <2>2. TabsInv' /\ \A t \in D : tabs'[t].navigation = tabs[t].navigation
      BY <1>5, <1>7, <2>1, ForegroundMoves
    <2> QED
      BY <1>5, <1>7, <2>2, PagesStay
  <1>8. ASSUME NEW id \in TabIds, activate(id) PROVE TabsInv' /\ Forward
    BY <1>0, <1>7, <1>8 DEF activate, Activated
  <1>9. ASSUME NEW id \in TabIds, close(id) PROVE TabsInv' /\ Forward
    <2> DEFINE D == DOMAIN tabs \ {id}
    <2>1. D \subseteq TabIds /\ opened' = opened /\ tabFile' = tabFile
      BY <1>0, <1>9 DEF close
    <2>2. CASE active = id
      <3>1. active' = FirstKey(D) /\ DOMAIN tabs' = D /\ \A t \in D : tabs'[t] = [tabs[t] EXCEPT !.flags = Flags(t = active')]
        BY <1>9, <2>2 DEF close, Without, Activated
      <3> QED
        BY <1>6, <1>7, <2>1, <3>1
    <2>3. CASE active # id
      <3>1. /\ active' = active /\ repaired' = repaired /\ DOMAIN tabs' = D
            /\ \A t \in D : tabs'[t] = tabs[t]
            /\ id \in DOMAIN tabs
        BY <1>9, <2>3 DEF close, Without
      <3>2. OneForegroundTab'
        <4> SUFFICES ASSUME repaired
                     PROVE  /\ active' = NoTab <=> DOMAIN tabs' = {}
                            /\ active' # NoTab => active' \in DOMAIN tabs'
                            /\ \A t \in DOMAIN tabs' : tabs'[t].flags = Flags(t = active')
          BY <3>1, ForegroundWillBe
        <4>1. /\ active = NoTab <=> DOMAIN tabs = {}
              /\ active # NoTab => active \in DOMAIN tabs
              /\ \A t \in DOMAIN tabs : tabs[t].flags = Flags(t = active)
          BY ForegroundIs DEF TabsInv
        <4> QED
          BY <2>3, <3>1, <4>1
      <3>3. FileInv'
        <4>1. Agree(tabs', tabFile.tabs)
          BY <1>5, <3>1 DEF Agree
        <4> QED
          BY <2>1, <4>1, FileStays DEF TabsInv
      <3>4. TabsInv'
        BY <1>5, <2>1, <3>1, <3>2, <3>3 DEF TabsInv
      <3>5. Forward
        BY <1>5, <3>1, PagesStay
      <3> QED
        BY <3>4, <3>5
    <2> QED
      BY <2>2, <2>3
  <1>10. ASSUME save_tabs PROVE TabsInv' /\ Forward
    <2>1. /\ tabFile' = Manager(tabs, active, repaired) /\ UNCHANGED <<tabs, active, repaired, opened>>
      BY <1>10 DEF save_tabs
    <2>2. PICK m : m = tabFile'
      OBVIOUS
    <2>3. m.tabs = tabs /\ m.repaired = repaired /\ m = Manager(tabs, active, repaired)
      BY <2>1, <2>2 DEF Manager
    <2>4. m.repaired => InOrder(m)
      BY <2>3 DEF TabsInv, OneForegroundTab
    <2>5. Agree(tabs, tabs)
      BY DEF Agree
    <2>6. FileInv'
      BY <1>5, <2>1, <2>2, <2>3, <2>4, <2>5 DEF FileInv
    <2>7. OneForegroundTab'
      BY <2>1 DEF TabsInv, OneForegroundTab
    <2>8. TabsInv'
      BY <2>1, <2>6, <2>7 DEF TabsInv
    <2> QED
      BY <1>5, <2>1, <2>8, PagesStay
  <1>11. ASSUME NEW m \in Files, restore_tabs(m) PROVE TabsInv' /\ (SamePages(tabs', tabFile.tabs) \/ Forward)
    <2>1. PICK ts : ts = m.tabs
      OBVIOUS
    <2>2. Readable(m)
      BY FilesAreReadable
    <2>3. /\ DOMAIN ts \subseteq opened /\ (\A t \in DOMAIN ts : TabInv(ts[t])) /\ Agree(ts, tabFile.tabs)
          /\ SamePages(ts, tabs) \/ SamePages(ts, tabFile.tabs)
      BY <2>1, <2>2 DEF Readable
    <2>4. /\ active' = Normalized(ts, m.active) /\ tabs' = Activated(ts, active') /\ opened' = opened
          /\ tabFile' = tabFile
      BY <1>11, <2>1 DEF restore_tabs, Loaded
    <2>5. /\ DOMAIN tabs' = DOMAIN ts
          /\ active' = IF m.active \in DOMAIN ts THEN m.active ELSE FirstKey(DOMAIN ts)
          /\ \A t \in DOMAIN ts : tabs'[t] = [ts[t] EXCEPT !.flags = Flags(t = active')]
      BY <2>4 DEF Normalized, Activated
    <2>6. DOMAIN ts \subseteq TabIds
      BY <2>3 DEF TabsInv
    <2>7. (active' = NoTab <=> DOMAIN ts = {}) /\ (active' # NoTab => active' \in DOMAIN ts)
      BY <1>0, <1>6, <2>5, <2>6
    <2>8. /\ TabsInv'
          /\ \A t \in DOMAIN ts : /\ tabs'[t].navigation = ts[t].navigation
                                  /\ tabs'[t].generation = ts[t].generation
      <3>1. TakenOver(DOMAIN ts, ts)
        BY <2>3, <2>5 DEF TakenOver
      <3> QED
        BY <2>3, <2>4, <2>7, <3>1, ForegroundMoves
    <2>9. CASE SamePages(ts, tabs)
      <3>1. \A t \in DOMAIN tabs : t \in DOMAIN ts /\ tabs'[t].navigation = tabs[t].navigation
        BY <2>8, <2>9 DEF SamePages
      <3> QED
        BY <1>5, <2>8, <3>1, PagesStay
    <2>10. CASE SamePages(ts, tabFile.tabs)
      BY <2>5, <2>8, <2>10 DEF SamePages
    <2> QED
      BY <2>3, <2>9, <2>10
  <1>12. TabsInv' /\ (SamePages(tabs', tabFile.tabs) \/ Forward)
    BY <1>1, <1>3, <1>4, <1>8, <1>9, <1>10, <1>11 DEF TabsNext
  <1> QED
    BY <1>12 DEF Numbered, Forward, TabsInv, TabInv

(* A tab, where these tabs have it, is of the profile.                       *)
Whose(ts, t, p) == t \in DOMAIN ts => ts[t].profile = p

(* No step gives a tab to another profile, nor does a file.                  *)
ProfilesStay ==
    /\ opened \subseteq opened'
    /\ \A t \in opened : \A p : Whose(tabs, t, p) /\ Whose(tabFile.tabs, t, p)
                            => Whose(tabs', t, p) /\ Whose(tabFile'.tabs, t, p)

(* No operation of the tabs changes a tab's profile.                         *)
LEMMA TabsKeepProfiles == TabsInv /\ TabsNext => ProfilesStay
  <1> SUFFICES ASSUME TabsInv, TabsNext PROVE ProfilesStay
    OBVIOUS
  <1>0. ASSUME opened \subseteq opened', tabFile' = tabFile, DOMAIN tabs' \cap opened \subseteq DOMAIN tabs,
               \A t \in DOMAIN tabs' \cap opened : tabs'[t].profile = tabs[t].profile
        PROVE  ProfilesStay
    BY <1>0 DEF ProfilesStay, Whose
  <1>1. ASSUME NEW id, NEW p, NEW url, open_tab(id, p, url) PROVE ProfilesStay
    BY <1>0, <1>1 DEF open_tab, TabsInv
  <1>2. ASSUME NEW id, NEW nav, Navigated(id, nav) PROVE ProfilesStay
    BY <1>0, <1>2 DEF Navigated, TabsInv, TabInv
  <1>3. ASSUME NEW id, get_mut(id) PROVE ProfilesStay
    BY <1>0, <1>3 DEF get_mut, TabsInv, TabInv
  <1>4. ASSUME NEW ts, NEW a, tabs' = Activated(ts, a) \/ tabs' = ts, opened' = opened, tabFile' = tabFile,
               DOMAIN ts \subseteq DOMAIN tabs,
               \A t \in DOMAIN ts : ts[t].profile = tabs[t].profile
                                    /\ DOMAIN ts[t] = {"profile", "navigation", "generation", "flags"}
        PROVE  ProfilesStay
    BY <1>0, <1>4 DEF Activated
  <1>5. ASSUME NEW id, activate(id) PROVE ProfilesStay
    BY <1>4, <1>5 DEF activate, TabsInv, TabInv
  <1>6. ASSUME NEW id, close(id) PROVE ProfilesStay
    <2> DEFINE rest == Without(tabs, id)
    <2>1. /\ DOMAIN rest = DOMAIN tabs \ {id} /\ \A t \in DOMAIN rest : rest[t] = tabs[t] /\ TabInv(tabs[t])
      BY DEF Without, TabsInv
    <2>2. opened' = opened /\ tabFile' = tabFile /\ \E a : tabs' = Activated(rest, a) \/ tabs' = rest
      BY <1>6 DEF close
    <2> HIDE DEF rest
    <2> QED
      BY <1>4, <2>1, <2>2 DEF TabInv
  <1>7. ASSUME save_tabs PROVE ProfilesStay
    BY <1>7 DEF save_tabs, Manager, ProfilesStay, Whose
  <1>8. ASSUME NEW m \in Files, restore_tabs(m) PROVE ProfilesStay
    <2>1. PICK ts : ts = m.tabs
      OBVIOUS
    <2>2. PICK a : tabs' = Activated(ts, a) /\ opened' = opened /\ tabFile' = tabFile
      BY <1>8, <2>1 DEF restore_tabs, Loaded
    <2>3. PICK w \in {tabs, tabFile.tabs} : SamePages(ts, w) /\ \A t \in DOMAIN w : ts[t].profile = w[t].profile
      BY <2>1, FilesAreReadable DEF Readable
    <2>4. \A t \in DOMAIN ts : DOMAIN ts[t] = {"profile", "navigation", "generation", "flags"}
      BY <2>1, FilesAreReadable DEF Readable, TabInv
    <2>5. DOMAIN tabs' = DOMAIN w /\ \A t \in DOMAIN w : tabs'[t].profile = w[t].profile
      BY <2>2, <2>3, <2>4 DEF Activated, SamePages
    <2> QED
      BY <2>2, <2>3, <2>5 DEF ProfilesStay, Whose
  <1> QED
    BY <1>1, <1>2, <1>3, <1>5, <1>6, <1>7, <1>8 DEF TabsNext, navigate, navigate_back, navigate_forward
-----------------------------------------------------------------------------
(* Windows (Workspace) *)

(* The places a tab may have in a window's list.                             *)
Slots == 1 .. Cardinality(TabIds)

(* A window lists tabs that were opened, and those that are open or were     *)
(* last written are of the workspace's profile.                              *)
Lists(x) ==
    /\ DOMAIN x = {"tabs", "focused"} /\ x.focused \in BOOLEAN /\ x.tabs \in Seq(TabIds)
    /\ \A i \in DOMAIN x.tabs :
          /\ x.tabs[i] \in opened
          /\ i \in Slots => /\ Whose(tabs, x.tabs[i], profile)
                            /\ Whose(tabFile.tabs, x.tabs[i], profile)

(* A window lists a tab once, and two windows do not share one.              *)
Distinct(x) == \A i, j \in Slots \cap DOMAIN x.tabs : x.tabs[i] = x.tabs[j] => i = j
Apart(x, y) == \A i \in Slots \cap DOMAIN x.tabs, j \in Slots \cap DOMAIN y.tabs : x.tabs[i] # y.tabs[j]

(* Windows list known tabs, each once.                                       *)
WindowsInv ==
    /\ IsFiniteSet(created) /\ DOMAIN windows \subseteq created /\ created \subseteq WindowIds
    /\ \A w \in DOMAIN windows : Lists(windows[w]) /\ Distinct(windows[w])
    /\ \A v, w \in DOMAIN windows : v # w => Apart(windows[v], windows[w])

(* Tabs and windows together.                                                *)
WorkspaceInv == TabsInv /\ WindowsInv /\ OneFocusedWindow

(* Where a tab is listed.                                                    *)
LEMMA PlacesAre ==
    ASSUME NEW c, c = checkpoint
    PROVE  /\ \A p : p \in Places(c) <=> /\ p = <<p[1], p[2]>> /\ p[1] \in DOMAIN windows
                                         /\ p[2] \in Slots /\ p[2] \in DOMAIN windows[p[1]].tabs
           /\ \A p : TabAt(c, p) = windows[p[1]].tabs[p[2]]
           /\ c.tabs.tabs = tabs /\ c.windows = windows /\ c.profile = profile
  BY DEF Places, TabAt, checkpoint, Manager, Slots

(* What the inductive invariant says in the module's words.                  *)
LEMMA WorkspaceInvHolds == WorkspaceInv => WorkspaceHolds
  <1> SUFFICES ASSUME WorkspaceInv PROVE WorkspaceHolds
    OBVIOUS
  <1>1. FocusIsSingle
    BY DEF WorkspaceInv, TabsInv, FocusIsSingle
  <1> DEFINE c == checkpoint
  <1>2. /\ \A p : p \in Places(c) <=> /\ p = <<p[1], p[2]>> /\ p[1] \in DOMAIN windows
                                      /\ p[2] \in Slots /\ p[2] \in DOMAIN windows[p[1]].tabs
        /\ \A p : TabAt(c, p) = windows[p[1]].tabs[p[2]]
        /\ c.tabs.tabs = tabs /\ c.windows = windows /\ c.profile = profile
    BY PlacesAre
  <1> HIDE DEF c
  <1>3. ASSUME NEW p \in Places(c), NEW q \in Places(c)
        PROVE  /\ TabAt(c, p) = TabAt(c, q) => p = q
               /\ TabAt(c, p) \in opened /\ (TabAt(c, p) \in DOMAIN tabs => tabs[TabAt(c, p)].profile = profile)
    <2>1. /\ p = <<p[1], p[2]>> /\ p[1] \in DOMAIN windows /\ p[2] \in Slots \cap DOMAIN windows[p[1]].tabs
          /\ q = <<q[1], q[2]>> /\ q[1] \in DOMAIN windows /\ q[2] \in Slots \cap DOMAIN windows[q[1]].tabs
          /\ TabAt(c, p) = windows[p[1]].tabs[p[2]] /\ TabAt(c, q) = windows[q[1]].tabs[q[2]]
      BY <1>2
    <2> QED
      BY <2>1 DEF WorkspaceInv, WindowsInv, Lists, Distinct, Apart, Whose
  <1>4. ShownOnceInItsProfile
    BY <1>3 DEF ShownOnceInItsProfile, c
  <1>5. ASSUME \A t \in DOMAIN tabs : tabs[t].profile = profile, \A t \in opened \ DOMAIN tabs : Shown(t) = {}
        PROVE  Valid(c, profile)
    <2>1. ASSUME NEW p \in Places(c) PROVE TabAt(c, p) \in DOMAIN c.tabs.tabs
      BY <1>2, <1>3, <1>5, <2>1 DEF Shown
    <2>2. FocusValid(c)
      <3>1. ASSUME DOMAIN windows # {} PROVE Cardinality(FocusedIn(c)) = 1
        <4>1. PICK w \in DOMAIN windows : \A x \in DOMAIN windows : windows[x].focused <=> x = w
          BY <3>1 DEF WorkspaceInv, OneFocusedWindow
        <4>2. FocusedIn(c) = {w}
          BY <1>2, <4>1 DEF FocusedIn
        <4> QED
          BY <4>2, FS_Singleton
      <3> QED
        BY <1>2, <3>1 DEF FocusValid
    <2> QED
      BY <1>2, <1>3, <1>5, <2>1, <2>2 DEF Valid
  <1>6. CheckpointRoundTrips
    BY <1>5 DEF CheckpointRoundTrips, c
  <1> QED
    BY <1>1, <1>4, <1>6 DEF WorkspaceHolds

(* Nothing happens to the tabs.                                              *)
LEMMA TabsRest == TabsInv /\ UNCHANGED tabVars => TabsInv'
  BY DEF TabsInv, tabVars, OneForegroundTab, Manager, InOrder, FileInv, Agree

(* Windows whose lists stay, while one gets the focus.                       *)
LEMMA FocusMoves ==
    ASSUME WorkspaceInv, UNCHANGED <<tabVars, profile, created>>, NEW D \in SUBSET DOMAIN windows, DOMAIN windows' = D,
           \A w \in D : /\ DOMAIN windows'[w] = {"tabs", "focused"} /\ windows'[w].focused \in BOOLEAN
                        /\ windows'[w].tabs = windows[w].tabs,
           OneFocusedWindow'
    PROVE  WorkspaceInv'
  <1>1. TabsInv'
    BY TabsRest DEF WorkspaceInv
  <1>2. ASSUME NEW w \in D PROVE Lists(windows[w])' /\ Distinct(windows'[w])
    BY DEF WorkspaceInv, WindowsInv, tabVars, Lists, Distinct, Whose
  <1>3. ASSUME NEW v \in D, NEW w \in D, v # w PROVE Apart(windows'[v], windows'[w])
    BY <1>3 DEF WorkspaceInv, WindowsInv, Apart
  <1>4. WindowsInv'
    BY <1>2, <1>3 DEF WorkspaceInv, WindowsInv
  <1> QED
    BY <1>1, <1>4 DEF WorkspaceInv

(* Every operation of the workspace and of its tabs keeps the invariant.     *)
LEMMA WorkspaceStep == WorkspaceInv /\ WorkspaceNext => WorkspaceInv'
  <1> SUFFICES ASSUME WorkspaceInv, WorkspaceNext PROVE WorkspaceInv'
    OBVIOUS
  <1>1. CASE TabsNext /\ UNCHANGED <<profile, windows, created, names>>
    <2>1. TabsInv' /\ ProfilesStay
      BY <1>1, TabsStep, TabsKeepProfiles DEF WorkspaceInv
    <2>2. ASSUME NEW w \in DOMAIN windows PROVE Lists(windows[w])'
      BY <1>1, <2>1 DEF WorkspaceInv, WindowsInv, ProfilesStay, Lists
    <2>3. WindowsInv'
      BY <1>1, <2>2 DEF WorkspaceInv, WindowsInv, Distinct, Apart
    <2>4. OneFocusedWindow'
      BY <1>1 DEF WorkspaceInv, OneFocusedWindow
    <2> QED
      BY <2>1, <2>3, <2>4 DEF WorkspaceInv
  <1>2. ASSUME UNCHANGED tabVars PROVE TabsInv'
    BY <1>2, TabsRest DEF WorkspaceInv
  <1>3. ASSUME NEW w \in WindowIds, create_window(w) PROVE WorkspaceInv'
    <2>1. /\ DOMAIN windows' = DOMAIN windows \cup {w} /\ w \notin DOMAIN windows
          /\ windows'[w] = [tabs |-> << >>, focused |-> DOMAIN windows = {}]
          /\ \A x \in DOMAIN windows : windows'[x] = windows[x]
          /\ created' = created \cup {w} /\ UNCHANGED <<tabVars, profile>>
      BY <1>3 DEF create_window, WorkspaceInv, WindowsInv
    <2>2. /\ DOMAIN windows'[w] = {"tabs", "focused"} /\ windows'[w].focused = (DOMAIN windows = {})
          /\ windows'[w].tabs = << >>
      BY <2>1
    <2>3. IsFiniteSet(created')
      BY <2>1, FS_AddElement DEF WorkspaceInv, WindowsInv
    <2>4. DOMAIN windows'[w].tabs = {} /\ windows'[w].tabs \in Seq(TabIds)
      BY <2>2
    <2>5. WindowsInv'
      <3>1. Lists(windows[w])' /\ Distinct(windows'[w])
        BY <2>2, <2>4 DEF Lists, Distinct
      <3>2. \A x \in DOMAIN windows : Lists(windows[x])' /\ Distinct(windows'[x])
        BY <2>1 DEF WorkspaceInv, WindowsInv, Lists, Whose, tabVars
      <3>3. \A v, x \in DOMAIN windows' : v # x => Apart(windows'[v], windows'[x])
        BY <2>1, <2>4 DEF WorkspaceInv, WindowsInv, Apart
      <3> QED
        BY <1>3, <2>1, <2>3, <3>1, <3>2, <3>3 DEF WorkspaceInv, WindowsInv
    <2>6. OneFocusedWindow'
      <3>1. CASE DOMAIN windows = {}
        BY <2>1, <2>2, <3>1 DEF OneFocusedWindow
      <3>2. CASE DOMAIN windows # {}
        <4>1. PICK x \in DOMAIN windows : \A y \in DOMAIN windows : windows[y].focused <=> y = x
          BY <3>2 DEF WorkspaceInv, OneFocusedWindow
        <4>2. \A y \in DOMAIN windows' : windows'[y].focused <=> y = x
          BY <2>1, <2>2, <3>2, <4>1
        <4> QED
          BY <2>1, <4>2 DEF OneFocusedWindow
      <3> QED
        BY <3>1, <3>2
    <2> QED
      BY <1>2, <2>1, <2>5, <2>6 DEF WorkspaceInv
  <1>4. ASSUME NEW w \in WindowIds, NEW t \in TabIds, attach_tab(w, t) PROVE WorkspaceInv'
    <2> DEFINE s == windows[w].tabs
               n == Len(s)
    <2>1. /\ w \in DOMAIN windows /\ t \in DOMAIN tabs /\ tabs[t].profile = profile /\ Shown(t) = {}
          /\ UNCHANGED <<tabVars, profile, created>>
          /\ s \in Seq(TabIds) /\ n \in Nat /\ DOMAIN s = 1 .. n /\ t \in opened
      BY <1>4 DEF attach_tab, Attachable, Free, WorkspaceInv, WindowsInv, TabsInv, Lists
    <2>2. /\ DOMAIN windows' = DOMAIN windows /\ \A x \in DOMAIN windows \ {w} : windows'[x] = windows[x]
          /\ DOMAIN windows'[w] = {"tabs", "focused"} /\ windows'[w].focused = windows[w].focused
          /\ windows'[w].tabs = Append(s, t)
      BY <1>4, <2>1 DEF attach_tab, WorkspaceInv, WindowsInv, Lists
    <2>3. /\ windows'[w].tabs \in Seq(TabIds) /\ DOMAIN windows'[w].tabs = DOMAIN s \cup {n + 1}
          /\ windows'[w].tabs[n + 1] = t /\ \A i \in DOMAIN s : windows'[w].tabs[i] = s[i]
      BY <2>1, <2>2
    <2>4. \A x \in DOMAIN windows : \A i \in DOMAIN windows[x].tabs : windows[x].tabs[i] # t
      BY <2>1 DEF Shown
    <2> HIDE DEF n
    <2>5. \A x \in DOMAIN windows : Lists(windows[x]) /\ Distinct(windows[x])
      BY DEF WorkspaceInv, WindowsInv
    <2>6. Lists(windows[w])'
      <3>1. ASSUME NEW i \in DOMAIN windows'[w].tabs
            PROVE  /\ windows'[w].tabs[i] \in opened
                   /\ i \in Slots => /\ Whose(tabs, windows'[w].tabs[i], profile)
                                     /\ Whose(tabFile.tabs, windows'[w].tabs[i], profile)
        <4>1. Whose(tabs, t, profile) /\ Whose(tabFile.tabs, t, profile)
          <5>1. Agree(tabs, tabFile.tabs)
            BY DEF WorkspaceInv, TabsInv, FileInv
          <5> QED
            BY <2>1, <5>1 DEF Agree, Whose
        <4>2. CASE i \in DOMAIN s
          BY <2>1, <2>3, <2>5, <4>2 DEF Lists
        <4>3. CASE i = n + 1
          BY <2>1, <2>3, <4>1, <4>3
        <4> QED
          BY <2>3, <4>2, <4>3
      <3> QED
        BY <2>1, <2>2, <2>3, <2>5, <3>1 DEF Lists, Whose, tabVars
    <2>7. Distinct(windows'[w])
      BY <2>1, <2>3, <2>4, <2>5 DEF Distinct
    <2>8. WindowsInv'
      <3>1. \A x \in DOMAIN windows \ {w} : Lists(windows[x])' /\ Distinct(windows'[x])
        BY <2>1, <2>2, <2>5 DEF Lists, Whose, tabVars
      <3>2. ASSUME NEW x \in DOMAIN windows \ {w} PROVE Apart(windows'[x], windows'[w]) /\ Apart(windows'[w], windows'[x])
        <4>1. Apart(windows[x], windows[w]) /\ Apart(windows[w], windows[x]) /\ windows'[x] = windows[x]
          BY <2>1, <2>2 DEF WorkspaceInv, WindowsInv
        <4>2. \A i \in DOMAIN windows'[x].tabs : windows'[x].tabs[i] # t
          BY <2>4, <4>1
        <4> QED
          BY <2>3, <4>1, <4>2 DEF Apart
      <3>3. ASSUME NEW v \in DOMAIN windows \ {w}, NEW x \in DOMAIN windows \ {w}, v # x
            PROVE  Apart(windows'[v], windows'[x])
        BY <2>2, <3>3 DEF WorkspaceInv, WindowsInv
      <3>4. /\ DOMAIN windows' = DOMAIN windows /\ created' = created
            /\ IsFiniteSet(created) /\ DOMAIN windows \subseteq created /\ created \subseteq WindowIds
        BY <2>1, <2>2 DEF WorkspaceInv, WindowsInv
      <3>5. \A x \in DOMAIN windows : Lists(windows[x])' /\ Distinct(windows'[x])
        BY <2>6, <2>7, <3>1
      <3>6. \A v, x \in DOMAIN windows : v # x => Apart(windows'[v], windows'[x])
        BY <3>2, <3>3
      <3> QED
        BY <3>4, <3>5, <3>6 DEF WindowsInv
    <2>9. OneFocusedWindow'
      <3>1. \A x \in DOMAIN windows : windows'[x].focused = windows[x].focused
        BY <2>2
      <3> QED
        BY <2>2, <3>1 DEF WorkspaceInv, OneFocusedWindow
    <2> QED
      BY <1>2, <2>1, <2>8, <2>9 DEF WorkspaceInv
  <1>5. ASSUME NEW ws, NEW w \in DOMAIN ws, windows' = Focused(ws, w), UNCHANGED <<tabVars, profile, created>>,
               DOMAIN ws \subseteq DOMAIN windows, \A x \in DOMAIN ws : ws[x] = windows[x]
        PROVE  WorkspaceInv'
    <2>1. /\ DOMAIN windows' = DOMAIN ws
          /\ \A x \in DOMAIN ws : /\ DOMAIN windows'[x] = {"tabs", "focused"} /\ windows'[x].focused = (x = w)
                                  /\ windows'[x].tabs = windows[x].tabs
      BY <1>5 DEF Focused, WorkspaceInv, WindowsInv, Lists
    <2>2. OneFocusedWindow'
      BY <1>5, <2>1 DEF OneFocusedWindow
    <2>3. \A x \in DOMAIN ws : windows'[x].focused \in BOOLEAN
      BY <2>1
    <2> QED
      BY <1>5, <2>1, <2>2, <2>3, FocusMoves
  <1>6. ASSUME NEW w \in WindowIds, focus_window(w) PROVE WorkspaceInv'
    BY <1>5, <1>6 DEF focus_window
  <1>7. ASSUME NEW w \in WindowIds, close_window(w) PROVE WorkspaceInv'
    <2> DEFINE rest == [x \in DOMAIN windows \ {w} |-> windows[x]]
    <2>1. /\ w \in DOMAIN windows /\ UNCHANGED <<tabVars, profile, created>>
          /\ windows' = IF windows[w].focused /\ DOMAIN rest # {} THEN Focused(rest, Min(DOMAIN rest)) ELSE rest
      BY <1>7 DEF close_window
    <2>2. DOMAIN rest = DOMAIN windows \ {w} /\ \A x \in DOMAIN rest : rest[x] = windows[x]
      OBVIOUS
    <2> HIDE DEF rest
    <2>3. CASE windows[w].focused /\ DOMAIN rest # {}
      <3>1. DOMAIN rest \subseteq Nat
        BY <2>2, WorkspaceAssumption DEF WorkspaceAssumption, WorkspaceInv, WindowsInv
      <3>2. Min(DOMAIN rest) \in DOMAIN rest
        BY <2>3, <3>1, LeastNatural
      <3> QED
        BY <1>5, <2>1, <2>2, <2>3, <3>2
    <2>4. CASE ~(windows[w].focused /\ DOMAIN rest # {})
      <3>1. windows' = rest
        BY <2>1, <2>4
      <3>2. OneFocusedWindow'
        <4>1. CASE DOMAIN rest = {}
          BY <3>1, <4>1 DEF OneFocusedWindow
        <4>2. CASE DOMAIN rest # {}
          <5>1. PICK x \in DOMAIN windows : \A y \in DOMAIN windows : windows[y].focused <=> y = x
            BY <2>1 DEF WorkspaceInv, OneFocusedWindow
          <5>2. x \in DOMAIN rest
            BY <2>1, <2>2, <2>4, <4>2, <5>1
          <5> QED
            BY <2>2, <3>1, <5>1, <5>2 DEF OneFocusedWindow
        <4> QED
          BY <4>1, <4>2
      <3>3. /\ DOMAIN rest \in SUBSET DOMAIN windows /\ DOMAIN windows' = DOMAIN rest
            /\ \A x \in DOMAIN rest : /\ DOMAIN windows'[x] = {"tabs", "focused"} /\ windows'[x].focused \in BOOLEAN
                                      /\ windows'[x].tabs = windows[x].tabs
        BY <2>2, <3>1 DEF WorkspaceInv, WindowsInv, Lists
      <3> QED
        BY <2>1, <3>2, <3>3, FocusMoves
    <2> QED
      BY <2>3, <2>4
  <1>9. ASSUME NEW m \in Files, NEW ws \in Layouts, from_checkpoint(Document(m, ws)) PROVE WorkspaceInv'
    <2> DEFINE c == Document(m, ws)
               ts == m.tabs
    <2>1. c.windows = ws /\ c.tabs = m /\ c.profile = profile
      BY DEF Document, checkpoint
    <2>2. PICK W \in SUBSET created : ws \in [W -> [tabs : {<< >>} \cup {<<t>> : t \in opened}, focused : BOOLEAN]]
      BY DEF Layouts
    <2>3. /\ DOMAIN ts \subseteq opened /\ (\A t \in DOMAIN ts : TabInv(ts[t])) /\ Agree(ts, tabFile.tabs)
          /\ m.repaired => InOrder(m)
      BY FilesAreReadable DEF WorkspaceInv, Readable
    <2>4. /\ windows' = ws /\ UNCHANGED <<opened, tabFile, profile, created>> /\ DOMAIN ws = W
          /\ Valid(c, profile) /\ tabs' = ts /\ active' = m.active /\ repaired' = m.repaired
      BY <1>9, <2>1, <2>2 DEF from_checkpoint
    <2> HIDE DEF c
    <2>5. ASSUME NEW w \in W
          PROVE  /\ DOMAIN ws[w] = {"tabs", "focused"} /\ ws[w].focused \in BOOLEAN
                 /\ ws[w].tabs \in Seq(TabIds) /\ \A i \in DOMAIN ws[w].tabs : ws[w].tabs[i] \in opened
      <3>1. ws[w] \in [tabs : {<< >>} \cup {<<t>> : t \in opened}, focused : BOOLEAN]
        BY <2>2
      <3>2. ws[w].tabs = << >> \/ \E t \in opened : ws[w].tabs = <<t>>
        BY <3>1
      <3>3. opened \subseteq TabIds
        BY DEF WorkspaceInv, TabsInv
      <3>4. ws[w].tabs \in Seq(TabIds) /\ \A i \in DOMAIN ws[w].tabs : ws[w].tabs[i] \in opened
        <4>1. CASE ws[w].tabs = << >>
          BY <4>1
        <4>2. ASSUME NEW t \in opened, ws[w].tabs = <<t>>
              PROVE  ws[w].tabs \in Seq(TabIds) /\ \A i \in DOMAIN ws[w].tabs : ws[w].tabs[i] \in opened
          BY <3>3, <4>2
        <4> QED
          BY <3>2, <4>1, <4>2
      <3> QED
        BY <3>1, <3>4
    <2>6. ASSUME NEW v \in W, NEW w \in W, NEW i \in Slots \cap DOMAIN ws[v].tabs,
                 NEW j \in Slots \cap DOMAIN ws[w].tabs, ws[v].tabs[i] = ws[w].tabs[j]
          PROVE  v = w /\ i = j
      <3>1. <<v, i>> \in Places(c) /\ <<w, j>> \in Places(c)
        BY <2>1, <2>4 DEF Places, Slots
      <3>2. TabAt(c, <<v, i>>) = TabAt(c, <<w, j>>)
        BY <2>1, <2>6 DEF TabAt
      <3>3. <<v, i>> = <<w, j>>
        BY <2>4, <3>1, <3>2 DEF Valid
      <3> QED
        BY <3>3
    <2>7. /\ \A t \in DOMAIN ts : ts[t].profile = profile
          /\ \A w \in W : \A i \in Slots \cap DOMAIN ws[w].tabs : ws[w].tabs[i] \in DOMAIN ts
      <3>1. ASSUME NEW w \in W, NEW i \in Slots \cap DOMAIN ws[w].tabs PROVE ws[w].tabs[i] \in DOMAIN ts
        <4>1. <<w, i>> \in Places(c) /\ TabAt(c, <<w, i>>) = ws[w].tabs[i]
          BY <2>1, <2>4 DEF Places, Slots, TabAt
        <4> QED
          BY <2>1, <2>4, <4>1 DEF Valid
      <3> QED
        BY <2>1, <2>4, <3>1 DEF Valid
    <2>8. IsFiniteSet(created) /\ created \subseteq WindowIds
      BY DEF WorkspaceInv, WindowsInv
    <2>9. WindowsInv'
      <3>1. \A w \in W : Lists(windows[w])'
        <4>1. ASSUME NEW w \in W, NEW i \in Slots \cap DOMAIN ws[w].tabs
              PROVE  Whose(ts, ws[w].tabs[i], profile) /\ Whose(tabFile.tabs, ws[w].tabs[i], profile)
          BY <2>3, <2>7 DEF Agree, Whose
        <4> QED
          BY <2>4, <2>5, <4>1 DEF Lists, Whose
      <3>2. \A w \in W : Distinct(ws[w])
        BY <2>6 DEF Distinct
      <3>3. \A v, w \in W : v # w => Apart(ws[v], ws[w])
        BY <2>6 DEF Apart
      <3> QED
        BY <2>4, <2>8, <3>1, <3>2, <3>3 DEF WindowsInv
    <2>10. OneFocusedWindow'
      <3> SUFFICES ASSUME W # {} PROVE \E w \in W : \A x \in W : ws[x].focused <=> x = w
        BY <2>4 DEF OneFocusedWindow
      <3>1. Cardinality(FocusedIn(c)) = 1
        BY <2>1, <2>4 DEF Valid, FocusValid
      <3>2. FocusedIn(c) \subseteq created /\ FocusedIn(c) = {w \in W : ws[w].focused}
        BY <2>1, <2>4 DEF FocusedIn
      <3>3. PICK w : FocusedIn(c) = {w}
        BY <2>8, <3>1, <3>2, FS_Subset, FS_Singleton
      <3> QED
        BY <3>2, <3>3
    <2>11. TabsInv'
      <3>1. OneForegroundTab'
        <4>1. ASSUME m.repaired
              PROVE  /\ m.active = NoTab <=> DOMAIN m.tabs = {}
                     /\ m.active # NoTab => m.active \in DOMAIN m.tabs
                     /\ \A t \in DOMAIN m.tabs : m.tabs[t].flags = Flags(t = m.active)
          BY <2>3, <4>1 DEF InOrder
        <4> QED
          BY <2>4, <4>1, ForegroundWillBe
      <3>2. FileInv'
        BY <2>3, <2>4, FileStays DEF WorkspaceInv, TabsInv
      <3> QED
        BY <2>3, <2>4, <3>1, <3>2 DEF WorkspaceInv, TabsInv
    <2> QED
      BY <2>9, <2>10, <2>11 DEF WorkspaceInv
  <1> QED
    BY <1>1, <1>3, <1>4, <1>6, <1>7, <1>9 DEF WorkspaceNext

(* The locks and permissions are apart from all that.                        *)
LEMMA LocksStep == WorkspaceInv /\ UNCHANGED <<tabVars, profile, windows, created>> => WorkspaceInv'
  BY TabsRest DEF WorkspaceInv, WindowsInv, OneFocusedWindow, tabVars, Lists, Whose

(* An empty workspace.                                                       *)
LEMMA WorkspaceInitially == Init => WorkspaceInv
  <1> SUFFICES ASSUME Init PROVE WorkspaceInv
    OBVIOUS
  <1>1. /\ tabs = << >> /\ windows = << >> /\ active = NoTab /\ opened = {} /\ created = {}
        /\ tabFile = Manager(<< >>, NoTab, TRUE)
    BY DEF Init, WorkspaceInit, TabsInit
  <1>2. DOMAIN tabs = {} /\ DOMAIN windows = {} /\ tabFile.tabs = tabs /\ tabFile.active = active
    BY <1>1 DEF Manager
  <1>3. OneForegroundTab
    BY <1>1, <1>2, ForegroundIs
  <1>4. InOrder(tabFile)
    BY <1>1, <1>2 DEF InOrder
  <1>5. TabsInv
    BY <1>1, <1>2, <1>3, <1>4 DEF TabsInv, FileInv, Agree
  <1> QED
    BY <1>1, <1>2, <1>5, FS_EmptySet DEF WorkspaceInv, WindowsInv, OneFocusedWindow

(* Every step of the composed specification keeps the invariant.             *)
LEMMA WorkspaceSteps == WorkspaceInv /\ [Next]_vars => WorkspaceInv'
  <1> SUFFICES ASSUME WorkspaceInv, [Next]_vars PROVE WorkspaceInv'
    OBVIOUS
  <1>1. CASE UNCHANGED workspaceVars
    BY <1>1, LocksStep DEF workspaceVars
  <1>2. CASE LocksNext
    BY <1>2, LocksStep DEF LocksNext, acquire, release
  <1> QED
    BY <1>1, <1>2, WorkspaceStep DEF Next, vars

(* One window has the focus, one tab the foreground once stale flags were    *)
(* repaired, no tab is listed twice or shown in another profile's workspace, *)
(* and a workspace accepts its own checkpoint (crates/workspace and          *)
(* crates/tabs): for any tabs, windows and profiles, and whatever older tabs *)
(* and stale flags the files it was restored from held.                      *)
THEOREM WorkspaceAlwaysHolds == Spec => []WorkspaceHolds
  BY WorkspaceInitially, WorkspaceSteps, WorkspaceInvHolds, PTL DEF Spec

(* Back undoes forward and forward undoes back, and the page a new one was   *)
(* asked for from is the one back leads to (NavigationState::start, back and *)
(* forward), whatever the history.                                           *)
THEOREM HistoryUndoes == Spec => []BackAndForwardUndo
  <1>1. WorkspaceInv => BackAndForwardUndo
    <2> SUFFICES ASSUME WorkspaceInv, NEW t \in DOMAIN tabs, NEW nav, nav = tabs[t].navigation
                 PROVE  /\ nav.history[nav.index + 1] = nav.current
                        /\ can_back(nav) => forward(back(nav)).current = nav.current
                        /\ can_forward(nav) => back(forward(nav)).current = nav.current
                        /\ \A url \in TabUrls : url.doc # nav.current.doc =>
                              /\ ~can_forward(start(nav, url))
                              /\ back(start(nav, url)).current = nav.current
      BY DEF BackAndForwardUndo
    <2>1. NavInv(nav)
      BY DEF WorkspaceInv, TabsInv, TabInv
    <2> QED
      BY <2>1, Undoing, Starting DEF NavInv
  <1> QED
    BY <1>1, WorkspaceInitially, WorkspaceSteps, PTL DEF Spec

(* From one restore to the next no step changes the page a tab shows without *)
(* a new, higher generation or takes one back; a restore brings the pages    *)
(* and the numbers of a file as they were, or none that differ; and the      *)
(* tab's own count never runs ahead (Tab.generation and                      *)
(* NavigationState.generation).                                              *)
THEOREM PagesAreNumbered == Spec => PageChangesAreNumbered
  <1>1. WorkspaceInv /\ [Next]_vars => [Numbered]_tabVars
    <2> SUFFICES ASSUME WorkspaceInv, [Next]_vars PROVE Numbered \/ UNCHANGED tabVars
      OBVIOUS
    <2>1. CASE UNCHANGED workspaceVars
      BY <2>1 DEF workspaceVars
    <2>2. CASE LocksNext
      BY <2>2 DEF LocksNext, acquire, release
    <2>3. CASE WorkspaceNext
      <3>1. CASE TabsNext
        BY <3>1, TabsStep DEF WorkspaceInv
      <3>2. ASSUME NEW m \in Files, NEW ws \in Layouts, from_checkpoint(Document(m, ws)) PROVE Numbered
        <4>1. PICK ts : ts = m.tabs
          OBVIOUS
        <4>2. tabs' = ts
          BY <3>2, <4>1 DEF from_checkpoint, Document, checkpoint
        <4>3. Readable(m)
          BY FilesAreReadable DEF WorkspaceInv
        <4>4. (\A t \in DOMAIN ts : TabInv(ts[t])) /\ (SamePages(ts, tabs) \/ SamePages(ts, tabFile.tabs))
          BY <4>1, <4>3 DEF Readable
        <4>5. SamePages(tabs', tabFile.tabs) \/ Forward
          <5>1. CASE SamePages(ts, tabs)
            <6>1. \A t \in DOMAIN tabs : tabs'[t].navigation = tabs[t].navigation
              BY <4>2, <5>1 DEF SamePages
            <6> QED
              BY <6>1, PagesStay DEF WorkspaceInv, TabsInv
          <5> QED
            BY <4>2, <4>4, <5>1
        <4> QED
          BY <4>2, <4>4, <4>5 DEF Numbered, Forward, TabInv
      <3> QED
        BY <2>3, <3>1, <3>2 DEF WorkspaceNext, create_window, focus_window, close_window, attach_tab
    <2> QED
      BY <2>1, <2>2, <2>3 DEF Next, vars
  <1>2. PageChangesAreNumbered <=> [][Numbered]_tabVars
    BY DEF PageChangesAreNumbered, Numbered
  <1> QED
    BY <1>1, <1>2, WorkspaceInitially, WorkspaceSteps, PTL DEF Spec

-----------------------------------------------------------------------------
(* Stores (ProfileStores) *)

(* The namespaces' generations and the databases' versions are numbers.      *)
StoresInv ==
    /\ \A d \in DOMAIN databases : /\ DOMAIN databases[d] = {"version", "stores"}
                                   /\ databases[d].version \in Nat
    /\ \A t \in tx : t.name \in DOMAIN databases

(* The greatest of three numbers.                                            *)
LEMMA MaxOfThree ==
    ASSUME NEW a \in Nat, NEW b \in Nat, NEW c \in Nat
    PROVE  Max({a, b, c}) \in Nat /\ Max({a, b, c}) >= b
  <1>1. \E x \in {a, b, c} : \A y \in {a, b, c} : x >= y
    <2>1. CASE a >= b /\ a >= c
      BY <2>1
    <2>2. CASE b >= a /\ b >= c
      BY <2>2
    <2>3. CASE c >= a /\ c >= b
      BY <2>3
    <2> QED
      BY <2>1, <2>2, <2>3
  <1>2. Max({a, b, c}) \in {a, b, c} /\ \A y \in {a, b, c} : Max({a, b, c}) >= y
    BY <1>1 DEF Max
  <1> QED
    BY <1>2

(* What a write, a clone and a restore do to every namespace.                *)
LEMMA StorageSteps == StorageNext => GenerationTells
  <1> SUFFICES ASSUME StorageNext PROVE GenerationTells
    OBVIOUS
  <1>1. ASSUME NEW space, NEW content, Write(space, content) PROVE GenerationTells
    <2>1. \A s : s # space => Contents(s)' = Contents(s)
      BY <1>1 DEF Write, Contents, At, Put
    <2>2. generation(space)' = generation(space) + 1
      BY <1>1 DEF Write, generation, At, Put
    <2> QED
      BY <2>1, <2>2 DEF GenerationTells
  <1>2. ASSUME NEW s \in SessionSpaces, NEW d \in SessionSpaces, clone_session_namespace(s, d) PROVE GenerationTells
    <2>1. \A x : x # d => Contents(x)' = Contents(x)
      BY <1>2 DEF clone_session_namespace, Contents, At, Put
    <2>2. Contents(d)' = Contents(s) /\ generation(d)' = generation(s)
      BY <1>2 DEF clone_session_namespace, generation, Contents, At, Put
    <2> QED
      BY <2>1, <2>2 DEF GenerationTells
  <1>3. CASE to_json
    BY <1>3 DEF to_json, GenerationTells, Contents
  <1>4. CASE from_json
    <2>1. PICK wire \in file :
             /\ values' = [s \in {s \in DOMAIN wire.entries : wire.entries[s].values # << >>} |-> wire.entries[s].values]
             /\ generations' = [s \in DOMAIN wire.entries |-> wire.entries[s].generation]
      BY <1>4 DEF from_json
    <2>2. \A s : /\ generation(s)' = At(wire.entries, s, [generation |-> 0]).generation
                 /\ Contents(s)' = At(wire.entries, s, [values |-> << >>]).values
      BY <2>1 DEF generation, Contents, At
    <2> QED
      BY <2>1, <2>2 DEF GenerationTells
  <1> QED
    BY <1>1, <1>2, <1>3, <1>4 DEF StorageNext, set, set_with_quota, remove

(* What open and commit do to a database.                                    *)
LEMMA DatabaseSteps == StoresInv /\ DatabaseNext => StoresInv' /\ TransactionsAreAtomic
  <1> SUFFICES ASSUME StoresInv, DatabaseNext PROVE StoresInv' /\ TransactionsAreAtomic
    OBVIOUS
  <1>1. ASSUME NEW name, NEW version \in 0 .. MaxVersion, NEW stores, open(name, version, stores)
        PROVE  StoresInv' /\ TransactionsAreAtomic
    <2> DEFINE db == At(databases, name, [version |-> 0, stores |-> << >>])
               made == [s \in DOMAIN db.stores \cup stores |-> At(db.stores, s, << >>)]
               new == IF version < db.version THEN db
                      ELSE [version |-> Max({version, db.version, 1}), stores |-> made]
    <2>1. /\ DOMAIN databases' = DOMAIN databases \cup {name} /\ databases'[name] = new
          /\ \A d \in DOMAIN databases \ {name} : databases'[d] = databases[d]
          /\ tx' = {} /\ tx = {}
      BY <1>1 DEF open, Put
    <2>2. DOMAIN db = {"version", "stores"} /\ db.version \in Nat /\ (name \in DOMAIN databases => db = databases[name])
      BY DEF At, StoresInv
    <2>3. version \in Nat
      BY StoresAssumption DEF StoresAssumption
    <2>4. /\ DOMAIN db.stores \subseteq DOMAIN made /\ \A s \in DOMAIN db.stores : made[s] = db.stores[s]
      BY DEF At
    <2> HIDE DEF db, made
    <2>5. Max({version, db.version, 1}) \in Nat /\ Max({version, db.version, 1}) >= db.version
      BY <2>2, <2>3, MaxOfThree
    <2>6. /\ DOMAIN new = {"version", "stores"} /\ new.version \in Nat /\ new.version >= db.version
          /\ DOMAIN db.stores \subseteq DOMAIN new.stores
          /\ \A s \in DOMAIN db.stores : new.stores[s] = db.stores[s]
      BY <2>2, <2>4, <2>5
    <2> HIDE DEF new
    <2>7. StoresInv'
      BY <2>1, <2>6 DEF StoresInv
    <2>8. TransactionsAreAtomic
      <3> SUFFICES ASSUME NEW d \in DOMAIN databases
                   PROVE  /\ databases'[d].version >= databases[d].version
                          /\ DOMAIN databases[d].stores \subseteq DOMAIN databases'[d].stores
                          /\ \A s \in DOMAIN databases[d].stores : databases'[d].stores[s] = databases[d].stores[s]
        BY DEF TransactionsAreAtomic
      <3>1. CASE d = name
        BY <2>1, <2>2, <2>6, <3>1
      <3>2. CASE d # name
        BY <2>1, <3>2 DEF StoresInv
      <3> QED
        BY <3>1, <3>2
    <2> QED
      BY <2>7, <2>8
  <1>2. ASSUME UNCHANGED databases, \A t \in tx' : t.name \in DOMAIN databases PROVE StoresInv' /\ TransactionsAreAtomic
    BY <1>2 DEF StoresInv, TransactionsAreAtomic
  <1>3. ASSUME NEW name, transaction(name) PROVE StoresInv' /\ TransactionsAreAtomic
    <2>1. UNCHANGED databases /\ \A t \in tx' : t.name \in DOMAIN databases
      BY <1>3 DEF transaction
    <2> QED
      BY <1>2, <2>1
  <1>4. ASSUME NEW s, NEW key, NEW v, put(s, key, v) PROVE StoresInv' /\ TransactionsAreAtomic
    <2>1. PICK t \in tx : tx' = {[t EXCEPT !.writes = Put(@, <<s, key>>, v)]} /\ UNCHANGED databases
      BY <1>4 DEF put
    <2>2. [t EXCEPT !.writes = Put(@, <<s, key>>, v)].name = t.name
      OBVIOUS
    <2> QED
      BY <1>2, <2>1, <2>2 DEF StoresInv
  <1>5. CASE commit
    <2>1. PICK t \in tx :
             /\ databases' = databases
                \/ databases' = [databases EXCEPT ![t.name].stores = Proposed(databases[t.name].stores, t.writes)]
             /\ tx' = {}
      BY <1>5 DEF commit
    <2>2. CASE databases' = databases
      BY <1>2, <2>1, <2>2
    <2>3. CASE databases' = [databases EXCEPT ![t.name].stores = Proposed(databases[t.name].stores, t.writes)]
      <3> DEFINE n == t.name
                 old == databases[n].stores
                 P == Proposed(old, t.writes)
      <3>1. n \in DOMAIN databases /\ DOMAIN databases[n] = {"version", "stores"} /\ databases[n].version \in Nat
        BY DEF StoresInv
      <3>2. /\ DOMAIN databases' = DOMAIN databases /\ \A d \in DOMAIN databases \ {n} : databases'[d] = databases[d]
            /\ DOMAIN databases'[n] = {"version", "stores"} /\ databases'[n].version = databases[n].version
            /\ databases'[n].stores = P
        BY <2>3, <3>1
      <3>3. DOMAIN P = DOMAIN old
        BY DEF Proposed
      <3> HIDE DEF P
      <3>4. StoresInv'
        BY <2>1, <3>1, <3>2 DEF StoresInv
      <3>5. TransactionsAreAtomic
        <4> SUFFICES ASSUME NEW d \in DOMAIN databases
                     PROVE  /\ databases'[d].version >= databases[d].version
                            /\ DOMAIN databases[d].stores \subseteq DOMAIN databases'[d].stores
                            /\ \A s \in DOMAIN databases[d].stores : databases'[d].stores[s] # databases[d].stores[s] =>
                                 d = n /\ databases'[d].stores = P
          BY <2>1 DEF TransactionsAreAtomic, P
        <4>1. CASE d = n
          BY <3>1, <3>2, <3>3, <4>1
        <4>2. CASE d # n
          BY <3>2, <4>2 DEF StoresInv
        <4> QED
          BY <4>1, <4>2
      <3> QED
        BY <3>4, <3>5
    <2> QED
      BY <2>1, <2>2, <2>3
  <1>6. CASE abort
    BY <1>2, <1>6 DEF abort
  <1> QED
    BY <1>1, <1>3, <1>4, <1>5, <1>6 DEF DatabaseNext

(* A namespace's contents change under a new generation or with those of the *)
(* namespace or file they were taken from, and a database changes at the end *)
(* of a transaction by exactly its writes (OriginStorage, IndexedDb).        *)
THEOREM StoresAlwaysChangeWhole == Spec => StoresChangeWhole
  <1>1. Init => StoresInv
    BY DEF Init, StoresInit, StoresInv
  <1>2. ASSUME StoresInv, [Next]_vars
        PROVE  StoresInv' /\ ((GenerationTells /\ TransactionsAreAtomic) \/ UNCHANGED storeVars)
    <2>1. ASSUME UNCHANGED dbVars PROVE StoresInv' /\ TransactionsAreAtomic
      BY <1>2, <2>1 DEF dbVars, StoresInv, TransactionsAreAtomic
    <2>2. ASSUME UNCHANGED storageVars PROVE GenerationTells
      BY <2>2 DEF storageVars, GenerationTells, Contents
    <2>3. CASE StorageNext
      <3>1. UNCHANGED dbVars
        BY <2>3 DEF StorageNext, set, set_with_quota, remove, Write, clone_session_namespace, to_json, from_json
      <3> QED
        BY <2>1, <2>3, <3>1, StorageSteps
    <2>4. CASE DatabaseNext
      <3>1. UNCHANGED storageVars
        BY <2>4 DEF DatabaseNext, open, transaction, put, commit, abort
      <3> QED
        BY <1>2, <2>2, <2>4, <3>1, DatabaseSteps
    <2>5. CASE CacheNext
      <3>1. UNCHANGED storageVars /\ UNCHANGED dbVars
        BY <2>5 DEF CacheNext, open_cache, put_response, delete_response, delete_cache, save_caches,
                    restore_caches, CacheFrame
      <3> QED
        BY <2>1, <2>2, <3>1
    <2>6. CASE UNCHANGED storeVars
      BY <2>1, <2>6 DEF storeVars
    <2> QED
      BY <1>2, <2>3, <2>4, <2>5, <2>6 DEF Next, vars
  <1>3. StoresInv /\ [Next]_vars => StoresInv'
    BY <1>2
  <1>4. StoresInv /\ [Next]_vars => [GenerationTells /\ TransactionsAreAtomic]_storeVars
    BY <1>2
  <1> QED
    BY <1>1, <1>3, <1>4, PTL DEF Spec, StoresChangeWhole

-----------------------------------------------------------------------------
(* Requests (Network) *)

(* The requests whose last event is the given one.                           *)
EndedWith(last) == {i \in DOMAIN log : log[i].events # << >> /\ Last(log[i].events) = last}

(* An answer from a server to a party, at a URL.                             *)
ByRoute(j, k) == log[j].source = "route" /\ log[j].req.party = k[1] /\ log[j].url = k[2]

(* The party of a key was answered so at the key's URL, and nothing but      *)
(* GETs of its were answered there since.                                    *)
WasAnswered(k, body) ==
    \E j \in DOMAIN log :
       /\ ByRoute(j, k) /\ log[j].req.method = "GET" /\ log[j].body = {body}
       /\ \A m \in DOMAIN log : m > j /\ ByRoute(m, k) => log[m].req.method = "GET"

(* An answer to the party of a key set the cookie.                           *)
WasSet(k, expires) ==
    \E j \in DOMAIN log :
       /\ log[j].source = "route" /\ log[j].req.party = k[1]
       /\ \E s \in log[j].stored : s.key = k /\ s.expires = expires

(* Every cookie in the jar was set by an answer.                             *)
FromAnswers(jarred) == \A k \in DOMAIN jarred : WasSet(k, jarred[k].expires)

(* The metrics count the log, and jar and cache come from its answers.       *)
RequestsInv ==
    /\ \E S : log \in Seq(S)
    /\ DOMAIN metrics = {"started", "completed", "failed", "bytes"}
    /\ metrics.completed \in Nat /\ metrics.failed \in Nat /\ config.max_requests \in Nat
    /\ RequestsHold
    /\ \A k \in DOMAIN cache : k = <<k[1], k[2]>> /\ WasAnswered(k, cache[k].body)
    /\ FromAnswers(cookies) /\ \A c \in jar : FromAnswers(c)

(* One more request in the log.                                              *)
LEMMA Logged ==
    ASSUME RequestsInv, NEW e, log' = Append(log, e)
    PROVE  \E n \in Nat : /\ DOMAIN log = 1 .. n /\ DOMAIN log' = 1 .. n + 1 /\ log'[n + 1] = e
                          /\ \A i \in 1 .. n : log'[i] = log[i]
                          /\ IsFiniteSet(DOMAIN log) /\ \E S : log' \in Seq(S)
  <1>1. PICK S : log \in Seq(S)
    BY DEF RequestsInv
  <1> DEFINE n == Len(log)
             T == S \cup {e}
  <1>2. n \in Nat /\ DOMAIN log = 1 .. n /\ log \in Seq(T) /\ e \in T
    BY <1>1
  <1> HIDE DEF T
  <1>3. /\ log' \in Seq(T) /\ DOMAIN log' = 1 .. n + 1 /\ log'[n + 1] = e
        /\ \A i \in 1 .. n : log'[i] = log[i]
    BY <1>2
  <1> HIDE DEF n
  <1>4. n \in Int /\ 1 \in Int
    BY <1>2
  <1>5. IsFiniteSet(1 .. n)
    BY <1>4, FS_Interval
  <1> QED
    BY <1>2, <1>3, <1>5

(* How a request ended, in the events and the audit.                         *)
Ends(e, last) ==
    /\ e.events # << >> => Last(e.events) = last
    /\ e.events = << >> <=> last = "none"
    /\ Last(e.audit) = "Completed" <=> last = "RequestCompleted"

(* One request more is counted once.                                         *)
LEMMA RequestCounted ==
    ASSUME RequestsInv, NEW e, log' = Append(log, e), UNCHANGED config,
           DOMAIN metrics' = DOMAIN metrics,
           \/ Ends(e, "none") /\ metrics' = metrics
           \/ /\ Ends(e, "RequestFailed") /\ metrics.started < config.max_requests
              /\ metrics'.started = metrics.started + 1 /\ metrics'.failed = metrics.failed + 1
              /\ metrics'.completed = metrics.completed
           \/ /\ Ends(e, "RequestCompleted") /\ metrics.started < config.max_requests
              /\ metrics'.started = metrics.started + 1 /\ metrics'.completed = metrics.completed + 1
              /\ metrics'.failed = metrics.failed
    PROVE  /\ EveryRequestAccounted' /\ metrics'.completed \in Nat /\ metrics'.failed \in Nat
           /\ \E S : log' \in Seq(S)
  <1>1. PICK n \in Nat : /\ DOMAIN log = 1 .. n /\ DOMAIN log' = 1 .. n + 1 /\ log'[n + 1] = e
                         /\ \A i \in 1 .. n : log'[i] = log[i]
                         /\ IsFiniteSet(DOMAIN log) /\ \E S : log' \in Seq(S)
    BY Logged
  <1>2. /\ metrics.completed = Cardinality(EndedWith("RequestCompleted"))
        /\ metrics.failed = Cardinality(EndedWith("RequestFailed"))
        /\ metrics.started = metrics.completed + metrics.failed
        /\ metrics.started <= config.max_requests
        /\ \A i \in DOMAIN log : (Last(log[i].audit) = "Completed") <=> i \in EndedWith("RequestCompleted")
        /\ metrics.completed \in Nat /\ metrics.failed \in Nat /\ config.max_requests \in Nat
    BY DEF RequestsInv, RequestsHold, EveryRequestAccounted, EndedWith
  <1>3. ASSUME NEW last \in {"RequestFailed", "RequestCompleted"}
        PROVE  /\ Ends(e, last) => Cardinality(EndedWith(last)') = Cardinality(EndedWith(last)) + 1
               /\ ~Ends(e, last) => Cardinality(EndedWith(last)') = Cardinality(EndedWith(last))
               /\ EndedWith(last)' = EndedWith(last) \cup (IF Ends(e, last) THEN {n + 1} ELSE {})
    <2>1. e.events # << >> /\ Last(e.events) = last <=> Ends(e, last)
      BY DEF Ends
    <2>2. EndedWith(last)' = EndedWith(last) \cup (IF Ends(e, last) THEN {n + 1} ELSE {})
      BY <1>1, <2>1 DEF EndedWith
    <2>3. IsFiniteSet(EndedWith(last)) /\ n + 1 \notin EndedWith(last)
      BY <1>1, FS_Subset DEF EndedWith
    <2> QED
      BY <2>2, <2>3, FS_AddElement
  <1>4. /\ metrics'.completed = Cardinality(EndedWith("RequestCompleted")')
        /\ metrics'.failed = Cardinality(EndedWith("RequestFailed")')
        /\ metrics'.started = metrics'.completed + metrics'.failed
        /\ metrics'.started <= config.max_requests
        /\ metrics'.completed \in Nat /\ metrics'.failed \in Nat
    <2>1. CASE Ends(e, "none") /\ metrics' = metrics
      <3>1. ~Ends(e, "RequestFailed") /\ ~Ends(e, "RequestCompleted")
        BY <2>1 DEF Ends
      <3> QED
        BY <1>2, <1>3, <2>1, <3>1
    <2>2. CASE Ends(e, "RequestFailed") /\ metrics'.failed = metrics.failed + 1
      <3>1. ~Ends(e, "RequestCompleted") /\ ~Ends(e, "none")
        BY <2>2 DEF Ends
      <3> QED
        BY <1>2, <1>3, <2>2, <3>1
    <2>3. CASE Ends(e, "RequestCompleted") /\ metrics'.completed = metrics.completed + 1
      <3>1. ~Ends(e, "RequestFailed") /\ ~Ends(e, "none")
        BY <2>3 DEF Ends
      <3> QED
        BY <1>2, <1>3, <2>3, <3>1
    <2> QED
      BY <2>1, <2>2, <2>3
  <1>5. ASSUME NEW i \in DOMAIN log' PROVE (Last(log'[i].audit) = "Completed") <=> i \in EndedWith("RequestCompleted")'
    <2>1. CASE i \in 1 .. n
      BY <1>1, <1>2, <1>3, <2>1
    <2>2. CASE i = n + 1
      <3>1. Last(e.audit) = "Completed" <=> Ends(e, "RequestCompleted")
        BY DEF Ends
      <3>2. n + 1 \notin EndedWith("RequestCompleted")
        BY <1>1 DEF EndedWith
      <3> QED
        BY <1>1, <1>3, <2>2, <3>1, <3>2
    <2> QED
      BY <1>1, <2>1, <2>2
  <1>6. EveryRequestAccounted' <=>
            /\ metrics'.completed = Cardinality(EndedWith("RequestCompleted")')
            /\ metrics'.failed = Cardinality(EndedWith("RequestFailed")')
            /\ metrics'.started = metrics'.completed + metrics'.failed
            /\ metrics'.started <= config'.max_requests
            /\ \A i \in DOMAIN log' : (Last(log'[i].audit) = "Completed") <=> i \in EndedWith("RequestCompleted")'
    BY Zenon DEF EveryRequestAccounted, EndedWith
  <1>7. EveryRequestAccounted'
    BY <1>4, <1>5, <1>6
  <1> QED
    BY <1>1, <1>4, <1>7

(* What one more request leaves true of the earlier answers.                 *)
LEMMA AnswersStand ==
    ASSUME RequestsInv, NEW e, log' = Append(log, e)
    PROVE  /\ \A k, expires : WasSet(k, expires) => WasSet(k, expires)'
           /\ \A k, body : WasAnswered(k, body) /\ (e.source = "route" /\ e.req.party = k[1] /\ e.url = k[2]
                                                    => e.req.method = "GET")
                           => WasAnswered(k, body)'
           /\ \A k, body : /\ e.source = "route" /\ e.req.party = k[1] /\ e.url = k[2]
                           /\ e.req.method = "GET" /\ e.body = {body}
                           => WasAnswered(k, body)'
           /\ \A k, s : e.source = "route" /\ e.req.party = k[1] /\ s \in e.stored /\ s.key = k => WasSet(k, s.expires)'
  <1>1. PICK n \in Nat : /\ DOMAIN log = 1 .. n /\ DOMAIN log' = 1 .. n + 1 /\ log'[n + 1] = e
                         /\ \A i \in 1 .. n : log'[i] = log[i]
    BY Logged
  <1>2. /\ \A i \in 1 .. n + 1 : i \in 1 .. n \/ i = n + 1
        /\ \A i \in 1 .. n : i \in 1 .. n + 1 /\ ~(i > n + 1)
        /\ n + 1 \in 1 .. n + 1 /\ ~(n + 1 > n + 1)
    BY <1>1
  <1>3. ASSUME NEW k, NEW expires, WasSet(k, expires) PROVE WasSet(k, expires)'
    BY <1>1, <1>2, <1>3 DEF WasSet
  <1>4. ASSUME NEW k, NEW body, WasAnswered(k, body),
               e.source = "route" /\ e.req.party = k[1] /\ e.url = k[2] => e.req.method = "GET"
        PROVE  WasAnswered(k, body)'
    <2>1. PICK j \in DOMAIN log : /\ ByRoute(j, k) /\ log[j].req.method = "GET" /\ log[j].body = {body}
                                  /\ \A m \in DOMAIN log : m > j /\ ByRoute(m, k) => log[m].req.method = "GET"
      BY <1>4 DEF WasAnswered
    <2>2. /\ j \in DOMAIN log' /\ ByRoute(j, k)' /\ log'[j].req.method = "GET" /\ log'[j].body = {body}
      BY <1>1, <1>2, <2>1 DEF ByRoute
    <2>3. ASSUME NEW m \in DOMAIN log', m > j, ByRoute(m, k)' PROVE log'[m].req.method = "GET"
      BY <1>1, <1>2, <1>4, <2>1, <2>3 DEF ByRoute
    <2> QED
      BY <2>2, <2>3 DEF WasAnswered
  <1>5. ASSUME NEW k, NEW body, e.source = "route", e.req.party = k[1], e.url = k[2],
               e.req.method = "GET", e.body = {body}
        PROVE  WasAnswered(k, body)'
    <2>1. ByRoute(n + 1, k)'
      BY <1>1, <1>2, <1>5 DEF ByRoute
    <2>2. ASSUME NEW m \in DOMAIN log' PROVE ~(m > n + 1)
      BY <1>1, <1>2
    <2> QED
      BY <1>1, <1>2, <1>5, <2>1, <2>2 DEF WasAnswered
  <1>6. ASSUME NEW k, NEW s, e.source = "route", e.req.party = k[1], s \in e.stored, s.key = k PROVE WasSet(k, s.expires)'
    BY <1>1, <1>2, <1>6 DEF WasSet
  <1> QED
    BY <1>3, <1>4, <1>5, <1>6

(* A request that takes what it may keeps the parties apart.                 *)
LEMMA NothingCrossed ==
    ASSUME RequestsInv, NEW e, log' = Append(log, e),
           e.source = "cache" => \E body : e.body = {body} /\ WasAnswered(<<e.req.party, e.req.url>>, body),
           \A c \in e.sent : c[1] = e.req.party /\ \E expires : WasSet(c, expires) /\ \A t \in expires : t > e.at
    PROVE  NothingCrossesParties'
  <1>1. PICK n \in Nat : /\ DOMAIN log = 1 .. n /\ DOMAIN log' = 1 .. n + 1 /\ log'[n + 1] = e
                         /\ \A i \in 1 .. n : log'[i] = log[i]
    BY Logged
  <1> DEFINE Earlier(l, i) == {j \in 1..(i - 1) : l[j].req.party = l[i].req.party /\ l[j].source = "route"}
             Apt(l, i) ==
                /\ l[i].source = "cache" =>
                      \E j \in Earlier(l, i) :
                         /\ l[j].req.method = "GET" /\ l[j].url = l[i].req.url /\ l[j].body = l[i].body
                         /\ \A k \in Earlier(l, i) : k > j /\ l[k].url = l[i].req.url => l[k].req.method = "GET"
                /\ \A c \in l[i].sent : \E j \in Earlier(l, i) : \E s \in l[j].stored :
                      s.key = c /\ \A t \in s.expires : t > l[i].at
  <1>2. \A i \in DOMAIN log : Apt(log, i)
    BY Zenon DEF RequestsInv, RequestsHold, NothingCrossesParties
  <1>3. (\A i \in DOMAIN log' : Apt(log', i)) => NothingCrossesParties'
    BY Zenon DEF NothingCrossesParties
  <1>4. PICK l : l = log'
    OBVIOUS
  <1>5. ASSUME NEW i \in 1 .. n PROVE Apt(l, i)
    <2>1. \A j \in 1 .. i : l[j] = log[j]
      BY <1>1, <1>4
    <2>2. i \in 1 .. i /\ \A j \in 1 .. i - 1 : j \in 1 .. i
      OBVIOUS
    <2>3. Earlier(l, i) = Earlier(log, i) /\ l[i] = log[i] /\ \A j \in Earlier(log, i) : l[j] = log[j]
      BY <2>1, <2>2
    <2>4. Apt(log, i)
      BY <1>1, <1>2
    <2> HIDE DEF Earlier
    <2> QED
      BY <2>3, <2>4
  <1>6. Apt(l, n + 1)
    <2>1. l[n + 1] = e /\ \A j \in DOMAIN log : l[j] = log[j]
      BY <1>1, <1>4
    <2>2. Earlier(l, n + 1) = {j \in DOMAIN log : log[j].req.party = e.req.party /\ log[j].source = "route"}
      BY <1>1, <2>1
    <2> HIDE DEF Earlier
    <2>3. ASSUME e.source = "cache"
          PROVE  \E j \in Earlier(l, n + 1) :
                     /\ l[j].req.method = "GET" /\ l[j].url = e.req.url /\ l[j].body = e.body
                     /\ \A k \in Earlier(l, n + 1) : k > j /\ l[k].url = e.req.url => l[k].req.method = "GET"
      <3>1. PICK body : e.body = {body} /\ WasAnswered(<<e.req.party, e.req.url>>, body)
        BY <2>3
      <3> QED
        BY <2>1, <2>2, <3>1 DEF WasAnswered, ByRoute
    <2>4. ASSUME NEW c \in e.sent
          PROVE  \E j \in Earlier(l, n + 1) : \E s \in l[j].stored : s.key = c /\ \A t \in s.expires : t > e.at
      <3>1. PICK expires : c[1] = e.req.party /\ WasSet(c, expires) /\ \A t \in expires : t > e.at
        BY <2>4
      <3> QED
        BY <2>1, <2>2, <3>1 DEF WasSet
    <2> QED
      BY <2>1, <2>3, <2>4
  <1>7. \A i \in DOMAIN l : i \in 1 .. n \/ i = n + 1
    BY <1>1, <1>4
  <1> HIDE DEF Apt
  <1>8. \A i \in DOMAIN l : Apt(l, i)
    BY <1>5, <1>6, <1>7
  <1>9. \A i \in DOMAIN log' : Apt(log', i)
    BY <1>4, <1>8
  <1> QED
    BY <1>3, <1>9

(* The cookies a request sends were set by answers to its party.             *)
LEMMA SentWereSet ==
    ASSUME RequestsInv, NEW party, NEW url, NEW c \in header_for(party, url)
    PROVE  c[1] = party /\ \E expires : WasSet(c, expires) /\ \A t \in expires : t > now
  <1>1. c \in DOMAIN cookies /\ c[1] = party /\ \A t \in cookies[c].expires : t > now
    BY DEF header_for, matches_at
  <1> QED
    BY <1>1 DEF RequestsInv, FromAnswers

(* A cached answer that stands is one of a server still.                     *)
LEMMA CacheStays ==
    ASSUME RequestsInv, DOMAIN cache' \subseteq DOMAIN cache,
           \A k \in DOMAIN cache' : cache'[k] = cache[k],
           \A k \in DOMAIN cache' : \A body : WasAnswered(k, body) => WasAnswered(k, body)'
    PROVE  (\A k \in DOMAIN cache : k = <<k[1], k[2]>> /\ WasAnswered(k, cache[k].body))'
  <1> SUFFICES ASSUME NEW k \in DOMAIN cache' PROVE k = <<k[1], k[2]>> /\ (WasAnswered(k, cache[k].body))'
    OBVIOUS
  <1>1. PICK b : b = cache[k].body /\ WasAnswered(k, b) /\ k = <<k[1], k[2]>>
    BY DEF RequestsInv
  <1>2. WasAnswered(k, b)' /\ cache'[k].body = b
    BY <1>1
  <1> QED
    BY <1>1, <1>2 DEF WasAnswered, ByRoute

(* Cookies that were set by answers were set by them still.                  *)
LEMMA CookiesStay ==
    ASSUME \A k, expires : WasSet(k, expires) => WasSet(k, expires)'
    PROVE  /\ FromAnswers(cookies) /\ UNCHANGED cookies => FromAnswers(cookies)'
           /\ (\A c \in jar : FromAnswers(c)) /\ UNCHANGED jar => (\A c \in jar : FromAnswers(c))'
  <1>1. ASSUME NEW c, FromAnswers(c) PROVE FromAnswers(c)'
    BY <1>1 DEF FromAnswers
  <1>2. PICK cs, js : cs = cookies /\ js = jar
    OBVIOUS
  <1>3. FromAnswers(cookies) /\ UNCHANGED cookies => FromAnswers(cookies)'
    <2>1. FromAnswers(cs) => FromAnswers(cs)'
      BY <1>1
    <2> QED
      BY <1>2, <2>1 DEF FromAnswers, WasSet
  <1> QED
    BY <1>1, <1>3

(* A request that a server did not answer.                                   *)
LEMMA NoAnswer ==
    ASSUME RequestsInv, NEW e, log' = Append(log, e), UNCHANGED <<config, cookies, cache, jar>>,
           e.source # "route", e.at = now, e.sent = {} \/ e.sent = header_for(e.req.party, e.req.url),
           e.source = "cache" => \E body : e.body = {body} /\ WasAnswered(<<e.req.party, e.req.url>>, body),
           DOMAIN metrics' = DOMAIN metrics,
           \/ Ends(e, "none") /\ metrics' = metrics
           \/ /\ Ends(e, "RequestFailed") /\ metrics.started < config.max_requests
              /\ metrics'.started = metrics.started + 1 /\ metrics'.failed = metrics.failed + 1
              /\ metrics'.completed = metrics.completed
           \/ /\ Ends(e, "RequestCompleted") /\ metrics.started < config.max_requests
              /\ metrics'.started = metrics.started + 1 /\ metrics'.completed = metrics.completed + 1
              /\ metrics'.failed = metrics.failed
    PROVE  RequestsInv'
  <1>1. /\ EveryRequestAccounted' /\ metrics'.completed \in Nat /\ metrics'.failed \in Nat
        /\ \E S : log' \in Seq(S)
    BY RequestCounted
  <1>2. \A c \in e.sent : c[1] = e.req.party /\ \E expires : WasSet(c, expires) /\ \A t \in expires : t > e.at
    BY SentWereSet
  <1>3. NothingCrossesParties'
    BY <1>2, NothingCrossed
  <1>4. /\ \A k, expires : WasSet(k, expires) => WasSet(k, expires)'
        /\ \A k, body : WasAnswered(k, body) => WasAnswered(k, body)'
    BY AnswersStand
  <1>5. (\A k \in DOMAIN cache : k = <<k[1], k[2]>> /\ WasAnswered(k, cache[k].body))'
    BY <1>4, CacheStays
  <1>6. FromAnswers(cookies)' /\ (\A c \in jar : FromAnswers(c))'
    BY <1>4, CookiesStay DEF RequestsInv
  <1>7. DOMAIN metrics' = {"started", "completed", "failed", "bytes"} /\ config'.max_requests \in Nat
    BY DEF RequestsInv
  <1> QED
    BY <1>1, <1>3, <1>5, <1>6, <1>7 DEF RequestsInv, RequestsHold

(* The lists of events and audit entries end as they say.                    *)
LEMMA ListsEnd ==
    /\ Last(<<"Failed">>) = "Failed" /\ Last(<<"Completed">>) = "Completed"
    /\ Last(<<"CookieStored", "Completed">>) = "Completed"
    /\ Last(<<"RequestStarted", "RequestFailed">>) = "RequestFailed"
    /\ Last(<<"RequestStarted", "Timing", "RequestFailed">>) = "RequestFailed"
    /\ Done # << >> /\ Last(Done) = "RequestCompleted"
    /\ <<"RequestStarted", "Mutation">> \o Tail(Done) # << >>
    /\ Last(<<"RequestStarted", "Mutation">> \o Tail(Done)) = "RequestCompleted"
  <1>1. Tail(Done) = <<"ResponseReceived", "Timing", "RequestCompleted">>
    BY DEF Done
  <1>2. PICK a, b : /\ a = <<"RequestStarted", "Mutation">>
                    /\ b = <<"ResponseReceived", "Timing", "RequestCompleted">>
    OBVIOUS
  <1> DEFINE T == {"RequestStarted", "Mutation", "ResponseReceived", "Timing", "RequestCompleted"}
  <1>3. /\ a \in Seq(T) /\ b \in Seq(T) /\ Len(a) = 2 /\ Len(b) = 3
        /\ b[3] = "RequestCompleted"
    <2>1. Len(a) = 2 /\ Len(b) = 3 /\ b[3] = "RequestCompleted"
      BY <1>2
    <2>2. a \in Seq(T)
      BY <1>2
    <2>3. b \in Seq(T)
      BY <1>2
    <2> QED
      BY <2>1, <2>2, <2>3
  <1> HIDE DEF T
  <1>4. Len(a \o b) = 5 /\ (a \o b)[5] = b[3]
    <2>1. /\ Len(a \o b) = Len(a) + Len(b)
          /\ \A i \in 1 .. Len(a) + Len(b) : (a \o b)[i] = IF i <= Len(a) THEN a[i] ELSE b[i - Len(a)]
      BY <1>3, ConcatProperties, Zenon
    <2>2. PICK c : c = a \o b
      OBVIOUS
    <2>3. Len(c) = 5 /\ c[5] = b[3]
      BY <1>3, <2>1, <2>2
    <2> QED
      BY <2>2, <2>3
  <1>5. a \o b # << >> /\ Last(a \o b) = "RequestCompleted"
    BY <1>3, <1>4 DEF Last
  <1>6. a = <<"RequestStarted", "Mutation">> /\ b = Tail(Done)
    BY <1>1, <1>2
  <1> QED
    BY <1>5, <1>6 DEF Last, Done

(* Every end of fetch keeps the requests apart and accounted for.            *)
LEMMA Fetches ==
    ASSUME RequestsInv, NEW req, fetch(req)
    PROVE  RequestsInv'
  <1>0. /\ DOMAIN metrics = {"started", "completed", "failed", "bytes"} /\ config.max_requests \in Nat
        /\ metrics.completed \in Nat /\ metrics.failed \in Nat /\ metrics.started \in Nat
    BY DEF RequestsInv, RequestsHold, EveryRequestAccounted
  <1>1. ASSUME Starts(req) PROVE metrics.started < config.max_requests
    <2>1. CASE metrics.started >= config.max_requests
      <3>1. Rejection(req) = {"WorkersDisabled"} \/ Rejection(req) = {"RequestLimit"}
        BY <2>1 DEF Rejection
      <3> QED
        BY <1>1, <3>1 DEF Starts
    <2> QED
      BY <1>0, <2>1
  <1>2. CASE Rejected(req)
    <2> DEFINE e == [Entry(req, "none", {}, req.url, << >>, <<"Failed">>) EXCEPT !.sent = {}]
    <2>1. /\ e.source = "none" /\ e.at = now /\ e.sent = {} /\ e.events = << >> /\ e.audit = <<"Failed">>
      BY DEF Entry
    <2>2. log' = Append(log, e) /\ UNCHANGED <<config, cookies, cache, jar, metrics>>
      BY <1>2 DEF Rejected, Record, FetchFrame
    <2> HIDE DEF e
    <2>3. Ends(e, "none")
      BY <2>1, ListsEnd DEF Ends
    <2> QED
      BY <2>1, <2>2, <2>3, NoAnswer
  <1>3. CASE TimesOut(req)
    <2> DEFINE e == Entry(req, "none", {}, req.url, <<"RequestStarted", "RequestFailed">>, <<"Failed">>)
    <2>1. /\ e.source = "none" /\ e.at = now /\ e.sent = header_for(e.req.party, e.req.url)
          /\ e.events = <<"RequestStarted", "RequestFailed">> /\ e.audit = <<"Failed">>
      BY DEF Entry
    <2>2. /\ log' = Append(log, e) /\ UNCHANGED <<config, cookies, cache, jar>> /\ Starts(req)
          /\ metrics' = [metrics EXCEPT !.started = @ + 1, !.failed = @ + 1]
      BY <1>3 DEF TimesOut, Record, FetchFrame
    <2> HIDE DEF e
    <2>3. Ends(e, "RequestFailed")
      BY <2>1, ListsEnd DEF Ends
    <2>4. /\ DOMAIN metrics' = DOMAIN metrics /\ metrics'.started = metrics.started + 1
          /\ metrics'.failed = metrics.failed + 1 /\ metrics'.completed = metrics.completed
      BY <1>0, <2>2
    <2> QED
      BY <1>1, <2>1, <2>2, <2>3, <2>4, NoAnswer
  <1>4. ASSUME NEW size, Completes(size)
        PROVE  /\ DOMAIN metrics' = DOMAIN metrics /\ metrics'.started = metrics.started + 1
               /\ metrics'.completed = metrics.completed + 1 /\ metrics'.failed = metrics.failed
    BY <1>0, <1>4 DEF Completes
  <1>5. CASE WorkerAnswers(req)
    <2> DEFINE e == Entry(req, "worker", {}, req.url, Done, <<"Completed">>)
    <2>1. /\ e.source = "worker" /\ e.at = now /\ e.sent = header_for(e.req.party, e.req.url)
          /\ e.events = Done /\ e.audit = <<"Completed">>
      BY DEF Entry
    <2>2. /\ log' = Append(log, e) /\ UNCHANGED <<config, cookies, cache, jar>> /\ Starts(req)
          /\ \E size : Completes(size)
      BY <1>5 DEF WorkerAnswers, Record, FetchFrame
    <2> HIDE DEF e
    <2>3. Ends(e, "RequestCompleted")
      BY <2>1, ListsEnd DEF Ends
    <2> QED
      BY <1>1, <1>4, <2>1, <2>2, <2>3, NoAnswer
  <1>6. CASE CacheAnswers(req)
    <2> DEFINE hit == cache[<<req.party, req.url>>]
               e == Entry(req, "cache", {hit.body}, req.url, Done, <<"Completed">>)
    <2>1. /\ e.source = "cache" /\ e.at = now /\ e.sent = header_for(e.req.party, e.req.url)
          /\ e.events = Done /\ e.audit = <<"Completed">> /\ e.body = {hit.body} /\ e.req = req
      BY DEF Entry
    <2>2. /\ log' = Append(log, e) /\ UNCHANGED <<config, cookies, cache, jar>> /\ Starts(req)
          /\ Completes(hit.size) /\ <<req.party, req.url>> \in DOMAIN cache
      BY <1>6 DEF CacheAnswers, Record, FetchFrame
    <2> HIDE DEF e
    <2>3. Ends(e, "RequestCompleted")
      BY <2>1, ListsEnd DEF Ends
    <2>4. WasAnswered(<<req.party, req.url>>, hit.body)
      BY <2>2 DEF RequestsInv
    <2>5. \E body : e.body = {body} /\ WasAnswered(<<e.req.party, e.req.url>>, body)
      BY <2>1, <2>4
    <2> HIDE DEF hit
    <2> QED
      BY <1>1, <1>4, <2>1, <2>2, <2>3, <2>5, NoAnswer
  <1>7. CASE RouteFails(req)
    <2>1. PICK at, events : /\ Record(Entry(req, "none", {}, at, events, <<"Failed">>))
                            /\ \/ events = <<"RequestStarted", "RequestFailed">>
                               \/ events = <<"RequestStarted", "Timing", "RequestFailed">>
      BY <1>7 DEF RouteFails
    <2> DEFINE e == Entry(req, "none", {}, at, events, <<"Failed">>)
    <2>2. /\ e.source = "none" /\ e.at = now /\ e.sent = header_for(e.req.party, e.req.url)
          /\ e.events = events /\ e.audit = <<"Failed">>
      BY DEF Entry
    <2>3. /\ log' = Append(log, e) /\ UNCHANGED <<config, cookies, cache, jar>> /\ Starts(req)
          /\ metrics' = [metrics EXCEPT !.started = @ + 1, !.failed = @ + 1]
      BY <1>7, <2>1 DEF RouteFails, GoesOut, Record, FetchFrame
    <2> HIDE DEF e
    <2>4. events # << >> /\ Last(events) = "RequestFailed"
      BY <2>1, ListsEnd
    <2>5. Ends(e, "RequestFailed")
      BY <2>2, <2>4, ListsEnd DEF Ends
    <2>6. /\ DOMAIN metrics' = DOMAIN metrics /\ metrics'.started = metrics.started + 1
          /\ metrics'.failed = metrics.failed + 1 /\ metrics'.completed = metrics.completed
      BY <1>0, <2>3
    <2> QED
      BY <1>1, <2>2, <2>3, <2>5, <2>6, NoAnswer
  <1>8. CASE RouteAnswers(req)
    <2> DEFINE end == Chased(req.method, req.url)
               r == end.response
               new == {Parsed(c, end.url) : c \in r.set_cookie}
               keys == {<<req.party, c.domain, "name">> : c \in new}
               stored == {[key |-> <<req.party, c.domain, "name">>, expires |-> c.expires] : c \in new}
               events == IF req.method = "GET" THEN Done ELSE <<"RequestStarted", "Mutation">> \o Tail(Done)
               audit == IF new = {} THEN <<"Completed">> ELSE <<"CookieStored", "Completed">>
               e == [Entry(req, "route", {r.body}, end.url, events, audit) EXCEPT !.stored = stored]
    <2>2. /\ Starts(req) /\ UNCHANGED <<config, jar>> /\ Completes(r.size) /\ log' = Append(log, e)
          /\ cache' = CacheAfter(req, end.url, r)
          /\ cookies' = [k \in DOMAIN cookies \cup keys |->
                            IF k \in keys THEN CHOOSE c \in new : k[2] = c.domain ELSE cookies[k]]
      BY <1>8, Zenon DEF RouteAnswers, GoesOut, Record, FetchFrame
    <2> HIDE DEF end, new
    <2>3. events # << >> /\ Last(events) = "RequestCompleted" /\ Last(audit) = "Completed"
      BY ListsEnd
    <2> HIDE DEF events, audit
    <2>4. /\ e.source = "route" /\ e.at = now /\ e.req = req /\ e.body = {r.body} /\ e.url = end.url
          /\ e.sent = header_for(req.party, req.url) /\ e.events = events /\ e.audit = audit
          /\ e.stored = stored
      BY DEF Entry
    <2> HIDE DEF e
    <2>5. Ends(e, "RequestCompleted")
      BY <2>3, <2>4 DEF Ends
    <2>6. /\ EveryRequestAccounted' /\ metrics'.completed \in Nat /\ metrics'.failed \in Nat
          /\ \E S : log' \in Seq(S)
      BY <1>1, <1>4, <2>2, <2>5, RequestCounted
    <2>1. \A c \in e.sent : c[1] = e.req.party /\ \E expires : WasSet(c, expires) /\ \A t \in expires : t > e.at
      BY <2>4, SentWereSet
    <2>7. NothingCrossesParties'
      BY <2>1, <2>2, <2>4, NothingCrossed
    <2>8. /\ \A k, expires : WasSet(k, expires) => WasSet(k, expires)'
          /\ \A k, body : WasAnswered(k, body) /\ (req.party = k[1] /\ end.url = k[2] => req.method = "GET")
                          => WasAnswered(k, body)'
          /\ \A k, body : body = r.body /\ req.party = k[1] /\ end.url = k[2] /\ req.method = "GET"
                          => WasAnswered(k, body)'
          /\ \A k, s : req.party = k[1] /\ s \in stored /\ s.key = k => WasSet(k, s.expires)'
      BY <2>2, <2>4, AnswersStand, SMTT(60)
    <2>9. ASSUME NEW k \in DOMAIN cache'
          PROVE  k = <<k[1], k[2]>> /\ (WasAnswered(k, cache[k].body))'
      <3> DEFINE key == <<req.party, end.url>>
      <3>1. \/ req.method # "GET" /\ k \in DOMAIN cache /\ k # key /\ cache'[k] = cache[k]
            \/ req.method = "GET" /\ k = key /\ cache'[k] = r
            \/ req.method = "GET" /\ k \in DOMAIN cache /\ cache'[k] = cache[k]
        BY <2>2, <2>9 DEF CacheAfter, Restrict, NetPut
      <3>2. PICK b : b = cache'[k].body
        OBVIOUS
      <3>3. k = <<k[1], k[2]>> /\ WasAnswered(k, b)'
        <4>1. CASE k \in DOMAIN cache /\ cache'[k] = cache[k] /\ (k = key => req.method = "GET")
          <5>1. k = <<k[1], k[2]>> /\ WasAnswered(k, b)
            BY <3>2, <4>1 DEF RequestsInv
          <5>2. req.party = k[1] /\ end.url = k[2] => k = key
            BY <5>1
          <5> QED
            BY <2>8, <4>1, <5>1, <5>2
        <4>2. CASE req.method = "GET" /\ k = key /\ cache'[k] = r
          BY <2>8, <3>2, <4>2
        <4> QED
          BY <3>1, <4>1, <4>2
      <3> QED
        BY <3>2, <3>3 DEF WasAnswered, ByRoute
    <2>10. ASSUME NEW k \in DOMAIN cookies' PROVE (WasSet(k, cookies[k].expires))'
      <3>1. PICK x : x = cookies'[k].expires
        OBVIOUS
      <3>2. WasSet(k, x)'
        <4>1. CASE k \in keys
          <5>1. PICK c \in new : k = <<req.party, c.domain, "name">>
            BY <4>1
          <5>2. PICK c2 \in new : c2 = cookies'[k] /\ k[2] = c2.domain
            BY <2>2, <4>1, <5>1
          <5> DEFINE s == [key |-> <<req.party, c2.domain, "name">>, expires |-> c2.expires]
          <5>3. s \in stored /\ s.key = k /\ s.expires = x /\ k[1] = req.party
            BY <3>1, <5>1, <5>2
          <5> HIDE DEF s
          <5> QED
            BY <2>8, <5>3
        <4>2. CASE k \notin keys
          <5>1. k \in DOMAIN cookies /\ cookies'[k] = cookies[k]
            BY <2>2, <4>2
          <5>2. WasSet(k, x)
            BY <3>1, <5>1 DEF RequestsInv, FromAnswers
          <5> QED
            BY <2>8, <5>2
        <4> QED
          BY <4>1, <4>2
      <3> QED
        BY <3>1, <3>2 DEF WasSet
    <2>11. FromAnswers(cookies)'
      BY <2>10 DEF FromAnswers
    <2>12. (\A c \in jar : FromAnswers(c))'
      BY <2>2, <2>8, CookiesStay DEF RequestsInv
    <2>13. DOMAIN metrics' = {"started", "completed", "failed", "bytes"} /\ config'.max_requests \in Nat
      BY <1>0, <1>4, <2>2
    <2> QED
      BY <2>6, <2>7, <2>9, <2>11, <2>12, <2>13 DEF RequestsInv, RequestsHold
  <1> QED
    BY <1>2, <1>3, <1>5, <1>6, <1>7, <1>8 DEF fetch

(* What leaves the log, the metrics and the limits alone keeps the requests  *)
(* apart when it only drops answers and only takes cookies that were set.    *)
LEMMA RequestsStand ==
    ASSUME RequestsInv, UNCHANGED <<log, metrics, config>>, DOMAIN cache' \subseteq DOMAIN cache,
           \A k \in DOMAIN cache' : cache'[k] = cache[k],
           \/ UNCHANGED cookies
           \/ cookies' \in jar
           \/ DOMAIN cookies' \subseteq DOMAIN cookies /\ \A k \in DOMAIN cookies' : cookies'[k] = cookies[k],
           UNCHANGED jar \/ jar' = {cookies}
    PROVE  RequestsInv'
  <1>1. /\ \A k, expires : WasSet(k, expires) <=> WasSet(k, expires)'
        /\ \A k, body : WasAnswered(k, body) <=> WasAnswered(k, body)'
    BY DEF WasSet, WasAnswered, ByRoute
  <1>2. RequestsHold'
    <2>1. EveryRequestAccounted'
      BY DEF RequestsInv, RequestsHold, EveryRequestAccounted
    <2>2. NothingCrossesParties'
      BY SMTT(60) DEF RequestsInv, RequestsHold, NothingCrossesParties
    <2> QED
      BY <2>1, <2>2 DEF RequestsHold
  <1>3. (\A k \in DOMAIN cache : k = <<k[1], k[2]>> /\ WasAnswered(k, cache[k].body))'
    BY <1>1, CacheStays
  <1>4. ASSUME NEW c PROVE FromAnswers(c) <=> FromAnswers(c)'
    BY <1>1 DEF FromAnswers
  <1>5. FromAnswers(cookies)'
    <2>1. PICK cs : cs = cookies'
      OBVIOUS
    <2>2. FromAnswers(cs)
      BY <2>1 DEF RequestsInv, FromAnswers
    <2> QED
      BY <1>4, <2>1, <2>2 DEF FromAnswers
  <1>6. (\A c \in jar : FromAnswers(c))'
    <2>1. \A c \in jar' : FromAnswers(c)
      BY DEF RequestsInv
    <2> QED
      BY <1>4, <2>1
  <1> QED
    BY <1>2, <1>3, <1>5, <1>6 DEF RequestsInv

(* Every step of the network, with or without service workers.               *)
LEMMA RequestsSteps == RequestsInv /\ [Next]_vars => RequestsInv'
  <1> SUFFICES ASSUME RequestsInv, [Next]_vars PROVE RequestsInv'
    OBVIOUS
  <1>1. CASE UNCHANGED netVars
    BY <1>1, RequestsStand DEF netVars
  <1>2. CASE NetworkNext
    <2>1. ASSUME NEW p, NEW urls, invalidate_cache(p, urls) PROVE RequestsInv'
      BY <2>1, RequestsStand DEF invalidate_cache, Restrict
    <2>2. ASSUME NEW a, NEW u, NEW r, route(a, u, r) PROVE RequestsInv'
      BY <2>2, RequestsStand DEF route
    <2>3. CASE purge_expired
      BY <2>3, RequestsStand DEF purge_expired, Restrict
    <2>4. CASE export_cookie_snapshot
      BY <2>4, RequestsStand DEF export_cookie_snapshot
    <2>5. CASE restore_cookie_snapshot
      BY <2>5, RequestsStand DEF restore_cookie_snapshot
    <2>6. CASE NetworkTick
      BY <2>6, RequestsStand DEF NetworkTick
    <2> QED
      BY <1>2, <2>1, <2>2, <2>3, <2>4, <2>5, <2>6, Fetches DEF NetworkNext
  <1>3. CASE WorkersNext
    <2>1. ASSUME WorkerFrame PROVE RequestsInv'
      BY <2>1, RequestsStand DEF WorkerFrame
    <2> QED
      BY <1>3, <2>1, Fetches DEF WorkersNext, register, transition, unregister, intercept
  <1> QED
    BY <1>1, <1>2, <1>3 DEF Next, vars

(* NetworkStack::fetch and fetch_worker: for every routing table, limit and  *)
(* set of requests, each started request ends once in metrics, events and    *)
(* audit, and neither the cache nor the cookie jar hands one party what a    *)
(* server said to another - through redirects, purges, changed routes and    *)
(* restored cookie snapshots.                                                *)
THEOREM RequestsAlwaysHold == Spec => []RequestsHold
  <1>1. Init => RequestsInv
    <2> SUFFICES ASSUME Init PROVE RequestsInv
      OBVIOUS
    <2>1. /\ log = << >> /\ cookies = << >> /\ cache = << >> /\ jar = {} /\ config \in Configs
          /\ metrics = [started |-> 0, completed |-> 0, failed |-> 0, bytes |-> 0]
      BY DEF Init, NetworkInit
    <2>2. DOMAIN log = {} /\ DOMAIN cookies = {} /\ DOMAIN cache = {} /\ log \in Seq({})
      BY <2>1
    <2>3. Cardinality({}) = 0
      BY FS_EmptySet
    <2>4. EveryRequestAccounted
      <3>1. \A last : EndedWith(last) = {}
        BY <2>2 DEF EndedWith
      <3>2. EveryRequestAccounted <=>
            /\ metrics.completed = Cardinality(EndedWith("RequestCompleted"))
            /\ metrics.failed = Cardinality(EndedWith("RequestFailed"))
            /\ metrics.started = metrics.completed + metrics.failed
            /\ metrics.started <= config.max_requests
            /\ \A i \in DOMAIN log : (Last(log[i].audit) = "Completed") <=> i \in EndedWith("RequestCompleted")
        BY Zenon DEF EveryRequestAccounted, EndedWith
      <3> QED
        <4>1. metrics.completed = 0 /\ metrics.failed = 0 /\ metrics.started = 0
          BY <2>1
        <4>2. config.max_requests \in Nat
          BY <2>1, NetworkAssumption
        <4>3. Cardinality(EndedWith("RequestCompleted")) = 0 /\ Cardinality(EndedWith("RequestFailed")) = 0
          BY <2>3, <3>1
        <4> QED
          BY <2>2, <3>2, <4>1, <4>2, <4>3
    <2>5. NothingCrossesParties
      BY <2>2 DEF NothingCrossesParties
    <2> QED
      BY <2>1, <2>2, <2>4, <2>5, NetworkAssumption DEF RequestsInv, RequestsHold, FromAnswers
  <1>2. RequestsInv => RequestsHold
    BY DEF RequestsInv
  <1> QED
    BY <1>1, <1>2, RequestsSteps, PTL DEF Spec

-----------------------------------------------------------------------------
(* Profiles (ProfileManager, FingerprintCatalog) *)

(* A configuration has its fields.                                           *)
ConfigGood(c) ==
    /\ c = [identity |-> c.identity, history |-> c.history,
            autocomplete |-> c.autocomplete, extensions |-> c.extensions]
    /\ c.history \in Seq(Visits) /\ c.autocomplete \in Seq(Visits) /\ c.extensions \in Nat

(* What a profile has been through has its fields.                           *)
PastGood(q) ==
    /\ q = [vetted |-> q.vetted, history |-> q.history,
            autocomplete |-> q.autocomplete, recorded |-> q.recorded]
    /\ q.history \in Nat /\ q.autocomplete \in Nat

(* A configuration goes with what its profile has been through: recorded     *)
(* entries are offered once, a checked identity is one browser's.            *)
Fits(c, q) ==
    /\ OfferedOnce(c.autocomplete, q.recorded)
    /\ q.vetted => check_profile_consistency(c.identity)

(* A profile in order.                                                       *)
ProfileGood(p) ==
    /\ p = [generation |-> p.generation, config |-> p.config, past |-> p.past]
    /\ ConfigGood(p.config) /\ PastGood(p.past) /\ Fits(p.config, p.past)

(* A file holds good profiles; an old one checked no identity.               *)
FileGood(w) ==
    /\ w.version \in Nat /\ w.limits \in ProfileLimits
    /\ w.selected \in {{}} \cup {{id} : id \in ProfileIds} /\ DOMAIN w.profiles \subseteq ProfileIds
    /\ \A id \in DOMAIN w.profiles :
          ProfileGood(w.profiles[id]) /\ (w.version < 2 => w.profiles[id].past.vetted = FALSE)

(* Profiles, selection, limits, catalog and file.                            *)
ManagerGood ==
    /\ DOMAIN profiles \subseteq ProfileIds /\ (DOMAIN profiles = {} => profiles = << >>)
    /\ selected \in {{}} \cup {{id} : id \in ProfileIds}
    /\ selected \subseteq DOMAIN profiles /\ (selected = {} => DOMAIN profiles = {})
    /\ limits \in ProfileLimits
    /\ \A id \in DOMAIN profiles :
          /\ ProfileGood(profiles[id])
          /\ WithinLimits(profiles[id].config, profiles[id].past, limits)
    /\ \A f \in DOMAIN catalog : check_profile_consistency(catalog[f].identity)
    /\ FileGood(profileFile)

(* A function without arguments is the empty one.                            *)
LEMMA NoArguments ==
    ASSUME NEW f, f = [x \in DOMAIN f |-> f[x]], DOMAIN f = {}
    PROVE  f = << >>
  <1>1. << >> = [x \in {} |-> f[x]]
    OBVIOUS
  <1> QED
    BY <1>1

(* The smaller of two.                                                       *)
LEMMA SmallerOf ==
    ASSUME NEW a \in Nat, NEW b \in Nat
    PROVE  Min({a, b}) \in {a, b} /\ Min({a, b}) <= a /\ Min({a, b}) <= b
  <1>1. PICK T : T = {a, b}
    OBVIOUS
  <1>2. \E x \in T : \A y \in T : x <= y
    BY <1>1
  <1>3. Min(T) \in T /\ \A y \in T : Min(T) <= y
    BY <1>2 DEF Min
  <1> QED
    BY <1>1, <1>3

(* The newest entries are within the bound, and all where it is kept.        *)
LEMMA NewestIs ==
    ASSUME NEW S, NEW s \in Seq(S), NEW n \in Nat
    PROVE  /\ Newest(s, n) \in Seq(S)
           /\ n = 0 \/ Len(Newest(s, n)) <= n
           /\ \A R : OfferedOnce(s, R) => OfferedOnce(Newest(s, n), R)
  <1>1. CASE ~(n > 0 /\ Len(s) > n)
    BY <1>1 DEF Newest
  <1>2. CASE n > 0 /\ Len(s) > n
    <2>1. PICK b \in Int : b = Len(s)
      BY LenProperties
    <2>2. PICK a \in Int : a = b - n + 1
      OBVIOUS
    <2>3. PICK t : t = SubSeq(s, a, b)
      OBVIOUS
    <2>4. Newest(s, n) = t
      BY <1>2, <2>1, <2>2, <2>3 DEF Newest
    <2>5. b \in Nat /\ a \in 1 .. b /\ b - a + 1 = n /\ n # 0
      BY <1>2, <2>1, <2>2
    <2>6. \A i \in a .. b : s[i] \in S
      BY <2>1, <2>5, ElementOfSeq
    <2>7. /\ t \in Seq(S) /\ Len(t) = IF a <= b THEN b - a + 1 ELSE 0
          /\ \A i \in 1 .. b - a + 1 : t[i] = s[a + i - 1]
      BY <2>3, <2>6, SubSeqProperties
    <2>8. Len(t) = n /\ DOMAIN t = 1 .. n /\ \A i \in 1 .. n : t[i] = s[a + i - 1]
      BY <2>5, <2>7, LenProperties
    <2>9. ASSUME NEW R, OfferedOnce(s, R) PROVE OfferedOnce(t, R)
      <3> SUFFICES ASSUME NEW i \in 1 .. n, NEW j \in 1 .. n, t[i] = t[j] /\ t[i] \in R PROVE i = j
        BY <2>8 DEF OfferedOnce
      <3>1. DOMAIN s = 1 .. b
        BY <2>1, LenProperties
      <3>2. a + i - 1 \in 1 .. b /\ a + j - 1 \in 1 .. b
        BY <2>5
      <3>3. s[a + i - 1] = s[a + j - 1] /\ s[a + i - 1] \in R
        BY <2>8
      <3>4. a + i - 1 = a + j - 1
        BY <2>9, <3>1, <3>2, <3>3 DEF OfferedOnce
      <3> QED
        BY <2>5, <3>4
    <2>10. ~(n = 0 \/ Len(s) <= n)
      BY <1>2
    <2> QED
      BY <2>4, <2>7, <2>8, <2>9, <2>10
  <1> QED
    BY <1>1, <1>2

(* A configuration that is brought within the limits.                        *)
LEMMA NormalizedIs ==
    ASSUME NEW c, ConfigGood(c), NEW l \in ProfileLimits
    PROVE  /\ ConfigGood(normalize_config(c, l))
           /\ \A v, R : WithinLimits(normalize_config(c, l), Past(v, R), l)
           /\ \A q : Fits(c, q) => Fits(normalize_config(c, l), q)
           /\ normalize_config(c, l).identity = c.identity
           /\ \A R : OfferedOnce(c.autocomplete, R)
                        => OfferedOnce(normalize_config(c, l).autocomplete, R)
  <1> DEFINE h == Newest(c.history, l.history)
             a == Newest(c.autocomplete, l.autocomplete)
             e == IF l.extensions > 0 THEN Min({c.extensions, l.extensions}) ELSE c.extensions
             d == normalize_config(c, l)
  <1>1. /\ c = [identity |-> c.identity, history |-> c.history,
                autocomplete |-> c.autocomplete, extensions |-> c.extensions]
        /\ c.history \in Seq(Visits) /\ c.autocomplete \in Seq(Visits) /\ c.extensions \in Nat
    BY DEF ConfigGood
  <1>2. l.history \in Nat /\ l.autocomplete \in Nat /\ l.extensions \in Nat
    BY DEF ProfileLimits
  <1>3. d = [c EXCEPT !.history = h, !.autocomplete = a, !.extensions = e]
    BY DEF normalize_config
  <1>4. /\ h \in Seq(Visits)
        /\ l.history = 0 \/ Len(h) <= l.history
    BY <1>1, <1>2, NewestIs
  <1>5. /\ a \in Seq(Visits)
        /\ l.autocomplete = 0 \/ Len(a) <= l.autocomplete
        /\ \A R : OfferedOnce(c.autocomplete, R) => OfferedOnce(a, R)
    BY <1>1, <1>2, NewestIs
  <1>6. /\ e \in Nat
        /\ l.extensions = 0 \/ e <= l.extensions
    <2>1. CASE l.extensions > 0
      <3>1. PICK m : m = Min({c.extensions, l.extensions})
        OBVIOUS
      <3>2. m \in {c.extensions, l.extensions} /\ m <= c.extensions /\ m <= l.extensions
        BY <1>1, <1>2, <3>1, SmallerOf
      <3> QED
        BY <1>1, <1>2, <2>1, <3>1, <3>2
    <2>2. CASE ~(l.extensions > 0)
      BY <1>1, <1>2, <2>2
    <2> QED
      BY <2>1, <2>2
  <1> HIDE DEF h, a, e, d
  <1>7. d = [identity |-> c.identity, history |-> h, autocomplete |-> a, extensions |-> e]
    BY <1>1, <1>3
  <1>8. d.identity = c.identity /\ d.history = h /\ d.autocomplete = a /\ d.extensions = e
    BY <1>7
  <1>9. ConfigGood(d)
    <2>1. d = [identity |-> d.identity, history |-> d.history,
               autocomplete |-> d.autocomplete, extensions |-> d.extensions]
      BY <1>7, <1>8
    <2> QED
      BY <1>4, <1>5, <1>6, <1>8, <2>1 DEF ConfigGood
  <1>10. ASSUME NEW v, NEW R PROVE WithinLimits(d, Past(v, R), l)
    <2>1. PICK q : q = Past(v, R)
      OBVIOUS
    <2>2. q.history = 0 /\ q.autocomplete = 0
      BY <2>1 DEF Past
    <2>3. Len(h) \in Nat /\ Len(a) \in Nat
      BY <1>4, <1>5, LenProperties
    <2>4. WithinLimits(d, q, l)
      BY <1>2, <1>4, <1>5, <1>6, <1>8, <2>2, <2>3 DEF WithinLimits
    <2> QED
      BY <2>1, <2>4
  <1>11. ASSUME NEW q, Fits(c, q) PROVE Fits(d, q)
    BY <1>5, <1>8, <1>11 DEF Fits
  <1> QED
    BY <1>5, <1>8, <1>9, <1>10, <1>11 DEF d

(* A profile that is brought within the limits: nothing is on top of them    *)
(* any more.                                                                 *)
LEMMA TrimmedIs ==
    ASSUME NEW p, ProfileGood(p), NEW l \in ProfileLimits
    PROVE  /\ ProfileGood(Trimmed(p, l))
           /\ WithinLimits(Trimmed(p, l).config, Trimmed(p, l).past, l)
  <1>1. PICK c, r : c = normalize_config(p.config, l) /\ r = Past(p.past.vetted, p.past.recorded)
    OBVIOUS
  <1>2. /\ p = [generation |-> p.generation, config |-> p.config, past |-> p.past]
        /\ ConfigGood(p.config) /\ PastGood(p.past) /\ Fits(p.config, p.past)
    BY DEF ProfileGood
  <1>3. ConfigGood(c) /\ WithinLimits(c, r, l) /\ Fits(c, p.past)
    BY <1>1, <1>2, NormalizedIs
  <1>4. r = [vetted |-> p.past.vetted, history |-> 0, autocomplete |-> 0, recorded |-> p.past.recorded]
    BY <1>1 DEF Past
  <1>5. /\ r.vetted = p.past.vetted /\ r.history = 0 /\ r.autocomplete = 0
        /\ r.recorded = p.past.recorded
    BY <1>4
  <1>6. PastGood(r) /\ Fits(c, r)
    <2>1. r = [vetted |-> r.vetted, history |-> r.history,
               autocomplete |-> r.autocomplete, recorded |-> r.recorded]
      BY <1>4, <1>5
    <2> QED
      BY <1>3, <1>5, <2>1 DEF PastGood, Fits
  <1>7. PICK t : t = Trimmed(p, l)
    OBVIOUS
  <1>8. t = [p EXCEPT !.config = c, !.past = r]
    BY <1>1, <1>7 DEF Trimmed
  <1>9. t = [generation |-> p.generation, config |-> c, past |-> r]
    BY <1>2, <1>8
  <1>10. t.generation = p.generation /\ t.config = c /\ t.past = r
    BY <1>9
  <1>11. t = [generation |-> t.generation, config |-> t.config, past |-> t.past]
    BY <1>9, <1>10
  <1> QED
    BY <1>3, <1>6, <1>7, <1>10, <1>11 DEF ProfileGood

(* What a profile has been through when its configuration is new.            *)
LEMMA PastIs ==
    ASSUME NEW v, NEW R
    PROVE  /\ PastGood(Past(v, R)) /\ Past(v, R).vetted = v /\ Past(v, R).recorded = R
           /\ Past(v, R).history = 0 /\ Past(v, R).autocomplete = 0
  <1>1. PICK q : q = Past(v, R)
    OBVIOUS
  <1>2. q = [vetted |-> v, history |-> 0, autocomplete |-> 0, recorded |-> R]
    BY <1>1 DEF Past
  <1>3. q.vetted = v /\ q.history = 0 /\ q.autocomplete = 0 /\ q.recorded = R
    BY <1>2
  <1>4. q = [vetted |-> q.vetted, history |-> q.history,
             autocomplete |-> q.autocomplete, recorded |-> q.recorded]
    BY <1>2, <1>3
  <1> QED
    BY <1>1, <1>3, <1>4 DEF PastGood

(* Every variant, and what a profile has by default, presents one browser.   *)
LEMMA VariantsAreCoherent ==
    /\ check_profile_consistency(ProfileConfig)
    /\ \A v \in ProfileVariant : check_profile_consistency(v)
  <1>1. check_profile_consistency(ProfileConfig)
    BY DEF check_profile_consistency, Foreign, Platforms, ProfileConfig, Identity
  <1>2. check_profile_consistency(ChromeDesktop)
    BY DEF check_profile_consistency, Foreign, Platforms, ChromeDesktop, Identity
  <1>3. check_profile_consistency(FirefoxDesktop)
    BY DEF check_profile_consistency, Foreign, Platforms, FirefoxDesktop, Identity
  <1>4. check_profile_consistency(SafariDesktop)
    BY DEF check_profile_consistency, Foreign, Platforms, SafariDesktop, Identity
  <1>5. check_profile_consistency(ChromeAndroid)
    BY DEF check_profile_consistency, Foreign, Platforms, ChromeAndroid, Identity
  <1>6. check_profile_consistency(SafariIos)
    BY DEF check_profile_consistency, Foreign, Platforms, SafariIos, Identity
  <1> QED
    BY <1>1, <1>2, <1>3, <1>4, <1>5, <1>6 DEF ProfileVariant

(* What the catalog holds by default.                                        *)
LEMMA CatalogIsCoherent ==
    \A f \in DOMAIN default_catalog_entries :
       check_profile_consistency(default_catalog_entries[f].identity)
  <1>1. \A f \in DOMAIN default_catalog_entries : default_catalog_entries[f].identity \in ProfileVariant
    BY DEF default_catalog_entries, Fingerprint, ProfileVariant
  <1> QED
    BY <1>1, VariantsAreCoherent

(* The two copies of the check agree.                                        *)
LEMMA ChecksAgree ==
    ASSUME NEW f, is_consistent(f)
    PROVE  check_profile_consistency(f.identity)
  BY DEF is_consistent, check_profile_consistency


(* retain keeps the other entries, and what was there once is there once.    *)
LEMMA OthersThanIs ==
    ASSUME NEW M, NEW R, NEW entries \in Seq(M), NEW entry, OfferedOnce(entries, R)
    PROVE  /\ OthersThan(entry, entries) \in Seq(M) /\ OfferedOnce(OthersThan(entry, entries), R)
           /\ \A i \in 1 .. Len(OthersThan(entry, entries)) : OthersThan(entry, entries)[i] # entry
           /\ Len(OthersThan(entry, entries)) <= Len(entries)
  <1> DEFINE n == Len(entries)
             S == Seq(M)
             Keeps(e, s) == IF e = entry THEN s ELSE Append(s, e)
             Made(g) == [i \in 0 .. n |-> IF i = 0 THEN << >> ELSE Keeps(entries[i], g[i - 1])]
             kept == CHOOSE g : g = Made(g)
             step == [p \in (1 .. n) \X S |-> Keeps(entries[p[1]], p[2])]
             Good(m, s) == /\ s \in Seq(M) /\ OfferedOnce(s, R) /\ Len(s) <= m
                           /\ \A i \in 1 .. Len(s) : s[i] # entry /\ \E k \in 1 .. m : s[i] = entries[k]
             P == {m \in 0 .. n : Good(m, kept[m])}
  <1>1. n \in Nat /\ DOMAIN entries = 1 .. n /\ \A i \in 1 .. n : entries[i] \in M
    BY LenProperties, ElementOfSeq
  <1>2. OthersThan(entry, entries) = kept[n]
    BY Zenon DEF OthersThan
  <1> HIDE DEF n
  <1>3. step \in [(1 .. n) \X S -> S] /\ << >> \in S
    <2>1. \A p \in (1 .. n) \X S : Keeps(entries[p[1]], p[2]) \in S
      BY <1>1
    <2> HIDE DEF Keeps, S
    <2>2. step \in [(1 .. n) \X S -> S]
      BY <2>1
    <2> QED
      BY <2>2 DEF S
  <1>4. PICK g \in [0 .. n -> S] : g[0] = << >> /\ \A i \in 1 .. n : g[i] = step[<<i, g[i - 1]>>]
    <2>1. n \in Nat /\ << >> \in S /\ StepsIn(n, S, step)
      BY <1>1, <1>3 DEF StepsIn
    <2> HIDE DEF S, step
    <2>2. PICK g : MadeBy(n, S, << >>, step, g)
      BY <2>1, RecursionExists
    <2> QED
      BY <2>2 DEF MadeBy
  <1> HIDE DEF S
  <1>5. g = Made(g)
    <2>1. \A i \in 0 .. n : i = 0 \/ (i \in 1 .. n /\ i - 1 \in 0 .. n)
      BY <1>1
    <2> HIDE DEF Keeps
    <2>2. \A i \in 1 .. n : i - 1 \in 0 .. n => g[i] = Keeps(entries[i], g[i - 1])
      BY <1>4
    <2> QED
      BY <1>4, <2>1, <2>2
  <1> HIDE DEF step
  <1>6. kept = Made(kept)
    <2> HIDE DEF Made
    <2> QED
      BY <1>5, Zenon
  <1> HIDE DEF kept
  <1>7. kept[0] = << >> /\ \A i \in 1 .. n : kept[i] = Keeps(entries[i], kept[i - 1])
    <2> HIDE DEF Keeps
    <2>1. PICK e : e = Made(kept)
      OBVIOUS
    <2>2. \A i \in 0 .. n : e[i] = IF i = 0 THEN << >> ELSE Keeps(entries[i], kept[i - 1])
      BY <2>1
    <2>3. e = kept
      BY <1>6, <2>1
    <2>4. 0 \in 0 .. n /\ \A i \in 1 .. n : i \in 0 .. n /\ i # 0
      BY <1>1
    <2> HIDE DEF Made
    <2> QED
      BY <2>2, <2>3, <2>4
  <1> HIDE DEF Made
  <1>8. 0 \in P
    <2>1. << >> \in Seq(M) /\ Len(<< >>) = 0 /\ 0 \in 0 .. n /\ 1 .. 0 = {} /\ DOMAIN << >> = {}
      BY <1>1
    <2>2. Good(0, << >>)
      BY <2>1 DEF OfferedOnce
    <2> HIDE DEF Good
    <2> QED
      BY <1>7, <2>1, <2>2
  <1>9. ASSUME NEW m \in 1 .. n, m - 1 \in P PROVE m \in P
    <2>1. PICK s, e : s = kept[m - 1] /\ e = entries[m]
      OBVIOUS
    <2>2. Good(m - 1, s) /\ m \in 0 .. n /\ e \in M /\ Len(s) \in Nat /\ s \in Seq(M)
      <3>1. Good(m - 1, s)
        BY <1>9, <2>1
      <3> QED
        BY <1>1, <2>1, <3>1, LenProperties
    <2>3. \A i : i \in 1 .. m <=> i \in 1 .. m - 1 \/ i = m
      OBVIOUS
    <2>4. CASE e = entry
      <3>1. kept[m] = s
        BY <1>7, <2>1, <2>4
      <3>2. Good(m, s)
        BY <2>2, <2>3
      <3> HIDE DEF Good
      <3> QED
        BY <2>2, <3>1, <3>2
    <2>5. CASE e # entry
      <3>1. PICK t : t = Append(s, e)
        OBVIOUS
      <3>2. kept[m] = t
        BY <1>7, <2>1, <2>5, <3>1
      <3>3. /\ t \in Seq(M) /\ Len(t) = Len(s) + 1 /\ t[Len(s) + 1] = e
            /\ \A i \in 1 .. Len(s) : t[i] = s[i]
        BY <2>2, <3>1, AppendProperties
      <3>4. \A i : i \in 1 .. Len(s) + 1 <=> i \in 1 .. Len(s) \/ i = Len(s) + 1
        BY <2>2
      <3>5. DOMAIN s = 1 .. Len(s) /\ DOMAIN t = 1 .. Len(s) + 1
        BY <2>2, <3>3, LenProperties
      <3>6. ASSUME NEW i \in 1 .. Len(t)
            PROVE  t[i] # entry /\ \E k \in 1 .. m : t[i] = entries[k]
        <4>1. CASE i \in 1 .. Len(s)
          BY <2>2, <2>3, <3>3, <4>1
        <4>2. CASE i = Len(s) + 1
          BY <2>1, <2>5, <3>3, <4>2
        <4> QED
          BY <3>3, <3>4, <4>1, <4>2
      <3>7. \A i \in 1 .. Len(s) : s[i] = e => e \notin R
        <4> SUFFICES ASSUME NEW i \in 1 .. Len(s), s[i] = e, e \in R PROVE FALSE
          OBVIOUS
        <4>1. PICK k \in 1 .. m - 1 : s[i] = entries[k]
          BY <2>2
        <4>2. k \in 1 .. n /\ k # m
          BY <1>1
        <4>3. entries[k] = entries[m] /\ entries[k] \in R
          BY <2>1, <4>1
        <4> QED
          BY <1>1, <4>2, <4>3 DEF OfferedOnce
      <3>8. OfferedOnce(t, R)
        <4> SUFFICES ASSUME NEW i \in 1 .. Len(s) + 1, NEW j \in 1 .. Len(s) + 1,
                            t[i] = t[j] /\ t[i] \in R
                     PROVE  i = j
          BY <3>5 DEF OfferedOnce
        <4>1. CASE i \in 1 .. Len(s) /\ j \in 1 .. Len(s)
          <5>1. s[i] = s[j] /\ s[i] \in R /\ OfferedOnce(s, R)
            BY <2>2, <3>3, <4>1
          <5> QED
            BY <3>5, <4>1, <5>1 DEF OfferedOnce
        <4>2. CASE i = Len(s) + 1 /\ j = Len(s) + 1
          BY <4>2
        <4>3. CASE i \in 1 .. Len(s) /\ j = Len(s) + 1
          BY <3>3, <3>7, <4>3
        <4>4. CASE j \in 1 .. Len(s) /\ i = Len(s) + 1
          BY <3>3, <3>7, <4>4
        <4> QED
          BY <3>4, <4>1, <4>2, <4>3, <4>4
      <3>9. Good(m, t)
        <4>1. Len(t) <= m
          BY <2>2, <3>3
        <4> QED
          BY <3>3, <3>6, <3>8, <4>1
      <3> HIDE DEF Good
      <3> QED
        BY <2>2, <3>2, <3>9
    <2> QED
      BY <2>4, <2>5
  <1>10. n \in P
    <2>1. n \in 0 .. n
      BY <1>1
    <2> HIDE DEF P
    <2> QED
      BY <1>1, <1>8, <1>9, <2>1, UpTo
  <1>11. Good(n, kept[n])
    BY <1>10
  <1> HIDE DEF P
  <1> QED
    BY <1>2, <1>11 DEF n

(* An entry that is recorded is the last one, and offered once from then on. *)
LEMMA RecordedOnce ==
    ASSUME NEW M, NEW R, NEW entries \in Seq(M), NEW entry \in M, OfferedOnce(entries, R)
    PROVE  /\ Append(OthersThan(entry, entries), entry) \in Seq(M)
           /\ OfferedOnce(Append(OthersThan(entry, entries), entry), R \cup {entry})
           /\ Len(Append(OthersThan(entry, entries), entry)) <= Len(entries) + 1
  <1>1. PICK s : s = OthersThan(entry, entries)
    OBVIOUS
  <1>2. /\ s \in Seq(M) /\ OfferedOnce(s, R) /\ Len(s) <= Len(entries)
        /\ \A i \in 1 .. Len(s) : s[i] # entry
    BY <1>1, OthersThanIs
  <1>3. PICK t : t = Append(s, entry)
    OBVIOUS
  <1>4. /\ t \in Seq(M) /\ Len(t) = Len(s) + 1 /\ t[Len(s) + 1] = entry
        /\ \A i \in 1 .. Len(s) : t[i] = s[i]
    BY <1>2, <1>3, AppendProperties
  <1>5. DOMAIN s = 1 .. Len(s) /\ DOMAIN t = 1 .. Len(s) + 1 /\ Len(s) \in Nat
    BY <1>2, <1>4, LenProperties
  <1>6. \A i : i \in 1 .. Len(s) + 1 <=> i \in 1 .. Len(s) \/ i = Len(s) + 1
    BY <1>5
  <1>7. OfferedOnce(t, R \cup {entry})
    <2> SUFFICES ASSUME NEW i \in 1 .. Len(s) + 1, NEW j \in 1 .. Len(s) + 1,
                        t[i] = t[j] /\ t[i] \in R \cup {entry}
                 PROVE  i = j
      BY <1>5 DEF OfferedOnce
    <2>1. CASE i \in 1 .. Len(s) /\ j \in 1 .. Len(s)
      <3>1. s[i] = s[j] /\ s[i] \in R
        BY <1>2, <1>4, <2>1
      <3> QED
        BY <1>2, <1>5, <2>1, <3>1 DEF OfferedOnce
    <2>2. CASE i = Len(s) + 1 /\ j = Len(s) + 1
      BY <2>2
    <2>3. CASE i \in 1 .. Len(s) /\ j = Len(s) + 1
      BY <1>2, <1>4, <2>3
    <2>4. CASE j \in 1 .. Len(s) /\ i = Len(s) + 1
      BY <1>2, <1>4, <2>4
    <2> QED
      BY <1>6, <2>1, <2>2, <2>3, <2>4
  <1>8. Len(t) <= Len(entries) + 1
    BY <1>2, <1>4, <1>5, LenProperties
  <1> QED
    BY <1>1, <1>3, <1>4, <1>7, <1>8

(* A profile gets a configuration (ProfileManager::update_config and the     *)
(* like).                                                                    *)
LEMMA ChangedKeeps ==
    ASSUME ManagerGood, NEW id, NEW c, NEW q, Changed(id, c, q),
           ConfigGood(c), PastGood(q), WithinLimits(c, q, limits), Fits(c, q)
    PROVE  ManagerGood'
  <1>1. PICK p : p = [generation |-> profiles[id].generation + 1, config |-> c, past |-> q]
    OBVIOUS
  <1>2. /\ id \in DOMAIN profiles /\ UNCHANGED <<selected, limits, profileFile, catalog>>
        /\ profiles' = [profiles EXCEPT ![id] = p]
    BY <1>1 DEF Changed
  <1>3. p.generation = profiles[id].generation + 1 /\ p.config = c /\ p.past = q
    BY <1>1
  <1>4. p = [generation |-> p.generation, config |-> p.config, past |-> p.past]
    BY <1>1, <1>3
  <1>5. ProfileGood(p) /\ WithinLimits(p.config, p.past, limits)
    BY <1>3, <1>4 DEF ProfileGood
  <1>6. /\ DOMAIN profiles' = DOMAIN profiles /\ profiles'[id] = p
        /\ \A i \in DOMAIN profiles : i # id => profiles'[i] = profiles[i]
    BY <1>2
  <1> QED
    BY <1>2, <1>5, <1>6 DEF ManagerGood

(* A new profile (ProfileManager::create and create_with_variant).           *)
LEMMA InsertKeeps ==
    ASSUME ManagerGood, NEW identity, check_profile_consistency(identity), Insert(identity)
    PROVE  ManagerGood'
  <1>1. PICK id \in ProfileIds \ DOMAIN profiles :
           /\ profiles' = [i \in DOMAIN profiles \cup {id} |-> IF i = id THEN Profile(identity) ELSE profiles[i]]
           /\ selected' = IF selected = {} THEN {id} ELSE selected
           /\ UNCHANGED <<limits, profileFile, catalog>>
    BY DEF Insert
  <1>2. PICK c : c = Config(identity, 0)
    OBVIOUS
  <1>3. PICK p : p = Profile(identity)
    OBVIOUS
  <1>4. PICK q : q = Past(TRUE, {})
    OBVIOUS
  <1>5. /\ c = [identity |-> identity, history |-> << >>, autocomplete |-> << >>, extensions |-> 0]
        /\ p = [generation |-> 0, config |-> c, past |-> q]
        /\ PastGood(q) /\ q.recorded = {} /\ q.history = 0 /\ q.autocomplete = 0
    BY <1>2, <1>3, <1>4, PastIs DEF Config, Profile
  <1>6. /\ c.identity = identity /\ c.history = << >> /\ c.autocomplete = << >> /\ c.extensions = 0
        /\ p.generation = 0 /\ p.config = c /\ p.past = q
        /\ << >> \in Seq(Visits) /\ Len(<< >>) = 0
    BY <1>5
  <1>7. limits.history \in Nat /\ limits.autocomplete \in Nat /\ limits.extensions \in Nat
    BY DEF ManagerGood, ProfileLimits
  <1>8. ConfigGood(c) /\ WithinLimits(c, q, limits) /\ Fits(c, q)
    <2>1. c = [identity |-> c.identity, history |-> c.history,
               autocomplete |-> c.autocomplete, extensions |-> c.extensions]
      BY <1>5, <1>6
    <2>2. ConfigGood(c)
      BY <1>6, <2>1 DEF ConfigGood
    <2>3. WithinLimits(c, q, limits)
      BY <1>5, <1>6, <1>7 DEF WithinLimits
    <2>4. Fits(c, q)
      BY <1>5, <1>6 DEF Fits, OfferedOnce
    <2> QED
      BY <2>2, <2>3, <2>4
  <1>9. ProfileGood(p) /\ WithinLimits(p.config, p.past, limits)
    <2>1. p = [generation |-> p.generation, config |-> p.config, past |-> p.past]
      BY <1>5, <1>6
    <2> QED
      BY <1>5, <1>6, <1>8, <2>1 DEF ProfileGood
  <1>10. /\ DOMAIN profiles' = DOMAIN profiles \cup {id} /\ profiles'[id] = p
         /\ \A i \in DOMAIN profiles : profiles'[i] = profiles[i]
    BY <1>1, <1>3
  <1> QED
    BY <1>1, <1>9, <1>10 DEF ManagerGood

(* Other limits are enforced at once (ProfileManager::set_limits).           *)
LEMMA LimitsKeep ==
    ASSUME ManagerGood, NEW l \in LimitChoices, set_limits(l)
    PROVE  ManagerGood'
  <1>1. l \in ProfileLimits
    BY ProfilesAssumption DEF ProfilesAssumption
  <1>2. /\ limits' = l /\ UNCHANGED <<selected, profileFile, catalog>>
        /\ profiles' = [id \in DOMAIN profiles |-> Trimmed(profiles[id], l)]
    BY DEF set_limits
  <1>3. ASSUME NEW id \in DOMAIN profiles
        PROVE  /\ ProfileGood(profiles'[id])
               /\ WithinLimits(profiles'[id].config, profiles'[id].past, l)
    <2>1. ProfileGood(profiles[id]) /\ profiles'[id] = Trimmed(profiles[id], l)
      BY <1>2 DEF ManagerGood
    <2> QED
      BY <1>1, <2>1, TrimmedIs
  <1>4. DOMAIN profiles' = DOMAIN profiles /\ profiles' = [id \in DOMAIN profiles' |-> profiles'[id]]
    BY <1>2
  <1>5. DOMAIN profiles' = {} => profiles' = << >>
    <2>1. PICK f : f = profiles'
      OBVIOUS
    <2> QED
      BY <1>4, <2>1, NoArguments
  <1> QED
    BY <1>1, <1>2, <1>3, <1>4, <1>5 DEF ManagerGood

(* A profile goes, and another is selected if there is one                   *)
(* (ProfileManager::delete).                                                 *)
LEMMA DeleteKeeps ==
    ASSUME ManagerGood, NEW id, delete_profile(id)
    PROVE  ManagerGood'
  <1> DEFINE rest == DOMAIN profiles \ {id}
  <1>1. /\ id \in DOMAIN profiles /\ UNCHANGED <<limits, profileFile, catalog>>
        /\ profiles' = Restrict(profiles, rest)
        /\ selected' = IF selected = {id} THEN First(rest) ELSE selected
    BY DEF delete_profile
  <1>2. profiles' = [i \in rest |-> profiles[i]]
    BY <1>1 DEF Restrict
  <1>3. DOMAIN profiles' = rest /\ \A i \in rest : profiles'[i] = profiles[i]
    BY <1>2
  <1>4. profiles' = [i \in DOMAIN profiles' |-> profiles'[i]]
    BY <1>2
  <1>5. DOMAIN profiles' = {} => profiles' = << >>
    <2>1. PICK f : f = profiles'
      OBVIOUS
    <2> QED
      BY <1>4, <2>1, NoArguments
  <1>6. First(rest) \subseteq rest /\ (First(rest) = {} => rest = {})
        /\ First(rest) \in {{}} \cup {{i} : i \in ProfileIds}
    <2>1. CASE rest = {}
      BY <2>1 DEF First
    <2>2. CASE rest # {}
      <3>1. rest \subseteq Nat /\ rest \subseteq ProfileIds
        BY ProfilesAssumption DEF ProfilesAssumption, ManagerGood
      <3> HIDE DEF rest
      <3>2. Min(rest) \in rest
        BY <2>2, <3>1, LeastNatural
      <3>3. First(rest) = {Min(rest)}
        BY <2>2 DEF First
      <3> QED
        BY <3>1, <3>2, <3>3
    <2> QED
      BY <2>1, <2>2
  <1>7. /\ selected' \in {{}} \cup {{i} : i \in ProfileIds}
        /\ selected' \subseteq rest /\ (selected' = {} => rest = {})
    <2>1. /\ selected \in {{}} \cup {{i} : i \in ProfileIds} /\ selected \subseteq DOMAIN profiles
          /\ (selected = {} => DOMAIN profiles = {})
      BY DEF ManagerGood
    <2>2. CASE selected = {id}
      BY <1>1, <1>6, <2>2
    <2>3. CASE selected # {id}
      <3>1. id \notin selected /\ selected' = selected /\ selected # {}
        BY <1>1, <2>1, <2>3
      <3> QED
        BY <2>1, <3>1
    <2> QED
      BY <2>2, <2>3
  <1> HIDE DEF rest
  <1>8. \A i \in rest : i \in DOMAIN profiles
    BY DEF rest
  <1> QED
    BY <1>1, <1>3, <1>5, <1>7, <1>8 DEF ManagerGood

(* The newest of a list that got one entry more, with the number of entries  *)
(* on top of the limit.                                                      *)
LEMMA RecordedWithin ==
    ASSUME NEW S, NEW s \in Seq(S), NEW l \in Nat, NEW k \in Nat, NEW b \in Nat,
           l = 0 \/ Len(s) <= l + k + 1
    PROVE  /\ Newest(s, Min({b, l})) \in Seq(S) /\ Untrimmed(k, b) \in Nat
           /\ l = 0 \/ Len(Newest(s, Min({b, l}))) <= l + Untrimmed(k, b)
           /\ \A R : OfferedOnce(s, R) => OfferedOnce(Newest(s, Min({b, l})), R)
  <1>1. PICK m : m = Min({b, l})
    OBVIOUS
  <1>2. m \in {b, l} /\ m <= b /\ m <= l
    BY <1>1, SmallerOf
  <1>3. PICK t : t = Newest(s, m)
    OBVIOUS
  <1>4. /\ t \in Seq(S) /\ (m = 0 \/ Len(t) <= m)
        /\ \A R : OfferedOnce(s, R) => OfferedOnce(t, R)
    BY <1>2, <1>3, NewestIs
  <1>5. Len(t) \in Nat /\ Len(s) \in Nat
    BY <1>4, LenProperties
  <1>6. PICK u : u = Untrimmed(k, b)
    OBVIOUS
  <1>7. u = IF b = 0 THEN k + 1 ELSE 0
    BY <1>6 DEF Untrimmed
  <1>8. m = 0 => t = s
    BY <1>3 DEF Newest
  <1>9. u \in Nat /\ (l = 0 \/ Len(t) <= l + u)
    BY <1>2, <1>4, <1>5, <1>7, <1>8
  <1> QED
    BY <1>1, <1>3, <1>4, <1>6, <1>9, Zenon

(* Visits and entries are recorded (record_history, record_autocomplete).    *)
LEMMA RecordingKeeps ==
    ASSUME ManagerGood, NEW id, NEW v \in Visits, NEW b \in Bounds,
           record_history(id, v, b) \/ record_autocomplete(id, v, b)
    PROVE  ManagerGood'
  <1>1. PICK p, c, q : p = profiles[id] /\ c = p.config /\ q = p.past
    OBVIOUS
  <1>2. id \in DOMAIN profiles
    BY DEF record_history, record_autocomplete
  <1>3. /\ ConfigGood(c) /\ PastGood(q) /\ Fits(c, q) /\ WithinLimits(c, q, limits)
        /\ limits \in ProfileLimits
    BY <1>1, <1>2 DEF ManagerGood, ProfileGood
  <1>4. /\ c = [identity |-> c.identity, history |-> c.history,
                autocomplete |-> c.autocomplete, extensions |-> c.extensions]
        /\ c.history \in Seq(Visits) /\ c.autocomplete \in Seq(Visits) /\ c.extensions \in Nat
        /\ OfferedOnce(c.autocomplete, q.recorded)
        /\ q.vetted => check_profile_consistency(c.identity)
    BY <1>3 DEF ConfigGood, Fits
  <1>5. /\ q = [vetted |-> q.vetted, history |-> q.history,
                autocomplete |-> q.autocomplete, recorded |-> q.recorded]
        /\ q.history \in Nat /\ q.autocomplete \in Nat
    BY <1>3 DEF PastGood
  <1>6. b \in Nat /\ limits.history \in Nat /\ limits.autocomplete \in Nat /\ limits.extensions \in Nat
    BY <1>3, ProfilesAssumption DEF ProfilesAssumption, ProfileLimits
  <1>7. /\ limits.history = 0 \/ Len(c.history) <= limits.history + q.history
        /\ limits.autocomplete = 0 \/ Len(c.autocomplete) <= limits.autocomplete + q.autocomplete
        /\ limits.extensions = 0 \/ c.extensions <= limits.extensions
    BY <1>3 DEF WithinLimits
  <1>8. CASE record_history(id, v, b)
    <2>1. PICK s : s = Append(c.history, v)
      OBVIOUS
    <2>2. s \in Seq(Visits) /\ Len(s) = Len(c.history) + 1 /\ Len(c.history) \in Nat
      BY <1>4, <2>1, AppendProperties, LenProperties
    <2>3. limits.history = 0 \/ Len(s) <= limits.history + q.history + 1
      BY <1>5, <1>6, <1>7, <2>2
    <2>4. PICK h, u : h = Newest(s, Min({b, limits.history})) /\ u = Untrimmed(q.history, b)
      OBVIOUS
    <2>5. h \in Seq(Visits) /\ u \in Nat /\ (limits.history = 0 \/ Len(h) <= limits.history + u)
      BY <1>5, <1>6, <2>2, <2>3, <2>4, RecordedWithin
    <2>6. PICK d, r : d = [c EXCEPT !.history = h] /\ r = [q EXCEPT !.history = u]
      OBVIOUS
    <2>7. Changed(id, d, r)
      BY <1>1, <1>8, <2>1, <2>4, <2>6 DEF record_history
    <2>8. /\ d = [identity |-> c.identity, history |-> h,
                  autocomplete |-> c.autocomplete, extensions |-> c.extensions]
          /\ r = [vetted |-> q.vetted, history |-> u,
                  autocomplete |-> q.autocomplete, recorded |-> q.recorded]
      BY <1>4, <1>5, <2>6
    <2>9. /\ d.identity = c.identity /\ d.history = h /\ d.autocomplete = c.autocomplete
          /\ d.extensions = c.extensions
          /\ r.vetted = q.vetted /\ r.history = u /\ r.autocomplete = q.autocomplete
          /\ r.recorded = q.recorded
      BY <2>8
    <2>10. /\ d = [identity |-> d.identity, history |-> d.history,
                   autocomplete |-> d.autocomplete, extensions |-> d.extensions]
           /\ r = [vetted |-> r.vetted, history |-> r.history,
                   autocomplete |-> r.autocomplete, recorded |-> r.recorded]
      BY <2>8, <2>9
    <2>11. ConfigGood(d) /\ PastGood(r)
      BY <1>4, <1>5, <2>5, <2>9, <2>10 DEF ConfigGood, PastGood
    <2>12. WithinLimits(d, r, limits) /\ Fits(d, r)
      BY <1>4, <1>7, <2>5, <2>9 DEF WithinLimits, Fits
    <2> QED
      BY <2>7, <2>11, <2>12, ChangedKeeps
  <1>9. CASE record_autocomplete(id, v, b)
    <2>1. PICK s, R : s = Append(OthersThan(v, c.autocomplete), v) /\ R = q.recorded \cup {v}
      OBVIOUS
    <2>2. s \in Seq(Visits) /\ OfferedOnce(s, R) /\ Len(s) <= Len(c.autocomplete) + 1
      BY <1>4, <2>1, RecordedOnce
    <2>3. limits.autocomplete = 0 \/ Len(s) <= limits.autocomplete + q.autocomplete + 1
      <3>1. Len(s) \in Nat /\ Len(c.autocomplete) \in Nat
        BY <1>4, <2>2, LenProperties
      <3> QED
        BY <1>5, <1>6, <1>7, <2>2, <3>1
    <2>4. PICK a, u : a = Newest(s, Min({b, limits.autocomplete})) /\ u = Untrimmed(q.autocomplete, b)
      OBVIOUS
    <2>5. /\ a \in Seq(Visits) /\ u \in Nat /\ OfferedOnce(a, R)
          /\ limits.autocomplete = 0 \/ Len(a) <= limits.autocomplete + u
      BY <1>5, <1>6, <2>2, <2>3, <2>4, RecordedWithin
    <2>6. PICK d, r : /\ d = [c EXCEPT !.autocomplete = a]
                      /\ r = [q EXCEPT !.autocomplete = u, !.recorded = R]
      OBVIOUS
    <2>7. Changed(id, d, r)
      BY <1>1, <1>9, <2>1, <2>4, <2>6 DEF record_autocomplete
    <2>8. /\ d = [identity |-> c.identity, history |-> c.history,
                  autocomplete |-> a, extensions |-> c.extensions]
          /\ r = [vetted |-> q.vetted, history |-> q.history, autocomplete |-> u, recorded |-> R]
      BY <1>4, <1>5, <2>6
    <2>9. /\ d.identity = c.identity /\ d.history = c.history /\ d.autocomplete = a
          /\ d.extensions = c.extensions
          /\ r.vetted = q.vetted /\ r.history = q.history /\ r.autocomplete = u /\ r.recorded = R
      BY <2>8
    <2>10. /\ d = [identity |-> d.identity, history |-> d.history,
                   autocomplete |-> d.autocomplete, extensions |-> d.extensions]
           /\ r = [vetted |-> r.vetted, history |-> r.history,
                   autocomplete |-> r.autocomplete, recorded |-> r.recorded]
      BY <2>8, <2>9
    <2>11. ConfigGood(d) /\ PastGood(r)
      BY <1>4, <1>5, <2>5, <2>9, <2>10 DEF ConfigGood, PastGood
    <2>12. WithinLimits(d, r, limits) /\ Fits(d, r)
      BY <1>4, <1>7, <2>5, <2>9 DEF WithinLimits, Fits
    <2> QED
      BY <2>7, <2>11, <2>12, ChangedKeeps
  <1> QED
    BY <1>8, <1>9

(* A host writes a configuration, or a fingerprint is applied                *)
(* (update_config, try_update_config, apply_fingerprint).                    *)
LEMMA UpdatesKeep ==
    ASSUME ManagerGood, NEW id
    PROVE  /\ \A c \in Given : update_config(id, c) \/ try_update_config(id, c) => ManagerGood'
           /\ \A f \in Applied : apply_fingerprint(id, f) => ManagerGood'
  <1>1. limits \in ProfileLimits
    BY DEF ManagerGood
  <1>2. \A c \in Given : ConfigGood(c)
    BY ProfilesAssumption DEF ProfilesAssumption, ConfigGood
  <1>3. ASSUME NEW c, ConfigGood(c), update_config(id, c) PROVE ManagerGood'
    <2>1. PICK d : d = normalize_config(c, limits)
      OBVIOUS
    <2>2. PICK q : q = Past(FALSE, {})
      OBVIOUS
    <2>3. ConfigGood(d) /\ WithinLimits(d, q, limits) /\ PastGood(q) /\ Fits(d, q)
      <3>1. q.vetted = FALSE /\ q.recorded = {} /\ PastGood(q)
        BY <2>2, PastIs
      <3>2. Fits(d, q)
        BY <3>1 DEF Fits, OfferedOnce
      <3> QED
        BY <1>1, <1>3, <2>1, <2>2, <3>1, <3>2, NormalizedIs
    <2>4. Changed(id, d, q)
      BY <1>3, <2>1, <2>2 DEF update_config
    <2> QED
      BY <2>3, <2>4, ChangedKeeps
  <1>4. ASSUME NEW c, ConfigGood(c), try_update_config(id, c) PROVE ManagerGood'
    <2>1. PICK d : d = normalize_config(c, limits)
      OBVIOUS
    <2>2. PICK q : q = Past(TRUE, {})
      OBVIOUS
    <2>3. Changed(id, d, q) /\ check_profile_consistency(c.identity)
      BY <1>4, <2>1, <2>2 DEF try_update_config
    <2>4. ConfigGood(d) /\ WithinLimits(d, q, limits) /\ PastGood(q) /\ Fits(d, q)
      <3>1. q.vetted = TRUE /\ q.recorded = {} /\ PastGood(q)
        BY <2>2, PastIs
      <3>2. ConfigGood(d) /\ WithinLimits(d, q, limits) /\ d.identity = c.identity
        BY <1>1, <1>4, <2>1, <2>2, NormalizedIs
      <3>3. Fits(d, q)
        BY <2>3, <3>1, <3>2 DEF Fits, OfferedOnce
      <3> QED
        BY <3>1, <3>2, <3>3
    <2> QED
      BY <2>3, <2>4, ChangedKeeps
  <1>5. ASSUME NEW f, apply_fingerprint(id, f) PROVE ManagerGood'
    <2>1. PICK c : c = Config(catalog[f].identity, 0)
      OBVIOUS
    <2>2. try_update_config(id, c)
      BY <1>5, <2>1 DEF apply_fingerprint
    <2>3. /\ c = [identity |-> catalog[f].identity, history |-> << >>, autocomplete |-> << >>,
                  extensions |-> 0]
      BY <2>1 DEF Config
    <2>4. c.identity = catalog[f].identity /\ c.history = << >> /\ c.autocomplete = << >> /\ c.extensions = 0
      BY <2>3
    <2>5. << >> \in Seq(Visits)
      OBVIOUS
    <2>6. c = [identity |-> c.identity, history |-> c.history,
               autocomplete |-> c.autocomplete, extensions |-> c.extensions]
      BY <2>3, <2>4
    <2>7. ConfigGood(c)
      BY <2>4, <2>5, <2>6 DEF ConfigGood
    <2> QED
      BY <1>4, <2>2, <2>7
  <1> QED
    BY <1>2, <1>3, <1>4, <1>5

(* The manager is written to a file (ProfileManager::to_json).               *)
LEMMA SavingKeeps ==
    ASSUME ManagerGood, save_profiles
    PROVE  ManagerGood'
  <1>1. /\ UNCHANGED <<profiles, selected, limits, catalog>>
        /\ profileFile' = [version |-> 2, profiles |-> profiles, selected |-> selected, limits |-> limits]
    BY DEF save_profiles
  <1>2. /\ profileFile'.version = 2 /\ profileFile'.profiles = profiles
        /\ profileFile'.selected = selected /\ profileFile'.limits = limits
    BY <1>1
  <1>3. FileGood(profileFile')
    BY <1>2 DEF FileGood, ManagerGood
  <1> QED
    BY <1>1, <1>3 DEF ManagerGood

(* A file is read, an old one migrated, and brought within its own limits    *)
(* (ProfileManager::from_json, migrate_v1_to_v2).                            *)
LEMMA RestoringKeeps ==
    ASSUME ManagerGood, restore_profiles
    PROVE  ManagerGood'
  <1> DEFINE w == profileFile
             ids == DOMAIN w.profiles
             Migrated(p) == IF w.version < 2
                            THEN [p EXCEPT !.config.identity = migrate_v1_to_v2(@)] ELSE p
  <1>1. /\ w.version \in Nat /\ w.limits \in ProfileLimits
        /\ w.selected \in {{}} \cup {{id} : id \in ProfileIds} /\ ids \subseteq ProfileIds
        /\ \A id \in ids : ProfileGood(w.profiles[id]) /\ (w.version < 2 => w.profiles[id].past.vetted = FALSE)
    BY DEF ManagerGood, FileGood
  <1>2. /\ profiles' = [id \in ids |-> Trimmed(Migrated(w.profiles[id]), w.limits)]
        /\ selected' = IF w.selected \cap ids # {} THEN w.selected ELSE First(ids)
        /\ limits' = w.limits /\ UNCHANGED <<profileFile, catalog>>
    BY DEF restore_profiles
  <1>3. ASSUME NEW id \in ids
        PROVE  /\ ProfileGood(profiles'[id])
               /\ WithinLimits(profiles'[id].config, profiles'[id].past, w.limits)
    <2>1. PICK p, m, l : p = w.profiles[id] /\ m = Migrated(p) /\ l = w.limits
      OBVIOUS
    <2>2. ProfileGood(p) /\ (w.version < 2 => p.past.vetted = FALSE) /\ l \in ProfileLimits
      BY <1>1, <2>1
    <2>3. /\ p = [generation |-> p.generation, config |-> p.config, past |-> p.past]
          /\ ConfigGood(p.config) /\ PastGood(p.past) /\ Fits(p.config, p.past)
      BY <2>2 DEF ProfileGood
    <2>4. ProfileGood(m)
      <3>1. CASE w.version < 2
        <4>1. PICK i, q : i = migrate_v1_to_v2(p.config.identity) /\ q = p.config
          OBVIOUS
        <4>2. /\ q = [identity |-> q.identity, history |-> q.history,
                      autocomplete |-> q.autocomplete, extensions |-> q.extensions]
              /\ q.history \in Seq(Visits) /\ q.autocomplete \in Seq(Visits) /\ q.extensions \in Nat
          BY <2>3, <4>1 DEF ConfigGood
        <4>3. PICK d : d = [q EXCEPT !.identity = i]
          OBVIOUS
        <4>4. m = [p EXCEPT !.config = d]
          BY <2>1, <2>3, <3>1, <4>1, <4>3
        <4>5. m = [generation |-> p.generation, config |-> d, past |-> p.past]
          BY <2>3, <4>4
        <4>6. d = [identity |-> i, history |-> q.history,
                   autocomplete |-> q.autocomplete, extensions |-> q.extensions]
          BY <4>2, <4>3
        <4>7. d.history = q.history /\ d.autocomplete = q.autocomplete /\ d.extensions = q.extensions
              /\ d.identity = i
          BY <4>6
        <4>8. d = [identity |-> d.identity, history |-> d.history,
                   autocomplete |-> d.autocomplete, extensions |-> d.extensions]
          BY <4>6, <4>7
        <4>9. ConfigGood(d) /\ Fits(d, p.past)
          BY <2>2, <2>3, <3>1, <4>1, <4>2, <4>7, <4>8 DEF ConfigGood, Fits
        <4>10. m.generation = p.generation /\ m.config = d /\ m.past = p.past
          BY <4>5
        <4>11. m = [generation |-> m.generation, config |-> m.config, past |-> m.past]
          BY <4>5, <4>10
        <4> QED
          BY <2>3, <4>9, <4>10, <4>11 DEF ProfileGood
      <3>2. CASE ~(w.version < 2)
        BY <2>1, <2>2, <3>2
      <3> QED
        BY <3>1, <3>2
    <2>5. profiles'[id] = Trimmed(m, l)
      BY <1>2, <2>1
    <2> QED
      BY <2>1, <2>2, <2>4, <2>5, TrimmedIs
  <1>4. DOMAIN profiles' = ids /\ profiles' = [id \in DOMAIN profiles' |-> profiles'[id]]
    BY <1>2
  <1>5. DOMAIN profiles' = {} => profiles' = << >>
    <2>1. PICK f : f = profiles'
      OBVIOUS
    <2> QED
      BY <1>4, <2>1, NoArguments
  <1>6. First(ids) \subseteq ids /\ (First(ids) = {} => ids = {})
        /\ First(ids) \in {{}} \cup {{i} : i \in ProfileIds}
    <2>1. CASE ids = {}
      BY <2>1 DEF First
    <2>2. CASE ids # {}
      <3>1. ids \subseteq Nat /\ ids \subseteq ProfileIds
        BY <1>1, ProfilesAssumption DEF ProfilesAssumption
      <3> HIDE DEF ids
      <3>2. Min(ids) \in ids
        BY <2>2, <3>1, LeastNatural
      <3>3. First(ids) = {Min(ids)}
        BY <2>2 DEF First
      <3> QED
        BY <3>1, <3>2, <3>3
    <2> QED
      BY <2>1, <2>2
  <1>7. /\ selected' \in {{}} \cup {{i} : i \in ProfileIds}
        /\ selected' \subseteq ids /\ (selected' = {} => ids = {})
    <2> HIDE DEF ids, w
    <2>1. CASE w.selected \cap ids # {}
      BY <1>1, <1>2, <2>1
    <2>2. CASE ~(w.selected \cap ids # {})
      BY <1>2, <1>6, <2>2
    <2> QED
      BY <2>1, <2>2
  <1>8. profileFile' = profileFile /\ catalog' = catalog /\ limits' \in ProfileLimits
    BY <1>1, <1>2
  <1> HIDE DEF ids
  <1> QED
    BY <1>1, <1>2, <1>3, <1>4, <1>5, <1>7, <1>8 DEF ManagerGood

(* Any step of the profiles.                                                 *)
LEMMA ProfileSteps == ManagerGood /\ [Next]_vars => ManagerGood'
  <1> SUFFICES ASSUME ManagerGood, [Next]_vars PROVE ManagerGood'
    OBVIOUS
  <1>1. CASE UNCHANGED profileVars
    BY <1>1 DEF profileVars, ManagerGood
  <1>2. CASE ProfilesNext
    <2>1. CASE create_profile \/ try_create
      BY <2>1, VariantsAreCoherent, InsertKeeps DEF create_profile, try_create
    <2>2. CASE \E v \in Variants \cap ProfileVariant : create_with_variant(v)
      BY <2>2, VariantsAreCoherent, InsertKeeps DEF create_with_variant
    <2>3. CASE \E l \in LimitChoices : set_limits(l)
      BY <2>3, LimitsKeep
    <2>4. ASSUME NEW id \in ProfileIds, delete_profile(id) PROVE ManagerGood'
      BY <2>4, DeleteKeeps
    <2>5. ASSUME NEW id \in ProfileIds, select(id) PROVE ManagerGood'
      BY <2>5 DEF select, ManagerGood
    <2>6. ASSUME NEW id \in ProfileIds,
                 \/ \E c \in Given : update_config(id, c) \/ try_update_config(id, c)
                 \/ \E f \in Applied : apply_fingerprint(id, f)
          PROVE  ManagerGood'
      BY <2>6, UpdatesKeep
    <2>7. ASSUME NEW id \in ProfileIds, NEW v \in Visits, NEW b \in Bounds,
                 record_history(id, v, b) \/ record_autocomplete(id, v, b)
          PROVE  ManagerGood'
      BY <2>7, RecordingKeeps
    <2>8. ASSUME NEW f \in Offered, insert_fingerprint("host", f) PROVE ManagerGood'
      <3>1. /\ UNCHANGED <<profiles, selected, limits, profileFile>> /\ check_profile_consistency(f.identity)
            /\ catalog' = [x \in DOMAIN catalog \cup {"host"} |-> IF x = "host" THEN f ELSE catalog[x]]
        BY <2>8, ChecksAgree DEF insert_fingerprint
      <3>2. \A x \in DOMAIN catalog' : check_profile_consistency(catalog'[x].identity)
        BY <3>1 DEF ManagerGood
      <3> QED
        BY <3>1, <3>2 DEF ManagerGood
    <2>9. CASE save_profiles \/ restore_profiles
      BY <2>9, SavingKeeps, RestoringKeeps
    <2> QED
      BY <1>2, <2>1, <2>2, <2>3, <2>4, <2>5, <2>6, <2>7, <2>8, <2>9 DEF ProfilesNext
  <1> QED
    BY <1>1, <1>2 DEF Next, vars

(* An empty manager, the default catalog, and the file that is there.        *)
LEMMA ProfilesInitially == Init => ManagerGood
  <1> SUFFICES ASSUME Init PROVE ManagerGood
    OBVIOUS
  <1>1. /\ profiles = << >> /\ selected = {} /\ limits = DefaultLimits /\ profileFile = OldFile
        /\ catalog = default_catalog_entries
    BY DEF Init, ProfilesInit
  <1>2. FileGood(OldFile)
    <2>1. ASSUME NEW id \in DOMAIN OldFile.profiles
          PROVE  ProfileGood(OldFile.profiles[id]) /\ OldFile.profiles[id].past.vetted = FALSE
      <3>1. PICK p : p = OldFile.profiles[id]
        OBVIOUS
      <3>2. PICK q : q = Past(FALSE, {})
        OBVIOUS
      <3>3. ConfigGood(p.config)
        BY <3>1, ProfilesAssumption DEF ProfilesAssumption, ConfigGood
      <3>4. p = [generation |-> p.generation, config |-> p.config, past |-> q] /\ p.past = q
        <4>1. p = [generation |-> p.generation, config |-> p.config, past |-> Past(FALSE, {})]
          BY <3>1, ProfilesAssumption DEF ProfilesAssumption
        <4>2. p = [generation |-> p.generation, config |-> p.config, past |-> q]
          BY <3>2, <4>1, Zenon
        <4> QED
          BY <4>2
      <3>5. PastGood(q) /\ q.vetted = FALSE /\ q.recorded = {}
        BY <3>2, PastIs
      <3>6. Fits(p.config, q)
        BY <3>5 DEF Fits, OfferedOnce
      <3> QED
        BY <3>1, <3>3, <3>4, <3>5, <3>6 DEF ProfileGood
    <2> QED
      BY <2>1, ProfilesAssumption DEF ProfilesAssumption, FileGood
  <1>3. DefaultLimits \in ProfileLimits /\ DOMAIN << >> = {}
    BY ProfilesAssumption DEF ProfilesAssumption
  <1> QED
    BY <1>1, <1>2, <1>3, CatalogIsCoherent DEF ManagerGood

(* A profile manager is in order after any calls, saves and migrations: some *)
(* profile is selected while there is one, none keeps more than the limits   *)
(* allow but for what was recorded with no bound since, no entry that was    *)
(* recorded is offered twice, and what only checked calls have written       *)
(* presents one browser (ProfileManager and FingerprintCatalog), for any     *)
(* limits, profiles, configurations and files.                               *)
THEOREM ProfilesAlwaysHold == Spec => []ProfilesHold
  <1>1. ManagerGood => ProfilesHold
    <2> SUFFICES ASSUME ManagerGood PROVE ProfilesHold
      OBVIOUS
    <2>1. ASSUME NEW id \in DOMAIN profiles
          PROVE  /\ WithinLimits(profiles[id].config, profiles[id].past, limits)
                 /\ OfferedOnce(profiles[id].config.autocomplete, profiles[id].past.recorded)
      BY DEF ManagerGood, ProfileGood, Fits
    <2>2. LimitsAndSelectionHold
      BY <2>1 DEF LimitsAndSelectionHold, ManagerGood
    <2>3. CheckedIdentitiesAreCoherent
      BY DEF CheckedIdentitiesAreCoherent, ManagerGood, ProfileGood, Fits
    <2> QED
      BY <2>2, <2>3 DEF ProfilesHold
  <1> QED
    BY <1>1, ProfilesInitially, ProfileSteps, PTL DEF Spec

-----------------------------------------------------------------------------
(* What a profile's stores hold (ProfileStores) *)

(* A function made over the parts of a set by taking an element at a time.   *)
Folding(step, base, S, g) ==
    [s \in SUBSET S |-> IF s = {} THEN base
                        ELSE LET x == CHOOSE y \in s : TRUE IN step[<<x, g[s \ {x}]>>]]

(* The steps of a fold over S that stay in V.                                *)
FoldsIn(S, V, step) == step \in [S \X V -> V]

(* The function g makes them.                                                *)
FoldedBy(S, V, base, step, g) == g \in [SUBSET S -> V] /\ g = Folding(step, base, S, g)

(* The element that a fold takes first leaves a part that is one smaller.    *)
LEMMA FirstTaken ==
    ASSUME NEW S, IsFiniteSet(S), NEW s \in SUBSET S, s # {}
    PROVE  LET x == CHOOSE y \in s : TRUE
           IN /\ x \in s /\ x \in S /\ s \ {x} \in SUBSET S
              /\ Cardinality(s) \in Nat \ {0} /\ Cardinality(s \ {x}) = Cardinality(s) - 1
  <1> DEFINE x == CHOOSE y \in s : TRUE
  <1>1. x \in s
    OBVIOUS
  <1> HIDE DEF x
  <1>2. IsFiniteSet(s)
    BY FS_Subset
  <1>3. Cardinality(s \ {x}) = Cardinality(s) - 1 /\ Cardinality(s) \in Nat /\ Cardinality(s) # 0
    BY <1>1, <1>2, FS_RemoveElement, FS_CardinalityType, FS_EmptySet
  <1> QED
    BY <1>1, <1>3 DEF x

(* What the empty part has, and every part has that loses it with none of    *)
(* its elements, every part of a finite set has: P is a set of parts.        *)
LEMMA PartByPart ==
    ASSUME NEW S, IsFiniteSet(S), NEW P, {} \in P,
           \A s \in SUBSET S : s # {} /\ (\A x \in s : s \ {x} \in P) => s \in P
    PROVE  \A s \in SUBSET S : s \in P
  <1> DEFINE T == {Cardinality(s) : s \in (SUBSET S) \ P}
  <1> SUFFICES ASSUME T # {} PROVE FALSE
    OBVIOUS
  <1>1. \A s \in SUBSET S : IsFiniteSet(s) /\ Cardinality(s) \in Nat
    BY FS_Subset, FS_CardinalityType
  <1>2. PICK least \in T : \A n \in T : least <= n
    <2>1. T \subseteq Nat
      BY <1>1
    <2> HIDE DEF T
    <2> QED
      BY <2>1, LeastNumber
  <1>3. PICK s \in SUBSET S : s \notin P /\ Cardinality(s) = least
    BY <1>2
  <1>4. PICK x \in s : s \ {x} \notin P
    BY <1>3
  <1>5. Cardinality(s \ {x}) = Cardinality(s) - 1 /\ Cardinality(s) \in Nat
    BY <1>1, FS_RemoveElement
  <1>6. Cardinality(s \ {x}) \in T
    BY <1>4
  <1> HIDE DEF T
  <1>7. Cardinality(s) <= Cardinality(s \ {x})
    BY <1>2, <1>3, <1>6
  <1> QED
    BY <1>5, <1>7

(* A fold over a finite set whose steps stay in a set has a function.        *)
LEMMA FoldExists ==
    ASSUME NEW S, IsFiniteSet(S), NEW V, NEW base \in V, NEW step, FoldsIn(S, V, step)
    PROVE  \E g : FoldedBy(S, V, base, step, g)
  <1> DEFINE Size == Cardinality(S)
             Grow == [p \in (1 .. Size) \X [SUBSET S -> V] |-> Folding(step, base, S, p[2])]
  <1>1. \A h \in [SUBSET S -> V] : Folding(step, base, S, h) \in [SUBSET S -> V]
    <2> SUFFICES ASSUME NEW h \in [SUBSET S -> V], NEW s \in SUBSET S, s # {}
                 PROVE  LET x == CHOOSE y \in s : TRUE IN step[<<x, h[s \ {x}]>>] \in V
      BY DEF Folding
    <2> QED
      BY DEF FoldsIn
  <1>2. Size \in Nat
    BY FS_CardinalityType
  <1>3. [s \in SUBSET S |-> base] \in [SUBSET S -> V]
    OBVIOUS
  <1>4. StepsIn(Size, [SUBSET S -> V], Grow)
    BY <1>1 DEF StepsIn
  <1>0. \A i \in 1 .. Size : \A h \in [SUBSET S -> V] : Grow[<<i, h>>] = Folding(step, base, S, h)
    OBVIOUS
  <1> HIDE DEF Grow, Size
  <1>5. PICK f : MadeBy(Size, [SUBSET S -> V], [s \in SUBSET S |-> base], Grow, f)
    BY <1>2, <1>3, <1>4, RecursionExists
  <1>6. f \in [0 .. Size -> [SUBSET S -> V]] /\ \A i \in 1 .. Size : f[i] = Folding(step, base, S, f[i - 1])
    <2>1. f \in [0 .. Size -> [SUBSET S -> V]] /\ \A i \in 1 .. Size : f[i] = Grow[<<i, f[i - 1]>>]
      BY <1>5 DEF MadeBy
    <2>2. ASSUME NEW i \in 1 .. Size PROVE f[i] = Folding(step, base, S, f[i - 1])
      <3>1. i - 1 \in 0 .. Size
        BY <1>2
      <3> QED
        BY <1>0, <2>1, <3>1
    <2> QED
      BY <2>1, <2>2
  (* After as many steps as a part has elements, its value does not change.  *)
  <1> DEFINE Settled(s) == \A i \in 0 .. Size : Cardinality(s) <= i =>
                              f[i][s] = f[Size][s]
             P == {s \in SUBSET S : Settled(s)}
  <1>7. \A s \in SUBSET S : s \in P
    <2>1. {} \in P
      <3>1. \A i \in 1 .. Size : f[i][{}] = base
        BY <1>6 DEF Folding
      <3> QED
        BY <1>2, <1>5, <3>1 DEF MadeBy
    <2>2. ASSUME NEW s \in SUBSET S, s # {}, \A y \in s : s \ {y} \in P
          PROVE  s \in P
      <3> DEFINE x == CHOOSE y \in s : TRUE
                 rest == s \ {x}
      <3>1. rest \in SUBSET S /\ Cardinality(s) \in Nat \ {0} /\ Cardinality(rest) = Cardinality(s) - 1
        BY <2>2, FirstTaken
      <3>2. Settled(rest)
        BY <2>2
      <3>3. \A i \in 1 .. Size : f[i][s] = step[<<x, f[i - 1][rest]>>]
        BY <1>6, <2>2, Zenon DEF Folding
      <3> HIDE DEF rest, x
      <3>4. ASSUME NEW i \in 0 .. Size, Cardinality(s) <= i PROVE f[i][s] = f[Size][s]
        <4>1. /\ i \in 1 .. Size /\ Size \in 1 .. Size /\ i - 1 \in 0 .. Size /\ Size - 1 \in 0 .. Size
              /\ Cardinality(rest) <= i - 1 /\ Cardinality(rest) <= Size - 1
          BY <1>2, <3>1, <3>4
        <4>2. f[i - 1][rest] = f[Size - 1][rest]
          BY <3>2, <4>1
        <4> QED
          BY <3>3, <4>1, <4>2
      <3> QED
        BY <3>4
    <2> HIDE DEF P
    <2> QED
      BY <2>1, <2>2, PartByPart
  <1> DEFINE g == f[Size]
  <1>8. g \in [SUBSET S -> V]
    <2>1. Size \in 0 .. Size
      BY <1>2
    <2> QED
      BY <1>6, <2>1
  <1>9. g[{}] = base
    <2>1. f[0][{}] = base /\ 0 \in 0 .. Size
      BY <1>2, <1>5 DEF MadeBy
    <2>2. Settled({})
      BY <1>7
    <2> QED
      BY <2>1, <2>2, FS_EmptySet
  <1>10. ASSUME NEW s \in SUBSET S, s # {}
         PROVE  LET x == CHOOSE y \in s : TRUE IN g[s] = step[<<x, g[s \ {x}]>>]
    <2> DEFINE x == CHOOSE y \in s : TRUE
               rest == s \ {x}
    <2>1. /\ rest \in SUBSET S /\ Cardinality(s) \in Nat \ {0} /\ Cardinality(rest) = Cardinality(s) - 1
      BY <1>10, FirstTaken
    <2>2. Cardinality(s) <= Size
      BY FS_Subset DEF Size
    <2>3. Settled(rest)
      BY <1>7, <2>1
    <2>4. Size \in 1 .. Size /\ Size - 1 \in 0 .. Size /\ Cardinality(rest) <= Size - 1
      <3> HIDE DEF rest
      <3> QED
        BY <1>2, <2>1, <2>2
    <2>5. f[Size - 1][rest] = g[rest]
      BY <2>3, <2>4
    <2>6. g[s] = step[<<x, f[Size - 1][rest]>>]
      <3>1. f[Size] = Folding(step, base, S, f[Size - 1])
        BY <1>6, <2>4
      <3> QED
        BY <1>10, <3>1, Zenon DEF Folding
    <2> QED
      BY <2>5, <2>6
  <1> HIDE DEF g
  <1>11. g = Folding(step, base, S, g)
    BY <1>8, <1>9, <1>10 DEF Folding
  <1> QED
    BY <1>8, <1>11 DEF FoldedBy

(* A finite table of numbers.                                                *)
Counted(f) == IsFiniteSet(DOMAIN f) /\ f \in [DOMAIN f -> Nat]
(* The function g adds up every part of a table.                             *)
Adds(f, g) ==
    /\ g \in [SUBSET DOMAIN f -> Nat] /\ g[{}] = 0
    /\ \A s \in SUBSET DOMAIN f : s # {} =>
          LET x == CHOOSE y \in s : TRUE IN g[s] = f[x] + g[s \ {x}]

LEMMA AddsExists ==
    ASSUME NEW f, Counted(f)
    PROVE  \E g : Adds(f, g)
  <1> DEFINE S == DOMAIN f
             step == [p \in S \X Nat |-> f[p[1]] + p[2]]
  <1>1. step \in [S \X Nat -> Nat]
    BY DEF Counted
  <1>2. \A x \in S : \A n \in Nat : step[<<x, n>>] = f[x] + n
    OBVIOUS
  <1>3. IsFiniteSet(S)
    BY DEF Counted
  <1> HIDE DEF step
  <1>4. PICK g : FoldedBy(S, Nat, 0, step, g)
    <2> HIDE DEF S
    <2>1. FoldsIn(S, Nat, step) /\ 0 \in Nat
      BY <1>1 DEF FoldsIn
    <2> QED
      BY <1>3, <2>1, FoldExists
  <1>5. g[{}] = 0
    BY <1>4 DEF FoldedBy, Folding
  <1>6. ASSUME NEW s \in SUBSET S, s # {}
        PROVE  LET x == CHOOSE y \in s : TRUE IN g[s] = f[x] + g[s \ {x}]
    <2> DEFINE x == CHOOSE y \in s : TRUE
    <2>1. g[s] = step[<<x, g[s \ {x}]>>]
      BY <1>4, <1>6, Zenon DEF FoldedBy, Folding
    <2>2. x \in S /\ g[s \ {x}] \in Nat
      BY <1>4, <1>6 DEF FoldedBy
    <2> HIDE DEF x
    <2>3. g[s] = f[x] + g[s \ {x}]
      BY <1>2, <2>1, <2>2
    <2> QED
      BY <2>3 DEF x
  <1> QED
    BY <1>4, <1>5, <1>6 DEF FoldedBy, Adds

(* The step of the sum that MapThenSumSet takes.                             *)
Summing(f, h) ==
    [s \in SUBSET DOMAIN f |-> IF s = {} THEN 0
                               ELSE LET x == CHOOSE y \in s : TRUE IN f[x] + h[s \ {x}]]

(* It adds them up in any order.                                             *)
LEMMA AddsAnyOrder ==
    ASSUME NEW f, Counted(f), NEW g, Adds(f, g)
    PROVE  \A s \in SUBSET DOMAIN f : \A x \in s : g[s] = f[x] + g[s \ {x}]
  <1> DEFINE S == DOMAIN f
             Comes(s) == \A x \in s : g[s] = f[x] + g[s \ {x}]
             P == {s \in SUBSET S : Comes(s)}
  <1>0. IsFiniteSet(S)
    BY DEF Counted
  <1>1. {} \in P
    OBVIOUS
  <1>2. ASSUME NEW s \in SUBSET S, s # {}, \A y \in s : s \ {y} \in P
        PROVE  s \in P
    <2> DEFINE c == CHOOSE y \in s : TRUE
    <2>1. c \in s /\ g[s] = f[c] + g[s \ {c}]
      BY <1>2 DEF Adds
    <2>2. \A y \in s : Comes(s \ {y})
      BY <1>2
    <2> HIDE DEF c
    <2>3. ASSUME NEW x \in s PROVE g[s] = f[x] + g[s \ {x}]
      <3>1. CASE x = c
        BY <2>1, <3>1
      <3>2. CASE x # c
        <4>1. /\ g[s \ {c}] = f[x] + g[(s \ {c}) \ {x}]
              /\ g[s \ {x}] = f[c] + g[(s \ {x}) \ {c}]
          BY <2>1, <2>2, <3>2
        <4>2. (s \ {c}) \ {x} = (s \ {x}) \ {c}
          OBVIOUS
        <4>3. f[x] \in Nat /\ f[c] \in Nat /\ g[(s \ {c}) \ {x}] \in Nat
          BY <2>1 DEF Counted, Adds
        <4>4. g[s] = f[c] + (f[x] + g[(s \ {c}) \ {x}])
          BY <2>1, <4>1
        <4>5. g[s \ {x}] = f[c] + g[(s \ {c}) \ {x}]
          BY <4>1, <4>2
        <4> QED
          BY <4>3, <4>4, <4>5
      <3> QED
        BY <3>1, <3>2
    <2> QED
      BY <2>3
  <1>3. \A s \in SUBSET S : s \in P
    <2> HIDE DEF P
    <2> QED
      BY <1>0, <1>1, <1>2, PartByPart
  <1> QED
    BY <1>3

(* A sum that MapThenSumSet takes by some step is the one that adds up.      *)
LEMMA OneSum ==
    ASSUME NEW f, Counted(f), NEW g, Adds(f, g), NEW h, h = Summing(f, h)
    PROVE  h[DOMAIN f] = g[DOMAIN f]
  <1> DEFINE S == DOMAIN f
             P == {s \in SUBSET S : h[s] = g[s]}
  <1>0. IsFiniteSet(S)
    BY DEF Counted
  <1>1. {} \in P
    BY DEF Summing, Adds
  <1>2. ASSUME NEW s \in SUBSET S, s # {}, \A y \in s : s \ {y} \in P
        PROVE  s \in P
    <2> DEFINE c == CHOOSE y \in s : TRUE
    <2>1. c \in s /\ g[s] = f[c] + g[s \ {c}]
      BY <1>2 DEF Adds
    <2>2. h[s] = f[c] + h[s \ {c}]
      BY <1>2, Zenon DEF Summing
    <2> HIDE DEF c
    <2>3. h[s \ {c}] = g[s \ {c}]
      BY <1>2, <2>1
    <2> QED
      BY <2>1, <2>2, <2>3
  <1>3. \A s \in SUBSET S : s \in P
    <2> HIDE DEF P
    <2> QED
      BY <1>0, <1>1, <1>2, PartByPart
  <1> QED
    BY <1>3

LEMMA TotalIs ==
    ASSUME NEW f, Counted(f), NEW g, Adds(f, g)
    PROVE  Total(f) = g[DOMAIN f]
  <1> DEFINE iter == CHOOSE h : h = Summing(f, h)
  <1>1. Total(f) = iter[DOMAIN f]
    BY Zenon DEF Total, MapThenSumSet, MapThenFoldSet, Summing
  <1>2. g = Summing(f, g)
    BY DEF Summing, Adds
  <1>3. iter = Summing(f, iter)
    BY <1>2
  <1> HIDE DEF iter
  <1> QED
    BY <1>1, <1>3, OneSum

(* The total of a table is that of the rest and the number taken away.       *)
LEMMA TotalFacts ==
    ASSUME NEW f, Counted(f)
    PROVE  /\ Total(f) \in Nat
           /\ DOMAIN f = {} => Total(f) = 0
           /\ \A T \in SUBSET DOMAIN f : Counted(Restrict(f, T))
           /\ \A x \in DOMAIN f : Total(f) = f[x] + Total(Drop(f, x))
  <1> DEFINE S == DOMAIN f
  <1>1. PICK g : Adds(f, g)
    BY AddsExists
  <1>2. Total(f) = g[S] /\ g[S] \in Nat
    BY <1>1, TotalIs DEF Adds
  <1>3. DOMAIN f = {} => Total(f) = 0
    BY <1>1, <1>2 DEF Adds
  <1>4. ASSUME NEW T \in SUBSET S PROVE Counted(Restrict(f, T))
    BY FS_Subset DEF Counted, Restrict
  <1>5. ASSUME NEW x \in S PROVE Total(f) = f[x] + Total(Drop(f, x))
    <2> DEFINE T == S \ {x}
               piece == [s \in SUBSET T |-> g[s]]
    <2>1. Drop(f, x) = Restrict(f, T) /\ DOMAIN Restrict(f, T) = T /\ T \in SUBSET S
      BY DEF Drop, Restrict
    <2>2. Adds(Restrict(f, T), piece)
      <3>1. piece \in [SUBSET T -> Nat] /\ piece[{}] = 0
        BY <1>1 DEF Adds
      <3>2. ASSUME NEW s \in SUBSET T, s # {}
            PROVE  LET c == CHOOSE y \in s : TRUE IN piece[s] = Restrict(f, T)[c] + piece[s \ {c}]
        <4> DEFINE c == CHOOSE y \in s : TRUE
        <4>1. c \in s /\ g[s] = f[c] + g[s \ {c}]
          BY <1>1, <3>2 DEF Adds
        <4> HIDE DEF c
        <4>2. piece[s] = g[s] /\ piece[s \ {c}] = g[s \ {c}] /\ Restrict(f, T)[c] = f[c]
          BY <4>1 DEF Restrict
        <4> QED
          BY <4>1, <4>2 DEF c
      <3> HIDE DEF piece, T
      <3> QED
        BY <2>1, <3>1, <3>2 DEF Adds
    <2>3. Total(Restrict(f, T)) = piece[T]
      <3> HIDE DEF piece, T
      <3> QED
        BY <1>4, <2>1, <2>2, TotalIs
    <2>4. g[S] = f[x] + g[T]
      BY <1>1, AddsAnyOrder
    <2> QED
      BY <1>2, <2>1, <2>3, <2>4
  <1> QED
    BY <1>2, <1>3, <1>4, <1>5

(* A table with more entries of zero has the same total.                     *)
LEMMA TotalExtends ==
    ASSUME NEW f, NEW wide, Counted(f), Counted(wide), DOMAIN f \subseteq DOMAIN wide,
           \A x \in DOMAIN wide : wide[x] = IF x \in DOMAIN f THEN f[x] ELSE 0
    PROVE  Total(wide) = Total(f)
  <1> DEFINE S == DOMAIN wide \ DOMAIN f
             Part(V) == Restrict(wide, DOMAIN f \cup V)
             P == {V \in SUBSET S : Total(Part(V)) = Total(f)}
  <1>1. {} \in P
    <2>1. Part({}) = f
      BY DEF Counted, Restrict
    <2> QED
      BY <2>1
  <1>2. ASSUME NEW V \in SUBSET S, V # {}, \A x \in V : V \ {x} \in P
        PROVE  V \in P
    <2>1. PICK x \in V : TRUE
      BY <1>2
    <2>2. Total(Part(V \ {x})) = Total(f)
      BY <1>2
    <2>3. Counted(Part(V)) /\ DOMAIN Part(V) = DOMAIN f \cup V
      <3>1. DOMAIN f \cup V \in SUBSET DOMAIN wide
        OBVIOUS
      <3> QED
        BY <3>1, TotalFacts DEF Restrict
    <2>4. Part(V)[x] = 0 /\ Drop(Part(V), x) = Part(V \ {x})
      <3>1. (DOMAIN f \cup V) \ {x} = DOMAIN f \cup (V \ {x}) /\ x \in DOMAIN wide /\ x \notin DOMAIN f
        OBVIOUS
      <3>2. Part(V)[x] = 0
        BY <3>1 DEF Restrict
      <3>3. Drop(Part(V), x) = [y \in DOMAIN f \cup (V \ {x}) |-> wide[y]]
        BY <2>3, <3>1 DEF Drop, Restrict
      <3> QED
        BY <3>2, <3>3 DEF Restrict
    <2> HIDE DEF Part
    <2>5. Total(Part(V)) = Part(V)[x] + Total(Drop(Part(V), x))
      BY <2>3, TotalFacts
    <2>6. Total(f) \in Nat
      BY TotalFacts
    <2> QED
      BY <2>2, <2>4, <2>5, <2>6
  <1>3. \A V \in SUBSET S : V \in P
    <2>1. IsFiniteSet(S)
      BY FS_Difference DEF Counted
    <2> HIDE DEF P, S
    <2> QED
      BY <1>1, <1>2, <2>1, PartByPart
  <1>4. Part(S) = wide
    BY DEF Counted, Restrict
  <1>5. Total(Part(S)) = Total(f)
    BY <1>3
  <1> HIDE DEF Part
  <1> QED
    BY <1>4, <1>5

(* What an entry adds to a table, and takes from it.                         *)
LEMMA TotalOfPut ==
    ASSUME NEW f, Counted(f), NEW k, NEW n \in Nat
    PROVE  /\ Counted(Put(f, k, n)) /\ Counted(Drop(f, k))
           /\ Total(Put(f, k, n)) = Total(Drop(f, k)) + n
           /\ Cardinality(DOMAIN Put(f, k, n)) = Cardinality(DOMAIN Drop(f, k)) + 1
           /\ Total(Drop(f, k)) <= Total(f)
           /\ Cardinality(DOMAIN Drop(f, k)) <= Cardinality(DOMAIN f)
           /\ Cardinality(DOMAIN f) \in Nat /\ Cardinality(DOMAIN Drop(f, k)) \in Nat
  <1> DEFINE with == Put(f, k, n)
             rest == Drop(f, k)
  <1>1. /\ DOMAIN with = DOMAIN f \cup {k} /\ with[k] = n /\ DOMAIN rest = DOMAIN f \ {k}
        /\ with \in [DOMAIN with -> Nat]
    BY DEF Put, Drop, Restrict, Counted
  <1>2. Drop(with, k) = rest
    BY <1>1 DEF Put, Drop, Restrict
  <1>3. Counted(with)
    BY <1>1, FS_AddElement DEF Counted
  <1>4. Counted(rest)
    <2>1. DOMAIN f \ {k} \in SUBSET DOMAIN f
      OBVIOUS
    <2> QED
      BY <2>1, TotalFacts DEF Drop
  <1>5. /\ Cardinality(DOMAIN with) = Cardinality(DOMAIN rest) + 1
        /\ Cardinality(DOMAIN rest) <= Cardinality(DOMAIN f)
        /\ Cardinality(DOMAIN f) \in Nat /\ Cardinality(DOMAIN rest) \in Nat
    <2>1. IsFiniteSet(DOMAIN f) /\ IsFiniteSet(DOMAIN rest)
      BY <1>4 DEF Counted
    <2>2. (DOMAIN rest) \cup {k} = DOMAIN with /\ k \notin DOMAIN rest /\ DOMAIN rest \in SUBSET DOMAIN f
      BY <1>1
    <2>3. Cardinality((DOMAIN rest) \cup {k}) = Cardinality(DOMAIN rest) + 1
      BY <2>1, <2>2, FS_AddElement
    <2> QED
      BY <2>1, <2>2, <2>3, FS_Subset, FS_CardinalityType
  <1> HIDE DEF with, rest
  <1>6. Total(with) = n + Total(rest) /\ Total(rest) \in Nat
    BY <1>1, <1>2, <1>3, <1>4, TotalFacts
  <1>7. Total(rest) <= Total(f)
    <2>1. CASE k \in DOMAIN f
      <3>1. Total(f) = f[k] + Total(rest)
        BY <2>1, TotalFacts DEF rest
      <3>2. f[k] \in Nat
        BY <2>1 DEF Counted
      <3> QED
        BY <1>6, <3>1, <3>2
    <2>2. CASE k \notin DOMAIN f
      <3>1. rest = f
        BY <2>2 DEF rest, Drop, Restrict, Counted
      <3> QED
        BY <1>6, <3>1
    <2> QED
      BY <2>1, <2>2
  <1> QED
    BY <1>3, <1>4, <1>5, <1>6, <1>7 DEF with, rest

(* What is in each object store of a database.                               *)
Totals(stores) == [s \in DOMAIN stores |-> Total(stores[s])]
(* The object stores of a database.                                          *)
StoresGood(stores) ==
    /\ IsFiniteSet(DOMAIN stores) /\ \A s \in DOMAIN stores : Counted(stores[s])

(* What a database holds is the total of what its object stores hold.        *)
LEMMA BytesAre ==
    ASSUME NEW stores, StoresGood(stores)
    PROVE  Counted(Totals(stores)) /\ Bytes(stores) = Total(Totals(stores)) /\ Bytes(stores) \in Nat
  <1> DEFINE tot == Totals(stores)
             Step(h) == [s \in SUBSET DOMAIN stores |->
                           IF s = {} THEN 0
                           ELSE LET x == CHOOSE y \in s : TRUE IN Total(stores[x]) + h[s \ {x}]]
             iter == CHOOSE h : h = Step(h)
  <1>1. DOMAIN tot = DOMAIN stores /\ \A s \in DOMAIN stores : tot[s] = Total(stores[s])
    BY DEF Totals
  <1>2. Counted(tot)
    <2>1. \A s \in DOMAIN stores : Total(stores[s]) \in Nat
      BY TotalFacts DEF StoresGood
    <2> QED
      BY <2>1 DEF Counted, Totals, StoresGood
  <1>3. Bytes(stores) = iter[DOMAIN stores]
    BY Zenon DEF Bytes, MapThenSumSet, MapThenFoldSet
  <1>4. ASSUME NEW h PROVE Step(h) = Summing(tot, h)
    <2>1. ASSUME NEW s \in SUBSET DOMAIN stores, s # {}
          PROVE  LET x == CHOOSE y \in s : TRUE IN Total(stores[x]) = tot[x]
      BY <1>1, <2>1
    <2> HIDE DEF tot
    <2> QED
      BY <1>1, <2>1 DEF Summing
  <1>5. PICK g : Adds(tot, g)
    BY <1>2, AddsExists
  <1>6. g = Summing(tot, g)
    BY <1>5 DEF Summing, Adds
  <1> HIDE DEF tot
  <1>7. iter = Step(iter)
    <2>1. g = Step(g)
      BY <1>4, <1>6, Zenon
    <2> HIDE DEF Step
    <2> QED
      BY <2>1
  <1> HIDE DEF iter
  <1>8. iter = Summing(tot, iter)
    BY <1>4, <1>7, Zenon
  <1>9. iter[DOMAIN tot] = g[DOMAIN tot] /\ Total(tot) = g[DOMAIN tot]
    BY <1>2, <1>5, <1>8, OneSum, TotalIs
  <1>10. Total(tot) \in Nat
    BY <1>2, TotalFacts
  <1> QED
    BY <1>1, <1>2, <1>3, <1>9, <1>10 DEF tot

(* An empty store.                                                           *)
LEMMA EmptyIsGood ==
    Counted(<< >>) /\ DOMAIN << >> = {} /\ Total(<< >>) = 0 /\ Cardinality(DOMAIN << >>) = 0
  <1>1. DOMAIN << >> = {} /\ << >> \in [{} -> Nat]
    OBVIOUS
  <1>2. Counted(<< >>)
    BY <1>1, FS_EmptySet DEF Counted
  <1> QED
    BY <1>1, <1>2, FS_EmptySet, TotalFacts

(* The entries of a namespace and their keys are within the quota.           *)
InQuota(content) == Total(content) + Cardinality(DOMAIN content) <= Quota
(* Namespaces, of which those not written past the quota are within it.      *)
SpacesGood(spaces, free) ==
    \A s \in DOMAIN spaces : Counted(spaces[s]) /\ (s \notin free => InQuota(spaces[s]))
(* So are those of the file.                                                 *)
StorageInv ==
    /\ SpacesGood(values, unmetered)
    /\ \A wire \in file : SpacesGood([s \in DOMAIN wire.entries |-> wire.entries[s].values], wire.unmetered)

LEMMA StorageKeeps == StorageInv /\ StorageNext => StorageInv'
  <1> SUFFICES ASSUME StorageInv, StorageNext PROVE StorageInv'
    OBVIOUS
  <1>q. Quota \in Nat /\ Lengths \subseteq Nat
    BY StoresAssumption DEF StoresAssumption
  <1>e. Counted(<< >>) /\ InQuota(<< >>)
    BY <1>q, EmptyIsGood DEF InQuota
  <1>c. \A s : Counted(Contents(s)) /\ (s \notin unmetered => InQuota(Contents(s)))
    BY <1>e DEF Contents, At, StorageInv, SpacesGood
  <1>w. ASSUME NEW space, NEW content, Write(space, content), Counted(content),
               unmetered' \in {unmetered, unmetered \cup {space}},
               space \notin unmetered' => InQuota(content)
        PROVE  StorageInv'
    <2>1. /\ DOMAIN values' = DOMAIN values \cup {space} /\ values'[space] = content
          /\ \A s \in DOMAIN values : s # space => values'[s] = values[s]
      BY <1>w DEF Write, Put
    <2>2. SpacesGood(values, unmetered)'
      BY <1>w, <2>1 DEF StorageInv, SpacesGood
    <2>3. file' = file
      BY <1>w DEF Write
    <2> QED
      BY <2>2, <2>3 DEF StorageInv
  <1>1. ASSUME NEW space, NEW key, NEW n \in Lengths, set(space, key, n) PROVE StorageInv'
    <2>1. Counted(Put(Contents(space), key, n))
      BY <1>q, <1>c, TotalOfPut
    <2> QED
      BY <1>w, <1>1, <2>1 DEF set
  <1>2. ASSUME NEW space, NEW key, NEW n \in Lengths, set_with_quota(space, key, n) PROVE StorageInv'
    <2> DEFINE content == Contents(space)
               rest == Drop(content, key)
    <2>1. Counted(content)
      BY <1>c
    <2>2. /\ Counted(Put(content, key, n)) /\ Counted(rest) /\ Total(Put(content, key, n)) = Total(rest) + n
          /\ Cardinality(DOMAIN Put(content, key, n)) = Cardinality(DOMAIN rest) + 1
          /\ Cardinality(DOMAIN rest) \in Nat
      BY <1>q, <2>1, TotalOfPut
    <2>3. Total(rest) \in Nat
      BY <2>2, TotalFacts
    <2>4. Total(rest) + Cardinality(DOMAIN rest) + 1 + n <= Quota
      BY <1>2 DEF set_with_quota, Used
    <2> HIDE DEF rest, content
    <2>5. InQuota(Put(content, key, n))
      BY <1>q, <2>2, <2>3, <2>4 DEF InQuota
    <2> QED
      BY <1>w, <1>2, <2>2, <2>5 DEF set_with_quota, content
  <1>3. ASSUME NEW space, NEW key, remove(space, key) PROVE StorageInv'
    <2> DEFINE content == Contents(space)
               rest == Drop(content, key)
    <2>1. Counted(content) /\ (space \notin unmetered => InQuota(content))
      BY <1>c
    <2>2. /\ Counted(rest) /\ Total(rest) <= Total(content)
          /\ Cardinality(DOMAIN rest) <= Cardinality(DOMAIN content)
          /\ Cardinality(DOMAIN rest) \in Nat /\ Cardinality(DOMAIN content) \in Nat
      <3>1. 0 \in Nat
        OBVIOUS
      <3> QED
        BY <2>1, <3>1, TotalOfPut
    <2>3. Total(rest) \in Nat /\ Total(content) \in Nat
      BY <2>1, <2>2, TotalFacts
    <2> HIDE DEF rest, content
    <2>4. space \notin unmetered => InQuota(rest)
      BY <1>q, <2>1, <2>2, <2>3 DEF InQuota
    <2> QED
      BY <1>w, <1>3, <2>2, <2>4 DEF remove, content, rest
  <1>4. ASSUME NEW source, NEW destination, clone_session_namespace(source, destination) PROVE StorageInv'
    <2>1. /\ source \in DOMAIN values /\ file' = file
          /\ DOMAIN values' = DOMAIN values \cup {destination} /\ values'[destination] = values[source]
          /\ \A s \in DOMAIN values : s # destination => values'[s] = values[s]
          /\ unmetered' = IF source \in unmetered THEN unmetered \cup {destination}
                                                  ELSE unmetered \ {destination}
      BY <1>4 DEF clone_session_namespace, Put
    <2>2. SpacesGood(values, unmetered)'
      BY <2>1 DEF StorageInv, SpacesGood
    <2> QED
      BY <2>1, <2>2 DEF StorageInv
  <1>5. CASE to_json
    <2> DEFINE e == [s \in DOMAIN values \cup DOMAIN generations |->
                       [values |-> Contents(s), generation |-> generation(s)]]
               wire == [entries |-> e, unmetered |-> unmetered]
    <2>1. file' = {wire} /\ values' = values /\ unmetered' = unmetered
      BY <1>5 DEF to_json
    <2>2. wire.entries = e /\ wire.unmetered = unmetered /\ \A s \in DOMAIN e : e[s].values = Contents(s)
      OBVIOUS
    <2>3. SpacesGood([s \in DOMAIN e |-> e[s].values], unmetered)
      BY <1>c, <2>2 DEF SpacesGood
    <2> HIDE DEF e
    <2>4. SpacesGood([s \in DOMAIN wire.entries |-> wire.entries[s].values], wire.unmetered)
      BY <2>3
    <2> HIDE DEF wire
    <2> QED
      BY <2>1, <2>4 DEF StorageInv
  <1>6. CASE from_json
    <2>1. PICK wire \in file :
             /\ values' = [s \in {s \in DOMAIN wire.entries : wire.entries[s].values # << >>} |-> wire.entries[s].values]
             /\ unmetered' = wire.unmetered /\ file' = file
      BY <1>6 DEF from_json
    <2>2. SpacesGood([s \in DOMAIN wire.entries |-> wire.entries[s].values], wire.unmetered)
      BY DEF StorageInv
    <2>3. SpacesGood(values, unmetered)'
      BY <2>1, <2>2 DEF SpacesGood
    <2> QED
      BY <2>1, <2>3 DEF StorageInv
  <1> QED
    BY <1>1, <1>2, <1>3, <1>4, <1>5, <1>6 DEF StorageNext

(* A transaction notes finitely many writes, of lengths.                     *)
WritesGood(writes) ==
    IsFiniteSet(DOMAIN writes) /\ \A w \in DOMAIN writes : writes[w] \subseteq Nat
(* Every database is within the quota, and its transaction can be judged.    *)
DatabaseInv ==
    /\ StoresInv
    /\ \A d \in DOMAIN databases : StoresGood(databases[d].stores) /\ Bytes(databases[d].stores) <= Quota
    /\ \A t \in tx : t = [name |-> t.name, writes |-> t.writes] /\ WritesGood(t.writes)

(* Object stores that are added to a database hold nothing.                  *)
LEMMA AddedStoresAreEmpty ==
    ASSUME NEW stores, StoresGood(stores), NEW added, IsFiniteSet(added)
    PROVE  LET made == [s \in DOMAIN stores \cup added |-> At(stores, s, << >>)]
           IN StoresGood(made) /\ Bytes(made) = Bytes(stores)
  <1> DEFINE made == [s \in DOMAIN stores \cup added |-> At(stores, s, << >>)]
  <1>1. /\ DOMAIN made = DOMAIN stores \cup added /\ IsFiniteSet(DOMAIN made)
        /\ \A s \in DOMAIN made : made[s] = IF s \in DOMAIN stores THEN stores[s] ELSE << >>
    BY FS_Union DEF At, StoresGood
  <1> HIDE DEF made
  <1>2. StoresGood(made)
    BY <1>1, EmptyIsGood DEF StoresGood
  <1>3. /\ DOMAIN Totals(stores) = DOMAIN stores /\ DOMAIN Totals(made) = DOMAIN made
        /\ \A s \in DOMAIN made : Totals(made)[s] = IF s \in DOMAIN stores THEN Totals(stores)[s] ELSE 0
    BY <1>1, EmptyIsGood DEF Totals
  <1>4. Total(Totals(made)) = Total(Totals(stores))
    <2>1. Counted(Totals(made)) /\ Counted(Totals(stores))
      BY <1>2, BytesAre
    <2>2. DOMAIN Totals(stores) \subseteq DOMAIN Totals(made)
      BY <1>1, <1>3
    <2> QED
      BY <1>3, <2>1, <2>2, TotalExtends
  <1> QED
    BY <1>2, <1>4, BytesAre DEF made

(* What a transaction proposes are object stores again.                      *)
LEMMA ProposedIsGood ==
    ASSUME NEW stores, StoresGood(stores), NEW writes, WritesGood(writes)
    PROVE  StoresGood(Proposed(stores, writes))
  <1> DEFINE proposed == Proposed(stores, writes)
  <1>1. DOMAIN proposed = DOMAIN stores
    BY DEF Proposed
  <1>2. ASSUME NEW s \in DOMAIN stores PROVE Counted(proposed[s])
    <2> DEFINE written == {k \in StorageKeys : <<s, k>> \in DOMAIN writes}
               kept == DOMAIN stores[s] \ written
               added == {k \in written : writes[<<s, k>>] # {}}
    <2>1. proposed[s] = [k \in kept \cup added |->
                           IF k \in added THEN CHOOSE n \in writes[<<s, k>>] : TRUE ELSE stores[s][k]]
      BY DEF Proposed
    <2>2. IsFiniteSet(written)
      <3> DEFINE pair == [k \in written |-> <<s, k>>]
      <3>1. pair \in Injection(written, DOMAIN writes)
        BY DEF Injection, IsInjective
      <3> HIDE DEF pair, written
      <3>2. IsFiniteSet(DOMAIN writes)
        BY DEF WritesGood
      <3> QED
        BY <3>1, <3>2, FS_Injection
    <2>3. IsFiniteSet(kept \cup added)
      <3>1. IsFiniteSet(added)
        BY <2>2, FS_Subset
      <3>2. IsFiniteSet(kept)
        BY FS_Difference DEF StoresGood, Counted
      <3> QED
        BY <3>1, <3>2, FS_Union
    <2>4. ASSUME NEW k \in added PROVE (CHOOSE n \in writes[<<s, k>>] : TRUE) \in Nat
      BY <2>4 DEF WritesGood
    <2>5. ASSUME NEW k \in kept PROVE stores[s][k] \in Nat
      BY <2>5 DEF StoresGood, Counted
    <2> HIDE DEF added, kept
    <2>6. proposed[s] \in [kept \cup added -> Nat]
      BY <2>1, <2>4, <2>5
    <2> HIDE DEF proposed
    <2>7. DOMAIN proposed[s] = kept \cup added
      BY <2>6
    <2> QED
      BY <2>3, <2>6, <2>7 DEF Counted
  <1> QED
    BY <1>1, <1>2 DEF StoresGood

LEMMA DatabaseKeeps == DatabaseInv /\ DatabaseNext => DatabaseInv'
  <1> SUFFICES ASSUME DatabaseInv, DatabaseNext PROVE DatabaseInv'
    OBVIOUS
  <1>q. Quota \in Nat /\ IsFiniteSet(Names)
    BY StoresAssumption DEF StoresAssumption
  <1>i. StoresInv'
    BY DatabaseSteps DEF DatabaseInv
  <1>1. ASSUME NEW name, NEW version, NEW stores \in SUBSET Names, open(name, version, stores) PROVE DatabaseInv'
    <2> DEFINE db == At(databases, name, [version |-> 0, stores |-> << >>])
               made == [s \in DOMAIN db.stores \cup stores |-> At(db.stores, s, << >>)]
               new == IF version < db.version THEN db
                      ELSE [version |-> Max({version, db.version, 1}), stores |-> made]
    <2>1. /\ DOMAIN databases' = DOMAIN databases \cup {name} /\ databases'[name] = new
          /\ \A d \in DOMAIN databases \ {name} : databases'[d] = databases[d]
          /\ tx' = {}
      BY <1>1 DEF open, Put
    <2>2. StoresGood(db.stores) /\ Bytes(db.stores) <= Quota
      <3>1. CASE name \in DOMAIN databases
        BY <3>1 DEF At, DatabaseInv
      <3>2. CASE name \notin DOMAIN databases
        <4>1. db.stores = << >>
          BY <3>2 DEF At
        <4>2. StoresGood(<< >>)
          BY EmptyIsGood, FS_EmptySet DEF StoresGood
        <4>3. Counted(Totals(<< >>)) /\ Bytes(<< >>) = Total(Totals(<< >>)) /\ DOMAIN Totals(<< >>) = {}
          BY <4>2, EmptyIsGood, BytesAre DEF Totals
        <4>4. Bytes(<< >>) = 0
          BY <4>3, TotalFacts
        <4> QED
          BY <1>q, <4>1, <4>2, <4>4
      <3> QED
        BY <3>1, <3>2
    <2>3. StoresGood(made) /\ Bytes(made) = Bytes(db.stores)
      <3>1. IsFiniteSet(stores)
        BY <1>q, FS_Subset
      <3> HIDE DEF db
      <3> QED
        BY <2>2, <3>1, AddedStoresAreEmpty
    <2> HIDE DEF made, db
    <2>4. StoresGood(new.stores) /\ Bytes(new.stores) <= Quota
      BY <2>2, <2>3
    <2> HIDE DEF new
    <2> QED
      BY <1>i, <2>1, <2>4 DEF DatabaseInv
  <1>2. ASSUME NEW name, transaction(name) PROVE DatabaseInv'
    <2> DEFINE t == [name |-> name, writes |-> << >>]
    <2>1. tx' = {t} /\ databases' = databases
      BY <1>2 DEF transaction
    <2>2. t = [name |-> t.name, writes |-> t.writes] /\ WritesGood(t.writes)
      BY FS_EmptySet DEF WritesGood
    <2> HIDE DEF t
    <2> QED
      BY <1>i, <2>1, <2>2 DEF DatabaseInv
  <1>3. ASSUME NEW store, NEW key, NEW value \in {{}} \cup {{n} : n \in Lengths}, put(store, key, value)
        PROVE  DatabaseInv'
    <2>1. PICK t \in tx : tx' = {[t EXCEPT !.writes = Put(@, <<store, key>>, value)]} /\ databases' = databases
      BY <1>3 DEF put
    <2> DEFINE new == [t EXCEPT !.writes = Put(@, <<store, key>>, value)]
    <2>2. t = [name |-> t.name, writes |-> t.writes] /\ WritesGood(t.writes)
      BY DEF DatabaseInv
    <2>3. new = [name |-> t.name, writes |-> Put(t.writes, <<store, key>>, value)]
      BY <2>2
    <2>4. value \subseteq Nat
      BY StoresAssumption DEF StoresAssumption
    <2>5. WritesGood(Put(t.writes, <<store, key>>, value))
      <3>1. /\ DOMAIN Put(t.writes, <<store, key>>, value) = DOMAIN t.writes \cup {<<store, key>>}
            /\ \A w \in DOMAIN t.writes \cup {<<store, key>>} :
                  Put(t.writes, <<store, key>>, value)[w] = IF w = <<store, key>> THEN value ELSE t.writes[w]
        BY DEF Put
      <3> QED
        BY <2>2, <2>4, <3>1, FS_AddElement DEF WritesGood
    <2>6. new = [name |-> new.name, writes |-> new.writes] /\ WritesGood(new.writes)
      BY <2>3, <2>5
    <2> HIDE DEF new
    <2>7. tx' = {new}
      BY <2>1 DEF new
    <2> QED
      BY <1>i, <2>1, <2>6, <2>7 DEF DatabaseInv
  <1>4. CASE commit
    <2>1. PICK t \in tx :
             /\ databases' = IF Bytes(Proposed(databases[t.name].stores, t.writes)) > Quota THEN databases
                             ELSE [databases EXCEPT ![t.name].stores = Proposed(databases[t.name].stores, t.writes)]
             /\ tx' = {}
      BY <1>4, Zenon DEF commit
    <2> DEFINE old == databases[t.name].stores
               proposed == Proposed(old, t.writes)
    <2>2. t.name \in DOMAIN databases /\ DOMAIN databases[t.name] = {"version", "stores"}
      BY DEF DatabaseInv, StoresInv
    <2>3. StoresGood(proposed) /\ Bytes(proposed) \in Nat
      <3>1. StoresGood(old) /\ WritesGood(t.writes)
        BY <2>2 DEF DatabaseInv
      <3> QED
        BY <3>1, ProposedIsGood, BytesAre
    <2> HIDE DEF proposed
    <2>4. CASE Bytes(proposed) > Quota
      <3>1. databases' = databases
        BY <2>1, <2>4 DEF proposed
      <3> QED
        BY <1>i, <2>1, <3>1 DEF DatabaseInv
    <2>5. CASE Bytes(proposed) <= Quota
      <3>1. databases' = [databases EXCEPT ![t.name].stores = proposed]
        BY <1>q, <2>1, <2>3, <2>5 DEF proposed
      <3>2. /\ DOMAIN databases' = DOMAIN databases /\ databases'[t.name].stores = proposed
            /\ \A d \in DOMAIN databases : d # t.name => databases'[d] = databases[d]
        BY <2>2, <3>1
      <3> QED
        BY <1>i, <2>1, <2>3, <2>5, <3>2 DEF DatabaseInv
    <2> QED
      BY <1>q, <2>3, <2>4, <2>5
  <1>5. CASE abort
    BY <1>i, <1>5 DEF abort, DatabaseInv
  <1> QED
    BY <1>1, <1>2, <1>3, <1>4, <1>5 DEF DatabaseNext

(* A cache has room for all its entries.                                     *)
CacheGood(c) ==
    /\ c = [values |-> c.values, max_entries |-> c.max_entries]
    /\ IsFiniteSet(DOMAIN c.values) /\ c.max_entries \in Nat
    /\ Cardinality(DOMAIN c.values) <= c.max_entries
(* So has every cache, and every one of the file.                            *)
CachesInv ==
    \A cs \in {caches} \cup cacheFile : \A name \in DOMAIN cs : CacheGood(cs[name])

LEMMA CapacityIsGood ==
    ASSUME NEW n \in Nat
    PROVE  CacheGood(with_capacity(n)) /\ with_capacity(n).values = << >>
  <1>1. Max({n, 1}) \in Nat
    <2>1. \E x \in {n, 1} : \A y \in {n, 1} : x >= y
      BY n >= 1 \/ n <= 1
    <2> QED
      BY <2>1 DEF Max
  <1>2. DOMAIN << >> = {} /\ Cardinality({}) = 0 /\ IsFiniteSet({})
    BY FS_EmptySet
  <1> QED
    BY <1>1, <1>2 DEF CacheGood, with_capacity

LEMMA GrownIsGood ==
    ASSUME NEW c, CacheGood(c), NEW page, NEW response
    PROVE  /\ CacheGood(Grown(c, page, response))
           /\ Grown(c, page, response).values = Put(c.values, page, response)
  <1> DEFINE entries == Put(c.values, page, response)
             n == Cardinality(DOMAIN c.values)
             room == IF page \notin DOMAIN c.values /\ n >= c.max_entries
                     THEN Max({c.max_entries * 2, n + 1}) ELSE c.max_entries
  <1>1. Grown(c, page, response) = [values |-> entries, max_entries |-> room]
    BY DEF Grown
  <1>2. IsFiniteSet(DOMAIN entries) /\ n \in Nat /\ c.max_entries \in Nat /\ n <= c.max_entries
    BY FS_AddElement, FS_CardinalityType DEF CacheGood, Put
  <1>3. Cardinality(DOMAIN entries) = IF page \in DOMAIN c.values THEN n ELSE n + 1
    <2>1. DOMAIN entries = DOMAIN c.values \cup {page}
      BY DEF Put
    <2> QED
      BY <2>1, FS_AddElement DEF CacheGood
  <1> HIDE DEF entries, n
  <1>4. Max({c.max_entries * 2, n + 1}) \in Nat /\ Max({c.max_entries * 2, n + 1}) >= n + 1
    <2>1. PICK a \in Nat : a = c.max_entries * 2
      BY <1>2
    <2>2. PICK b \in Nat : b = n + 1
      BY <1>2
    <2>3. \E x \in {a, b} : \A y \in {a, b} : x >= y
      BY a >= b \/ a <= b
    <2>4. Max({a, b}) \in {a, b} /\ \A y \in {a, b} : Max({a, b}) >= y
      BY <2>3 DEF Max
    <2> QED
      BY <2>1, <2>2, <2>4
  <1>5. room \in Nat /\ Cardinality(DOMAIN entries) <= room
    BY <1>2, <1>3, <1>4
  <1> HIDE DEF room
  <1> QED
    BY <1>1, <1>2, <1>5 DEF CacheGood, entries

(* A cache that is read back, entry by entry, has room for them too.         *)
LEMMA RefillIsGood ==
    ASSUME NEW saved, CacheGood(saved)
    PROVE  CacheGood(Refill(saved))
  <1> DEFINE S == DOMAIN saved.values
             base == with_capacity(saved.max_entries)
             Tables == UNION {[D -> {saved.values[p] : p \in S}] : D \in SUBSET S}
             V == {c \in [values : Tables, max_entries : Nat] : CacheGood(c)}
             step == [p \in S \X V |-> Grown(p[2], p[1], saved.values[p[1]])]
             Step(h) == [s \in SUBSET S |->
                           IF s = {} THEN base
                           ELSE LET x == CHOOSE y \in s : TRUE IN Grown(h[s \ {x}], x, saved.values[x])]
             iter == CHOOSE h : h = Step(h)
  <1>1. Refill(saved) = iter[S]
    BY Zenon DEF Refill, MapThenFoldSet
  <1>2. IsFiniteSet(S) /\ CacheGood(base) /\ base.values = << >>
    BY CapacityIsGood DEF CacheGood
  <1>3. base \in V
    <2>1. << >> \in Tables
      <3>1. << >> \in [{} -> {saved.values[p] : p \in S}] /\ {} \in SUBSET S
        OBVIOUS
      <3> QED
        BY <3>1
    <2> HIDE DEF Tables, base
    <2> QED
      BY <1>2, <2>1 DEF CacheGood
  <1>4. ASSUME NEW x \in S, NEW c \in V PROVE Grown(c, x, saved.values[x]) \in V
    <2> DEFINE new == Grown(c, x, saved.values[x])
    <2>1. CacheGood(new) /\ new.values = Put(c.values, x, saved.values[x])
      BY GrownIsGood
    <2>2. PICK D \in SUBSET S : c.values \in [D -> {saved.values[p] : p \in S}]
      OBVIOUS
    <2>3. Put(c.values, x, saved.values[x]) \in [D \cup {x} -> {saved.values[p] : p \in S}] /\ D \cup {x} \in SUBSET S
      BY <2>2 DEF Put
    <2>4. Put(c.values, x, saved.values[x]) \in Tables
      BY <2>3
    <2> HIDE DEF Tables, new
    <2> QED
      BY <2>1, <2>4 DEF CacheGood, new
  <1>5. \A x \in S : \A c \in V : step[<<x, c>>] = Grown(c, x, saved.values[x])
    OBVIOUS
  <1>6. FoldsIn(S, V, step)
    <2> HIDE DEF V
    <2> QED
      BY <1>4 DEF FoldsIn
  <1> HIDE DEF step, V
  <1>7. PICK g : FoldedBy(S, V, base, step, g)
    BY <1>2, <1>3, <1>6, FoldExists
  <1> HIDE DEF base
  <1>8. g = Step(g)
    <2>1. g \in [SUBSET S -> V] /\ g = Folding(step, base, S, g)
      BY <1>7 DEF FoldedBy
    <2>2. g[{}] = base
      BY <2>1 DEF Folding
    <2>3. ASSUME NEW s \in SUBSET S, s # {}
          PROVE  LET x == CHOOSE y \in s : TRUE IN g[s] = Grown(g[s \ {x}], x, saved.values[x])
      <3> DEFINE x == CHOOSE y \in s : TRUE
      <3>1. g[s] = step[<<x, g[s \ {x}]>>]
        BY <2>1, <2>3, Zenon DEF Folding
      <3>2. x \in S /\ g[s \ {x}] \in V
        BY <2>1, <2>3
      <3> HIDE DEF x
      <3>3. g[s] = Grown(g[s \ {x}], x, saved.values[x])
        BY <1>5, <3>1, <3>2
      <3> QED
        BY <3>3 DEF x
    <2> QED
      BY <2>1, <2>2, <2>3
  <1>9. iter = Step(iter)
    <2> HIDE DEF Step
    <2> QED
      BY <1>8
  <1> HIDE DEF iter
  <1> DEFINE P == {s \in SUBSET S : CacheGood(iter[s])}
  <1>10. {} \in P
    BY <1>2, <1>9
  <1>11. ASSUME NEW s \in SUBSET S, s # {}, \A y \in s : s \ {y} \in P PROVE s \in P
    <2> DEFINE x == CHOOSE y \in s : TRUE
    <2>1. iter[s] = Grown(iter[s \ {x}], x, saved.values[x])
      BY <1>9, <1>11, Zenon
    <2>2. CacheGood(iter[s \ {x}])
      BY <1>11
    <2> HIDE DEF x
    <2> QED
      BY <2>1, <2>2, GrownIsGood
  <1>12. \A s \in SUBSET S : s \in P
    <2> HIDE DEF P
    <2> QED
      BY <1>2, <1>10, <1>11, PartByPart
  <1> QED
    BY <1>1, <1>12

LEMMA CachesKeep == CachesInv /\ CacheNext => CachesInv'
  <1> SUFFICES ASSUME CachesInv, CacheNext PROVE CachesInv'
    OBVIOUS
  <1>1. ASSUME NEW name, NEW n \in 0 .. MaxEntries, open_cache(name, n) PROVE CachesInv'
    <2>1. cacheFile' = cacheFile /\ caches' = IF name \in DOMAIN caches THEN caches ELSE Put(caches, name, with_capacity(n))
      BY <1>1 DEF open_cache
    <2>2. n \in Nat
      BY StoresAssumption DEF StoresAssumption
    <2>3. \A c \in DOMAIN caches' : CacheGood(caches'[c])
      BY <2>1, <2>2, CapacityIsGood DEF CachesInv, Put
    <2> QED
      BY <2>1, <2>3 DEF CachesInv
  <1>2. ASSUME NEW name, NEW page, NEW response, put_response(name, page, response) PROVE CachesInv'
    <2>1. /\ name \in DOMAIN caches /\ cacheFile' = cacheFile
          /\ caches' = [caches EXCEPT ![name] = Grown(caches[name], page, response)]
      BY <1>2 DEF put_response
    <2>2. CacheGood(Grown(caches[name], page, response))
      BY <2>1, GrownIsGood DEF CachesInv
    <2>3. \A c \in DOMAIN caches' : CacheGood(caches'[c])
      BY <2>1, <2>2 DEF CachesInv
    <2> QED
      BY <2>1, <2>3 DEF CachesInv
  <1>3. ASSUME NEW name, NEW page, delete_response(name, page) PROVE CachesInv'
    <2>1. /\ name \in DOMAIN caches /\ cacheFile' = cacheFile
          /\ caches' = [caches EXCEPT ![name].values = Drop(caches[name].values, page)]
      BY <1>3 DEF delete_response
    <2> DEFINE c == caches[name]
               new == [values |-> Drop(c.values, page), max_entries |-> c.max_entries]
    <2>2. CacheGood(c)
      BY <2>1 DEF CachesInv
    <2>3. CacheGood(new)
      <3>1. DOMAIN Drop(c.values, page) = DOMAIN c.values \ {page}
        BY DEF Drop, Restrict
      <3>2. /\ IsFiniteSet(DOMAIN c.values \ {page})
            /\ Cardinality(DOMAIN c.values \ {page}) <= Cardinality(DOMAIN c.values)
            /\ Cardinality(DOMAIN c.values \ {page}) \in Nat /\ Cardinality(DOMAIN c.values) \in Nat
        BY <2>2, FS_RemoveElement, FS_CardinalityType, FS_Subset DEF CacheGood
      <3> QED
        BY <2>2, <3>1, <3>2 DEF CacheGood
    <2>4. caches' = [caches EXCEPT ![name] = new]
      <3>1. caches' = [caches EXCEPT ![name] = [caches[name] EXCEPT !.values = Drop(caches[name].values, page)]]
        BY <2>1
      <3> HIDE DEF CacheGood
      <3>2. c = [values |-> c.values, max_entries |-> c.max_entries]
        BY <2>2 DEF CacheGood
      <3>3. [c EXCEPT !.values = Drop(c.values, page)] = new
        BY <3>2
      <3> QED
        BY <3>1, <3>3
    <2> HIDE DEF new, c
    <2>5. \A x \in DOMAIN caches' : CacheGood(caches'[x])
      BY <2>1, <2>3, <2>4 DEF CachesInv
    <2> QED
      BY <2>1, <2>5 DEF CachesInv
  <1>4. ASSUME NEW name, delete_cache(name) PROVE CachesInv'
    <2>1. \A c \in DOMAIN caches' : CacheGood(caches'[c])
      BY <1>4 DEF delete_cache, CachesInv, Drop, Restrict
    <2> QED
      BY <1>4, <2>1 DEF delete_cache, CachesInv
  <1>5. CASE save_caches
    BY <1>5 DEF save_caches, CachesInv
  <1>6. CASE restore_caches
    <2>1. PICK wire \in cacheFile : caches' = [name \in DOMAIN wire |-> Refill(wire[name])] /\ cacheFile' = cacheFile
      BY <1>6 DEF restore_caches
    <2>2. \A c \in DOMAIN caches' : CacheGood(caches'[c])
      BY <2>1, RefillIsGood DEF CachesInv
    <2> QED
      BY <2>1, <2>2 DEF CachesInv
  <1> QED
    BY <1>1, <1>2, <1>3, <1>4, <1>5, <1>6 DEF CacheNext

(* No store outgrows its limit, whatever is written, cloned, committed or    *)
(* read back (set_with_quota, commit, HttpCache::put, from_json).            *)
THEOREM StoresStayWithinLimits == Spec => []StoresWithinLimits
  <1> DEFINE Inv == StorageInv /\ DatabaseInv /\ CachesInv
  <1>1. Init => Inv
    <2> SUFFICES ASSUME Init PROVE Inv
      OBVIOUS
    <2>1. /\ values = << >> /\ file = {} /\ databases = << >> /\ tx = {} /\ caches = << >> /\ cacheFile = {}
      BY DEF Init, StoresInit
    <2>2. DOMAIN values = {} /\ DOMAIN databases = {} /\ DOMAIN caches = {}
      BY <2>1
    <2> QED
      BY <2>1, <2>2 DEF StorageInv, SpacesGood, DatabaseInv, StoresInv, CachesInv
  <1>2. Inv /\ [Next]_vars => Inv'
    <2> SUFFICES ASSUME Inv, [Next]_vars PROVE Inv'
      OBVIOUS
    <2>1. CASE UNCHANGED storeVars
      BY <2>1 DEF storeVars, storageVars, dbVars, cacheVars, StorageInv, SpacesGood, DatabaseInv, StoresInv, CachesInv
    <2>2. CASE StorageNext
      <3>1. StorageInv'
        BY <2>2, StorageKeeps
      <3>2. UNCHANGED <<dbVars, cacheVars>>
        BY <2>2 DEF StorageNext, set, set_with_quota, remove, Write, clone_session_namespace, to_json, from_json
      <3> QED
        BY <3>1, <3>2 DEF dbVars, cacheVars, DatabaseInv, StoresInv, CachesInv
    <2>3. CASE DatabaseNext
      <3>1. DatabaseInv'
        BY <2>3, DatabaseKeeps
      <3>2. UNCHANGED <<storageVars, cacheVars>>
        BY <2>3 DEF DatabaseNext, open, transaction, put, commit, abort
      <3> QED
        BY <3>1, <3>2 DEF storageVars, cacheVars, StorageInv, SpacesGood, CachesInv
    <2>4. CASE CacheNext
      <3>1. CachesInv'
        BY <2>4, CachesKeep
      <3>2. UNCHANGED <<storageVars, dbVars>>
        BY <2>4 DEF CacheNext, CacheFrame, open_cache, put_response, delete_response, delete_cache, save_caches, restore_caches
      <3> QED
        BY <3>1, <3>2 DEF storageVars, dbVars, StorageInv, SpacesGood, DatabaseInv, StoresInv
    <2> QED
      BY <2>1, <2>2, <2>3, <2>4 DEF Next, vars
  <1>3. Inv => StoresWithinLimits
    BY DEF StorageInv, SpacesGood, InQuota, DatabaseInv, CachesInv, CacheGood, StoresWithinLimits
  <1> QED
    BY <1>1, <1>2, <1>3, PTL DEF Spec

=============================================================================
