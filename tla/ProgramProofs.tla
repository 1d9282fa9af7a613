---------------------------- MODULE ProgramProofs ---------------------------
(***************************************************************************)
(* Theorems about what the library does for a program: ForkCow, for any     *)
(* number of environments, pages and forks, Spawn, for any number of slots, *)
(* program headers and library pages, and ElfLoad, for segments of any      *)
(* number, size and place.                                                  *)
(***************************************************************************)
EXTENDS ForkCow, Spawn, ElfLoad, FiniteSetTheorems, TLAPS

-----------------------------------------------------------------------------
(* Physical pages.                                                          *)

LEMMA Sizes ==
    ASSUME ForkConstantsOK
    PROVE  /\ NPages \in Nat \ {0} /\ NFrames \in Nat /\ IsFiniteSet(Env)
           /\ NIL \notin Env /\ NIL \notin Pte /\ NIL \notin Page /\ NIL \notin Frame
           /\ Stack \in Page /\ Stack \notin Library /\ Library \subseteq Page
BY DEF ForkConstantsOK, Stack, Page

\* What is mapped is in use.
LEMMA InUseFacts ==
    ASSUME ForkConstantsOK, ForkTypeOK
    PROVE  /\ \A e \in Env : ucow[e] # NIL => ucow[e] \in InUse
           /\ \A e \in Env, v \in Page : pt[e][v] # NIL => pt[e][v].frame \in InUse
           /\ InUse \subseteq Frame
<1>1. \A e \in Env : ucow[e] # NIL => ucow[e] \in InUse
  BY DEF InUse
<1>2. \A e \in Env, v \in Page : pt[e][v] # NIL => pt[e][v] \in Pte /\ pt[e][v].frame \in Frame
  BY DEF ForkTypeOK, Pte
<1>3. \A e \in Env, v \in Page : pt[e][v] # NIL => pt[e][v].frame \in InUse
  BY <1>2, Sizes DEF InUse
<1>4. InUse \subseteq Frame
  BY <1>2 DEF ForkTypeOK, InUse
<1> QED BY <1>1, <1>3, <1>4

\* There is always a page to allocate (NFrames is large enough).
LEMMA NewFrameFree ==
    ASSUME ForkConstantsOK, ForkTypeOK
    PROVE  NewFrame \in Frame /\ NewFrame \notin InUse
<1> DEFINE Place == Env \X (0..NPages)
           Holds(p) == IF p[2] = 0 THEN ucow[p[1]]
                       ELSE IF pt[p[1]][p[2]] = NIL THEN NIL ELSE pt[p[1]][p[2]].frame
           Used == {p \in Place : Holds(p) # NIL}
           f == [p \in Used |-> Holds(p)]
<1>1. IsFiniteSet(Place) /\ Cardinality(Place) = Cardinality(Env) * (NPages + 1)
  <2>1. IsFiniteSet(0..NPages) /\ Cardinality(0..NPages) = NPages + 1
    BY Sizes, FS_Interval
  <2> QED BY <2>1, Sizes, FS_Product
<1>2. f \in Surjection(Used, InUse)
  <2>1. f \in [Used -> InUse]
    BY Sizes DEF ForkTypeOK, Pte, InUse, Page
  <2>2. \A g \in InUse : \E p \in Used : f[p] = g
    <3> SUFFICES ASSUME NEW g \in InUse
                 PROVE  \E p \in Used : f[p] = g
      OBVIOUS
    <3>1. CASE \E e \in Env : ucow[e] = g
      <4>1. PICK e \in Env : ucow[e] = g
        BY <3>1
      <4>2. <<e, 0>> \in Used /\ f[<<e, 0>>] = g
        BY <4>1, Sizes DEF InUse
      <4> QED BY <4>2
    <3>2. CASE \E e \in Env, v \in Page : pt[e][v] # NIL /\ pt[e][v].frame = g
      <4>1. PICK e \in Env, v \in Page : pt[e][v] # NIL /\ pt[e][v].frame = g
        BY <3>2
      <4>2. <<e, v>> \in Place /\ v # 0 /\ g # NIL
        BY Sizes DEF InUse, Page
      <4>3. Holds(<<e, v>>) = g
        BY <4>1, <4>2
      <4>4. <<e, v>> \in Used /\ f[<<e, v>>] = g
        BY <4>2, <4>3
      <4> QED BY <4>4
    <3>3. \/ \E e \in Env : ucow[e] = g
          \/ \E e \in Env, v \in Page : pt[e][v] # NIL /\ pt[e][v].frame = g
      BY DEF InUse
    <3> QED BY <3>1, <3>2, <3>3
  <2>3. DOMAIN f = Used
    OBVIOUS
  <2> HIDE DEF f, Used
  <2> QED BY <2>1, <2>2, <2>3 DEF Surjection
<1>3. IsFiniteSet(Used) /\ Cardinality(Used) <= Cardinality(Place)
  BY <1>1, FS_Subset
<1>4. IsFiniteSet(InUse) /\ Cardinality(InUse) <= Cardinality(Used)
  <2> HIDE DEF f, Used
  <2> QED BY <1>2, <1>3, FS_Surjection
<1>5. Cardinality(Frame) = NFrames
  BY Sizes, FS_Interval DEF Frame
<1>6. NFrames > (NPages + 1) * Cardinality(Env)
  BY DEF ForkConstantsOK
<1>7. Frame # InUse
  <2> DEFINE n == Cardinality(Env) * (NPages + 1)
  <2>1. Cardinality(Env) \in Nat
    BY Sizes, FS_CardinalityType
  <2>2. n \in Nat /\ NFrames > n
    BY <1>6, <2>1, Sizes
  <2>3. Cardinality(Place) = n /\ Cardinality(Used) \in Nat /\ Cardinality(InUse) \in Nat
    BY <1>1, <1>3, <1>4, FS_CardinalityType
  <2> HIDE DEF n, Used, Place
  <2> QED BY <1>3, <1>4, <1>5, <2>2, <2>3, Sizes
<1> QED BY <1>7, InUseFacts DEF NewFrame

-----------------------------------------------------------------------------
(* The invariant.                                                           *)
\* What is true of an environment outside the calls of the library.
Outside ==
    \A e \in Env :
        /\ fork_status[e] # "alive" => fork_pc[e] = "user" /\ cow[e].step = "none"
        /\ fork_status[e] = "free" => pt[e] = Unmapped
        /\ fork_pc[e] = "user" => loc[e] = NoLocals
        /\ fork_pc[e] # "entry"

\* A child that is being made is one environment's, which is in fork.
OneParent ==
    /\ \A e \in Env : loc[e].child # NIL => fork_status[loc[e].child] = "building"
    /\ \A e, a \in Env : loc[e].child = loc[a].child /\ loc[e].child # NIL => e = a

\* Where cow_entry is, and what it is handling.
CowStep ==
    \A e \in Env :
        /\ cow[e].step # "none" =>
               /\ cow[e].va \in Page /\ pt[e][cow[e].va] # NIL
               /\ "D" \notin pt[e][cow[e].va].perm
               /\ fork_pc[e] = "user" \/ cow[e].va = Stack
        /\ ucow[e] # NIL <=> cow[e].step = "map"

\* Where fork's loop over the pages is.
LoopStep ==
    \A e \in Env :
        /\ fork_pc[e] \in {"child", "parent"} =>
               /\ loc[e].i \in Page /\ pt[e][loc[e].i] # NIL
               /\ loc[e].perm = pt[e][loc[e].i].perm
               /\ loc[e].i = Stack => "D" \in loc[e].perm
        /\ fork_pc[e] = "parent" => ToCow(loc[e].perm)
        /\ fork_pc[e] = "run" => loc[e].child # NIL /\ loc[e].i = NPages + 1

\* Who can meet a read-only page has the handler for it.
Handlers ==
    \A e \in Env :
        /\ fork_pc[e] # "user" => entry[e]
        /\ fork_pc[e] = "run" => entry[loc[e].child]
        /\ fork_status[e] = "alive" => \A v \in Page :
               pt[e][v] # NIL /\ "D" \notin pt[e][v].perm => entry[e]

\* The page a copy is made in is mapped at UCOW only, by one environment.
UcowPrivate ==
    \A e \in Env : ucow[e] # NIL =>
        /\ \A a \in Env, w \in Page : ~Mapped(a, w, ucow[e])
        /\ \A a \in Env : ucow[a] = ucow[e] => a = e

\* The inductive invariant of ForkSafe.
SafeInv == ForkSafe /\ Outside /\ OneParent /\ CowStep /\ LoopStep /\ Handlers /\ UcowPrivate

-----------------------------------------------------------------------------
(* The parts of a step.                                                     *)

\* The contents of a page are set.
LEMMA SetContent ==
    ASSUME ForkTypeOK, NEW f \in Frame, NEW x \in Value, content' = [content EXCEPT ![f] = x]
    PROVE  /\ content' \in [Frame -> Value]
           /\ \A g \in Frame : content'[g] = IF g = f THEN x ELSE content[g]
BY DEF ForkTypeOK

\* A page that is mapped has an entry.
LEMMA IsPte ==
    ASSUME ForkTypeOK, NEW e \in Env, NEW v \in Page, pt[e][v] # NIL
    PROVE  /\ pt[e][v] \in Pte /\ pt[e][v].frame \in Frame /\ pt[e][v].perm \in SUBSET Bits
           /\ content[pt[e][v].frame] \in Value
BY DEF ForkTypeOK, Pte

LEMMA ClearedType ==
    ASSUME ForkConstantsOK, ForkTypeOK
    PROVE  Cleared \in [Frame -> Value]
BY DEF ForkConstantsOK, ForkTypeOK, Cleared

LEMMA MakePte ==
    ASSUME NEW f \in Frame, NEW P \in SUBSET Bits
    PROVE  LET x == [frame |-> f, perm |-> P] IN x \in Pte /\ x.frame = f /\ x.perm = P
BY DEF Pte

\* fork's locals, and what may be assigned to them.
Locals == [child : Env \cup {NIL}, i : 1..(NPages + 1), perm : SUBSET Bits]

LEMMA LocalsFacts ==
    ASSUME ForkTypeOK
    PROVE  /\ loc \in [Env -> Locals]
           /\ \A e \in Env : /\ loc[e] \in Locals
                              /\ loc[e].child \in Env \cup {NIL}
                              /\ loc[e].i \in 1..(NPages + 1)
                              /\ loc[e].perm \in SUBSET Bits
BY DEF ForkTypeOK, Locals

-----------------------------------------------------------------------------
(* Each step keeps the invariant.                                           *)

LEMMA StoreSafe ==
    ASSUME ForkConstantsOK, SafeInv, NEW e \in Env, NEW v \in Page, NEW x \in Value, store(e, v, x)
    PROVE  SafeInv'
<1> USE Sizes, NewFrameFree, InUseFacts DEF SafeInv, ForkSafe
<1> DEFINE new == [frame |-> NewFrame, perm |-> {"D"}]
<1>1. new \in Pte /\ new.frame = NewFrame /\ new.perm = {"D"}
  BY DEF Pte, Bits
<1>2. CASE pt[e][v] = NIL
  <2>1. pt' = [pt EXCEPT ![e][v] = new] /\ content' = [content EXCEPT ![NewFrame] = x]
    BY <1>2 DEF store
  <2>2. /\ pt' \in [Env -> [Page -> Pte \cup {NIL}]] /\ content' \in [Frame -> Value]
        /\ \A a \in Env, w \in Page : pt'[a][w] = IF a = e /\ w = v THEN new ELSE pt[a][w]
    <3> HIDE DEF new
    <3>1. /\ pt' \in [Env -> [Page -> Pte \cup {NIL}]]
          /\ \A a \in Env, w \in Page : pt'[a][w] = IF a = e /\ w = v THEN new ELSE pt[a][w]
      BY <1>1, <2>1 DEF ForkTypeOK
    <3>2. content' \in [Frame -> Value]
      BY <2>1, SetContent
    <3> QED BY <3>1, <3>2
  <2>3. fork_status[e] = "alive"
    BY DEF store, MayStore
  <2>4. \A a \in Env, w \in Page : pt[a][w] # NIL => pt[a][w].frame # NewFrame
    OBVIOUS
  <2>5. ForkTypeOK'
    BY <2>2 DEF ForkTypeOK, store
  <2>6. HandlerRegistered'
    BY DEF store, HandlerRegistered
  <2>7. WritableIsPrivate'
    BY <1>1, <2>2, <2>4 DEF store, ForkTypeOK, WritableIsPrivate, Mapped, InWindow
  <2>8. Outside' /\ OneParent'
    BY <2>2, <2>3 DEF store, ForkTypeOK, Outside, OneParent, Unmapped
  <2>9. CowStep' /\ LoopStep'
    <3>1. UNCHANGED <<ucow, cow, fork_pc, loc>>
      BY DEF store
    <3>2. \A a \in Env, w \in Page : pt[a][w] # NIL => pt'[a][w] = pt[a][w]
      BY <1>2, <2>2
    <3> QED BY <3>1, <3>2 DEF CowStep, LoopStep
  <2>10. Handlers'
    <3>1. UNCHANGED <<fork_status, entry, fork_pc, loc>> /\ "D" \in new.perm
      BY <1>1 DEF store
    <3> HIDE DEF new
    <3>2. \A a \in Env, w \in Page :
              pt'[a][w] # NIL /\ "D" \notin pt'[a][w].perm => pt'[a][w] = pt[a][w]
      BY <2>2, <3>1
    <3> QED BY <3>1, <3>2 DEF Handlers
  <2>11. UcowPrivate'
    <3>1. UNCHANGED ucow /\ new.frame = NewFrame
      BY DEF store
    <3>2. \A a \in Env, w \in Page : pt'[a][w] # NIL =>
              (pt[a][w] # NIL /\ pt'[a][w].frame = pt[a][w].frame) \/ pt'[a][w].frame = NewFrame
      <4> HIDE DEF new
      <4> QED BY <2>2, <3>1
    <3>3. \A a \in Env : ucow[a] # NewFrame
      BY <1>1, NewFrameFree, InUseFacts DEF ForkTypeOK
    <3> HIDE DEF new
    <3> QED BY <3>1, <3>2, <3>3 DEF UcowPrivate, Mapped
  <2> QED BY <2>5, <2>6, <2>7, <2>8, <2>9, <2>10, <2>11
<1>3. CASE pt[e][v] # NIL
  <2>1. content' = [content EXCEPT ![pt[e][v].frame] = x] /\ UNCHANGED pt
    BY <1>3 DEF store
  <2>2. content' \in [Frame -> Value]
    BY <1>3, <2>1, IsPte, SetContent
  <2>3. UNCHANGED <<ucow, fork_status, entry, fork_pc, loc, cow, forks, panicked>>
    BY DEF store
  <2>4. ForkTypeOK'
    BY <2>1, <2>2, <2>3 DEF ForkTypeOK
  <2> QED BY <2>1, <2>3, <2>4 DEF HandlerRegistered, WritableIsPrivate, Mapped, InWindow, Outside,
             OneParent, CowStep, LoopStep, Handlers, UcowPrivate
<1> QED BY <1>2, <1>3

LEMMA FaultSafe ==
    ASSUME ForkConstantsOK, SafeInv, NEW e \in Env, NEW v \in Page, do_tlb_mod(e, v)
    PROVE  SafeInv'
<1> USE DEF SafeInv, ForkSafe
<1>1. entry[e] /\ fork_status[e] = "alive"
  BY DEF do_tlb_mod, MayStore, Handlers
<1>2. /\ cow' = [cow EXCEPT ![e] = [step |-> "copy", va |-> v]]
      /\ UNCHANGED <<pt, ucow, content, fork_status, entry, fork_pc, loc, forks, panicked>>
  BY <1>1 DEF do_tlb_mod
<1>3. ForkTypeOK'
  BY <1>2 DEF ForkTypeOK
<1>4. CowStep'
  <2>1. pt[e][v] # NIL /\ "D" \notin pt[e][v].perm /\ (fork_pc[e] = "user" \/ v = Stack)
        /\ cow[e].step = "none"
    BY DEF do_tlb_mod, MayStore
  <2>2. \A a \in Env : cow'[a] = IF a = e THEN [step |-> "copy", va |-> v] ELSE cow[a]
    BY <1>2 DEF ForkTypeOK
  <2> QED BY <1>2, <2>1, <2>2 DEF CowStep
<1>5. Outside'
  BY <1>1, <1>2 DEF ForkTypeOK, Outside
<1> QED BY <1>2, <1>3, <1>4, <1>5 DEF HandlerRegistered, WritableIsPrivate, Mapped, InWindow,
           OneParent, LoopStep, Handlers, UcowPrivate

LEMMA CopySafe ==
    ASSUME ForkConstantsOK, SafeInv, NEW e \in Env, cow_copy(e)
    PROVE  SafeInv'
<1> USE Sizes, NewFrameFree, InUseFacts DEF SafeInv, ForkSafe
<1> DEFINE va == cow[e].va
<1>1. va \in Page /\ pt[e][va] # NIL
  BY DEF cow_copy, InCow, CowStep
<1>2. ForkTypeOK'
  <2>1. content' \in [Frame -> Value]
    BY <1>1, IsPte, SetContent DEF cow_copy
  <2>2. cow' \in [Env -> [step : {"none", "copy", "map"}, va : Page \cup {NIL}]]
    <3>1. cow[e] \in [step : {"none", "copy", "map"}, va : Page \cup {NIL}]
      BY DEF ForkTypeOK
    <3>2. [cow[e] EXCEPT !.step = "map"] = [step |-> "map", va |-> va]
      BY <3>1
    <3>4. cow' = [cow EXCEPT ![e] = [step |-> "map", va |-> va]]
      BY <3>2, Zenon DEF cow_copy
    <3>3. [step |-> "map", va |-> va] \in [step : {"none", "copy", "map"}, va : Page \cup {NIL}]
      BY <1>1
    <3> HIDE DEF va
    <3> QED BY <3>3, <3>4 DEF ForkTypeOK
  <2>3. ucow' \in [Env -> Frame \cup {NIL}]
    BY DEF cow_copy, ForkTypeOK
  <2>4. UNCHANGED <<pt, fork_status, entry, fork_pc, loc, forks, panicked>>
    BY DEF cow_copy
  <2> QED BY <2>1, <2>2, <2>3, <2>4 DEF ForkTypeOK
<1>3. /\ \A a \in Env : ucow'[a] = IF a = e THEN NewFrame ELSE ucow[a]
      /\ \A a \in Env : cow'[a] = IF a = e THEN [step |-> "map", va |-> va] ELSE cow[a]
  BY DEF cow_copy, ForkTypeOK
<1>4. CowStep' /\ Outside'
  BY <1>1, <1>3 DEF cow_copy, InCow, ForkTypeOK, CowStep, Outside
<1>5. UcowPrivate'
  BY <1>3 DEF cow_copy, ForkTypeOK, UcowPrivate, Mapped
<1> QED BY <1>2, <1>4, <1>5 DEF cow_copy, HandlerRegistered, WritableIsPrivate, Mapped, InWindow,
           OneParent, LoopStep, Handlers

\* What cow_map does.
LEMMA MapEffect ==
    ASSUME ForkConstantsOK, SafeInv, NEW e \in Env, cow_map(e)
    PROVE  LET va == cow[e].va
               P == (pt[e][va].perm \ {"COW"}) \cup {"D"}
               new == [frame |-> ucow[e], perm |-> P]
           IN  /\ va \in Page /\ pt[e][va] # NIL /\ "D" \notin pt[e][va].perm
               /\ ucow[e] # NIL /\ ucow[e] \in Frame /\ fork_status[e] = "alive"
               /\ fork_pc[e] = "user" \/ va = Stack
               /\ new.frame = ucow[e] /\ new.perm = P /\ new # NIL
               /\ pt' \in [Env -> [Page -> Pte \cup {NIL}]]
               /\ \A a \in Env, w \in Page :
                      pt'[a][w] = IF a = e /\ w = va THEN new ELSE pt[a][w]
               /\ \A a \in Env : ucow'[a] = IF a = e THEN NIL ELSE ucow[a]
               /\ \A a \in Env : cow'[a] = IF a = e THEN NoCow ELSE cow[a]
               /\ UNCHANGED <<fork_status, entry, fork_pc, loc, forks, panicked>>
<1> USE Sizes DEF SafeInv, ForkSafe
<1> DEFINE va == cow[e].va
           P == (pt[e][va].perm \ {"COW"}) \cup {"D"}
           new == [frame |-> ucow[e], perm |-> P]
<1>1. /\ va \in Page /\ pt[e][va] # NIL /\ "D" \notin pt[e][va].perm
      /\ ucow[e] # NIL /\ ucow[e] \in Frame /\ fork_status[e] = "alive"
      /\ fork_pc[e] = "user" \/ va = Stack
  BY DEF cow_map, InCow, CowStep, ForkTypeOK
<1>2. new \in Pte /\ new.frame = ucow[e] /\ new.perm = P
  <2>1. P \in SUBSET Bits
    BY <1>1, IsPte DEF Bits
  <2> QED BY <1>1, <2>1, MakePte
<1>3. /\ pt' \in [Env -> [Page -> Pte \cup {NIL}]]
      /\ \A a \in Env, w \in Page : pt'[a][w] = IF a = e /\ w = va THEN new ELSE pt[a][w]
  <2> HIDE DEF new
  <2>1. pt' = [pt EXCEPT ![e][va] = new]
    BY DEF cow_map, new
  <2> QED BY <1>1, <1>2, <2>1 DEF ForkTypeOK
<1>4. /\ \A a \in Env : ucow'[a] = IF a = e THEN NIL ELSE ucow[a]
      /\ \A a \in Env : cow'[a] = IF a = e THEN NoCow ELSE cow[a]
      /\ UNCHANGED <<fork_status, entry, fork_pc, loc, forks, panicked>>
  BY DEF cow_map, ForkTypeOK
<1> QED BY <1>1, <1>2, <1>3, <1>4

LEMMA MapSafe ==
    ASSUME ForkConstantsOK, SafeInv, NEW e \in Env, cow_map(e)
    PROVE  SafeInv'
<1> USE Sizes DEF SafeInv, ForkSafe
<1> DEFINE va == cow[e].va
           P == (pt[e][va].perm \ {"COW"}) \cup {"D"}
           new == [frame |-> ucow[e], perm |-> P]
<1>1. /\ va \in Page /\ pt[e][va] # NIL /\ "D" \notin pt[e][va].perm
      /\ ucow[e] # NIL /\ ucow[e] \in Frame /\ fork_status[e] = "alive"
      /\ fork_pc[e] = "user" \/ va = Stack
  BY MapEffect
<1>2. new.frame = ucow[e] /\ new.perm = P
  BY MapEffect
<1>3. /\ pt' \in [Env -> [Page -> Pte \cup {NIL}]]
      /\ \A a \in Env, w \in Page : pt'[a][w] = IF a = e /\ w = va THEN new ELSE pt[a][w]
  BY MapEffect
<1>4. /\ \A a \in Env : ucow'[a] = IF a = e THEN NIL ELSE ucow[a]
      /\ \A a \in Env : cow'[a] = IF a = e THEN NoCow ELSE cow[a]
      /\ UNCHANGED <<fork_status, entry, fork_pc, loc, forks, panicked>>
  BY MapEffect
<1>5. ForkTypeOK'
  <2>1. ucow' \in [Env -> Frame \cup {NIL}] /\ cow' \in [Env -> [step : {"none", "copy", "map"},
                        va : Page \cup {NIL}]]
    BY DEF cow_map, ForkTypeOK, NoCow
  <2>2. content' \in [Frame -> Value]
    BY ClearedType DEF cow_map
  <2> QED BY <1>3, <1>4, <2>1, <2>2 DEF ForkTypeOK
<1>6. \A a \in Env, w \in Page : Mapped(a, w, ucow[e]) = FALSE
  BY <1>1 DEF UcowPrivate
<1>7. WritableIsPrivate'
  <2>1. SUFFICES ASSUME NEW a \in Env, NEW w \in Page, pt'[a][w] # NIL,
                        "D" \in pt'[a][w].perm, "LIB" \notin pt'[a][w].perm,
                        NEW b \in Env, NEW u \in Page, pt'[b][u] # NIL,
                        pt'[b][u].frame = pt'[a][w].frame, <<b, u>> # <<a, w>>
                 PROVE  InWindow(a, w) /\ <<b, u>> = <<loc[a].child, w>>
    BY <1>4 DEF WritableIsPrivate, Mapped, InWindow
  <2>2. ~(a = e /\ w = va) /\ ~(b = e /\ u = va)
    BY <1>2, <1>3, <1>6, <2>1 DEF Mapped
  <2> QED BY <1>3, <2>1, <2>2 DEF WritableIsPrivate, Mapped
<1>8. CowStep' /\ Outside'
  BY <1>1, <1>3, <1>4 DEF CowStep, Outside, NoCow, Unmapped
<1>9. LoopStep'
  <2>1. fork_pc[e] \in {"child", "parent"} => loc[e].i # va
    BY <1>1 DEF LoopStep
  <2> QED BY <1>3, <1>4, <2>1 DEF LoopStep
<1>10. Handlers'
  BY <1>2, <1>3, <1>4 DEF Handlers
<1>11. UcowPrivate'
  BY <1>1, <1>2, <1>3, <1>4 DEF UcowPrivate, Mapped
<1> QED BY <1>4, <1>5, <1>7, <1>8, <1>9, <1>10, <1>11 DEF HandlerRegistered, OneParent

LEMMA ForkSafeStep ==
    ASSUME ForkConstantsOK, SafeInv, NEW e \in Env, NEW c \in Env, fork(e, c)
    PROVE  SafeInv'
<1> USE Sizes DEF SafeInv, ForkSafe
<1>1. /\ fork_status[e] = "alive" /\ fork_pc[e] = "user" /\ cow[e].step = "none"
      /\ fork_status[c] = "free"
      /\ loc[e] = NoLocals
      /\ UNCHANGED <<pt, ucow, content, cow, panicked>>
      /\ forks \in Nat /\ forks' = forks + 1 /\ forks < MaxForks
  BY DEF fork, At, Outside, ForkTypeOK
<1>2. /\ \A a \in Env : fork_status'[a] = IF a = c THEN "building" ELSE fork_status[a]
      /\ \A a \in Env : entry'[a] = IF a = c THEN FALSE ELSE IF a = e THEN TRUE ELSE entry[a]
      /\ \A a \in Env : loc'[a] = IF a = e THEN [child |-> c, i |-> 1, perm |-> {}] ELSE loc[a]
      /\ \A a \in Env : fork_pc'[a] = IF a = e THEN "loop" ELSE fork_pc[a]
  <2>1. \A a \in Env : loc'[a] = IF a = e THEN [child |-> c, i |-> 1, perm |-> {}] ELSE loc[a]
    <3>1. loc' = [loc EXCEPT ![e] = [NoLocals EXCEPT !.child = c]]
      BY <1>1, LocalsFacts DEF fork
    <3>2. [NoLocals EXCEPT !.child = c] = [child |-> c, i |-> 1, perm |-> {}]
      BY DEF NoLocals
    <3> QED BY <3>1, <3>2, LocalsFacts
  <2>2. c # e
    BY <1>1
  <2> QED BY <2>1, <2>2 DEF fork, Goto, ForkTypeOK
<1>3. ForkTypeOK'
  <2>1. loc' \in [Env -> Locals]
    <3>1. [child |-> c, i |-> 1, perm |-> {}] \in Locals
      BY DEF Locals
    <3> QED BY <1>2, <3>1, LocalsFacts DEF fork
  <2>2. MaxForks \in Nat
    BY DEF ForkConstantsOK
  <2>3. forks' \in 0..MaxForks
    BY <1>1, <2>2
  <2>4. /\ fork_status' \in [Env -> {"free", "building", "alive"}] /\ entry' \in [Env -> BOOLEAN]
        /\ fork_pc' \in [Env -> {"user", "loop", "child", "parent", "entry", "run"}]
    BY DEF fork, Goto, ForkTypeOK
  <2> QED BY <1>1, <2>1, <2>3, <2>4 DEF ForkTypeOK, Locals
<1>4. Outside' /\ CowStep'
  BY <1>1, <1>2 DEF Outside, CowStep
<1>5. OneParent'
  <2>1. \A a \in Env : loc[a].child # c
    BY <1>1 DEF OneParent
  <2>2. \A a \in Env : loc'[a].child = IF a = e THEN c ELSE loc[a].child
    BY <1>2
  <2> QED BY <1>1, <1>2, <2>1, <2>2, LocalsFacts DEF OneParent
<1>6. LoopStep'
  <2>1. ~(fork_pc'[e] \in {"child", "parent"}) /\ fork_pc'[e] # "run"
    BY <1>2
  <2>2. \A a \in Env : a # e => loc'[a] = loc[a] /\ fork_pc'[a] = fork_pc[a] /\ pt'[a] = pt[a]
    BY <1>1, <1>2
  <2>3. ASSUME NEW a \in Env, a # e
        PROVE  /\ fork_pc'[a] \in {"child", "parent"} =>
                      /\ loc'[a].i \in Page /\ pt'[a][loc'[a].i] # NIL
                      /\ loc'[a].perm = pt'[a][loc'[a].i].perm
                      /\ loc'[a].i = Stack => "D" \in loc'[a].perm
               /\ fork_pc'[a] = "parent" => ToCow(loc'[a].perm)
               /\ fork_pc'[a] = "run" => loc'[a].child # NIL /\ loc'[a].i = NPages + 1
    BY <2>2, <2>3 DEF LoopStep
  <2> QED BY <2>1, <2>3 DEF LoopStep
<1>7. Handlers'
  <2>1. \A a \in Env : fork_pc[a] = "run" => loc[a].child # c
    BY <1>1 DEF OneParent, LoopStep
  <2>2. c # e /\ fork_pc[c] = "user"
    BY <1>1 DEF Outside
  <2>3. \A a \in Env : fork_pc'[a] = "run" =>
            fork_pc[a] = "run" /\ loc'[a] = loc[a] /\ loc[a].child \in Env
    BY <1>2, LocalsFacts DEF LoopStep
  <2>4. \A a \in Env : fork_pc'[a] # "user" => entry'[a]
    BY <1>2, <2>2 DEF Handlers
  <2>5. \A a \in Env : fork_pc'[a] = "run" => entry'[loc'[a].child]
    BY <1>2, <2>1, <2>3 DEF Handlers
  <2>6. \A a \in Env : fork_status'[a] = "alive" =>
            fork_status[a] = "alive" /\ (entry[a] => entry'[a])
    BY <1>2
  <2> QED BY <1>1, <2>4, <2>5, <2>6 DEF Handlers
<1>8. WritableIsPrivate'
  BY <1>1, <1>2 DEF WritableIsPrivate, Mapped, InWindow
<1> QED BY <1>1, <1>3, <1>4, <1>5, <1>6, <1>7, <1>8 DEF HandlerRegistered, UcowPrivate, Mapped

LEMMA NoChildSafe ==
    ASSUME ForkConstantsOK, SafeInv, NEW e \in Env, fork_no_child(e)
    PROVE  SafeInv'
<1> USE DEF SafeInv, ForkSafe
<1>1. /\ fork_status[e] = "alive" /\ fork_pc[e] = "user" /\ cow[e].step = "none"
      /\ UNCHANGED <<pt, ucow, content, fork_status, loc, cow, panicked>>
      /\ forks \in Nat /\ forks' = forks + 1 /\ forks < MaxForks
  BY DEF fork_no_child, At, ForkTypeOK
<1>2. /\ \A a \in Env : entry'[a] = IF a = e THEN TRUE ELSE entry[a]
      /\ \A a \in Env : fork_pc'[a] = IF a = e THEN "loop" ELSE fork_pc[a]
  BY <1>1 DEF fork_no_child, Goto, ForkTypeOK
<1>3. ForkTypeOK'
  <2>1. MaxForks \in Nat
    BY DEF ForkConstantsOK
  <2> QED BY <1>1, <2>1 DEF fork_no_child, Goto, ForkTypeOK
<1>4. Outside' /\ CowStep' /\ OneParent'
  BY <1>1, <1>2 DEF Outside, CowStep, OneParent
<1>5. LoopStep' /\ Handlers'
  <2>1. \A a \in Env : fork_pc[a] = "run" => loc[a].child \in Env
    BY LocalsFacts DEF LoopStep
  <2>2. LoopStep'
    BY <1>1, <1>2 DEF LoopStep
  <2>3. \A a \in Env : fork_pc'[a] = "run" => fork_pc[a] = "run"
    BY <1>2
  <2>4. \A a \in Env : entry[a] => entry'[a]
    BY <1>2
  <2>5. \A a \in Env : fork_pc'[a] # "user" => entry'[a]
    BY <1>2 DEF Handlers
  <2>6. \A a \in Env : fork_pc'[a] = "run" => entry'[loc'[a].child]
    BY <1>1, <2>1, <2>3, <2>4 DEF Handlers
  <2>7. \A a \in Env : fork_status'[a] = "alive" => \A v \in Page :
            pt'[a][v] # NIL /\ "D" \notin pt'[a][v].perm => entry'[a]
    BY <1>1, <2>4 DEF Handlers
  <2> QED BY <2>2, <2>5, <2>6, <2>7 DEF Handlers
<1>6. WritableIsPrivate'
  BY <1>1, <1>2 DEF WritableIsPrivate, Mapped, InWindow
<1> QED BY <1>1, <1>3, <1>4, <1>5, <1>6 DEF HandlerRegistered, UcowPrivate, Mapped

LEMMA DuppageSafe ==
    ASSUME ForkConstantsOK, SafeInv, NEW e \in Env, fork_duppage(e)
    PROVE  SafeInv'
<1> USE Sizes DEF SafeInv, ForkSafe
<1> DEFINE i == loc[e].i
<1>1. /\ fork_status[e] = "alive" /\ fork_pc[e] = "loop" /\ cow[e].step = "none"
      /\ i \in Page /\ loc[e].child \in Env \cup {NIL} /\ loc[e].perm \in SUBSET Bits
      /\ UNCHANGED <<pt, ucow, content, fork_status, entry, cow, forks, panicked>>
      /\ pt[e][Stack] # NIL /\ "D" \in pt[e][Stack].perm
  BY DEF fork_duppage, At, ForkTypeOK, Page
<1>2. CASE pt[e][i] = NIL
  <2>1. /\ loc' = [loc EXCEPT ![e].i = i + 1] /\ UNCHANGED fork_pc
        /\ \A a \in Env : loc'[a] = IF a = e THEN [loc[e] EXCEPT !.i = i + 1] ELSE loc[a]
    BY <1>2 DEF fork_duppage, ForkTypeOK
  <2>2. \A a \in Env : loc'[a].child = loc[a].child
    BY <2>1 DEF ForkTypeOK
  <2>3. ForkTypeOK'
    <3>1. [loc[e] EXCEPT !.i = i + 1] \in Locals
      <4>1. i + 1 \in 1..(NPages + 1)
        BY <1>1 DEF Page
      <4> QED BY <4>1, LocalsFacts DEF Locals
    <3>2. loc' \in [Env -> Locals]
      BY <2>1, <3>1, LocalsFacts
    <3> QED BY <1>1, <2>1, <3>2 DEF ForkTypeOK, Locals
  <2>4. Outside' /\ CowStep' /\ OneParent'
    BY <1>1, <2>1, <2>2 DEF Outside, CowStep, OneParent
  <2>5. LoopStep' /\ Handlers'
    BY <1>1, <2>1, <2>2 DEF LoopStep, Handlers
  <2>6. WritableIsPrivate'
    BY <1>1, <2>1, <2>2 DEF WritableIsPrivate, Mapped, InWindow
  <2> QED BY <1>1, <2>3, <2>4, <2>5, <2>6 DEF HandlerRegistered, UcowPrivate, Mapped
<1>3. CASE pt[e][i] # NIL
  <2>1. /\ loc' = [loc EXCEPT ![e].perm = pt[e][i].perm]
        /\ \A a \in Env : loc'[a] = IF a = e THEN [loc[e] EXCEPT !.perm = pt[e][i].perm] ELSE loc[a]
        /\ fork_pc' = [fork_pc EXCEPT ![e] = "child"]
        /\ \A a \in Env : fork_pc'[a] = IF a = e THEN "child" ELSE fork_pc[a]
    BY <1>3 DEF fork_duppage, Goto, ForkTypeOK
  <2>2. /\ \A a \in Env : loc'[a].child = loc[a].child /\ loc'[a].i = loc[a].i
        /\ loc'[e].perm = pt[e][i].perm /\ \A a \in Env : a # e => loc'[a] = loc[a]
    BY <2>1 DEF ForkTypeOK
  <2>3. ForkTypeOK'
    <3>1. [loc[e] EXCEPT !.perm = pt[e][i].perm] \in Locals
      BY <1>1, <1>3, IsPte, LocalsFacts DEF Locals
    <3>2. loc' \in [Env -> Locals]
      BY <2>1, <3>1, LocalsFacts
    <3>3. fork_pc' \in [Env -> {"user", "loop", "child", "parent", "entry", "run"}]
      BY <2>1 DEF ForkTypeOK
    <3> QED BY <1>1, <3>2, <3>3 DEF ForkTypeOK, Locals
  <2>4. Outside' /\ CowStep' /\ OneParent'
    <3>1. Outside'
      BY <1>1, <2>1 DEF Outside
    <3>2. CowStep'
      BY <1>1, <2>1 DEF CowStep
    <3>3. OneParent'
      BY <1>1, <2>2 DEF OneParent
    <3> QED BY <3>1, <3>2, <3>3
  <2>5. LoopStep'
    BY <1>1, <1>3, <2>1, <2>2 DEF LoopStep
  <2>7. Handlers'
    BY <1>1, <2>1, <2>2 DEF Handlers
  <2>6. WritableIsPrivate'
    BY <1>1, <2>1, <2>2 DEF WritableIsPrivate, Mapped, InWindow
  <2> QED BY <1>1, <2>3, <2>4, <2>5, <2>6, <2>7 DEF HandlerRegistered, UcowPrivate, Mapped
<1> QED BY <1>2, <1>3

\* What duppage_child does to the page tables: nothing, or one page of the child.
LEMMA ChildMapping ==
    ASSUME ForkConstantsOK, SafeInv, NEW e \in Env, duppage_child(e)
    PROVE  LET c == loc[e].child
               i == loc[e].i
               new == [frame |-> pt[e][i].frame, perm |-> CowPerm(pt[e][i].perm)]
           IN  /\ fork_status[e] = "alive" /\ fork_pc[e] = "child" /\ cow[e].step = "none"
               /\ i \in Page /\ pt[e][i] # NIL /\ loc[e].perm = pt[e][i].perm
               /\ new \in Pte /\ new.frame = pt[e][i].frame /\ new.perm = CowPerm(pt[e][i].perm)
               /\ \/ pt' = pt /\ (c = NIL \/ MapMayFail)
                  \/ /\ c \in Env /\ fork_status[c] = "building" /\ c # e
                     /\ pt' \in [Env -> [Page -> Pte \cup {NIL}]]
                     /\ \A a \in Env, w \in Page :
                            pt'[a][w] = IF a = c /\ w = i THEN new ELSE pt[a][w]
<1> USE Sizes DEF SafeInv, ForkSafe
<1> DEFINE c == loc[e].child
           i == loc[e].i
           new == [frame |-> pt[e][i].frame, perm |-> CowPerm(pt[e][i].perm)]
<1>1. /\ fork_status[e] = "alive" /\ fork_pc[e] = "child" /\ cow[e].step = "none"
      /\ i \in Page /\ pt[e][i] # NIL /\ loc[e].perm = pt[e][i].perm
      /\ c \in Env \cup {NIL}
  BY DEF duppage_child, At, LoopStep, ForkTypeOK
<1>2. new \in Pte /\ new.frame = pt[e][i].frame /\ new.perm = CowPerm(pt[e][i].perm)
  <2>1. CowPerm(pt[e][i].perm) \in SUBSET Bits
    BY <1>1, IsPte DEF CowPerm, Bits
  <2> QED BY <1>1, <2>1, IsPte, MakePte
<1>3. CASE pt' = pt /\ (c = NIL \/ MapMayFail)
  BY <1>1, <1>2, <1>3
<1>4. CASE c # NIL /\ pt' = [pt EXCEPT ![c][i] = new]
  <2>1. c \in Env /\ fork_status[c] = "building" /\ c # e
    BY <1>1, <1>4 DEF OneParent
  <2> HIDE DEF new, c
  <2>2. /\ pt' \in [Env -> [Page -> Pte \cup {NIL}]]
        /\ \A a \in Env, w \in Page : pt'[a][w] = IF a = c /\ w = i THEN new ELSE pt[a][w]
    BY <1>1, <1>2, <1>4, <2>1 DEF ForkTypeOK
  <2> QED BY <1>1, <1>2, <2>1, <2>2 DEF new, c
<1>5. (pt' = pt /\ (c = NIL \/ MapMayFail)) \/ (c # NIL /\ pt' = [pt EXCEPT ![c][i] = new])
  BY <1>1 DEF duppage_child, MapToChild
<1> QED BY <1>3, <1>4, <1>5

\* What it does to the locals.
LEMMA ChildLocals ==
    ASSUME ForkConstantsOK, SafeInv, NEW e \in Env, duppage_child(e) \/ duppage_parent(e)
    PROVE  /\ UNCHANGED <<ucow, content, fork_status, entry, cow, forks, panicked>>
           /\ fork_pc' \in [Env -> {"user", "loop", "child", "parent", "entry", "run"}]
           /\ loc' \in [Env -> Locals]
           /\ \A a \in Env : a # e => fork_pc'[a] = fork_pc[a] /\ loc'[a] = loc[a]
           /\ loc'[e].child = loc[e].child
           /\ \/ /\ duppage_child(e) /\ ToCow(loc[e].perm)
                 /\ fork_pc'[e] = "parent" /\ loc'[e] = loc[e]
              \/ /\ duppage_parent(e) \/ ~ToCow(loc[e].perm)
                 /\ fork_pc'[e] = "loop" /\ loc'[e].i = loc[e].i + 1 /\ loc[e].i \in Page
<1> USE Sizes DEF SafeInv, ForkSafe, Goto
<1>1. UNCHANGED <<ucow, content, fork_status, entry, cow, forks, panicked>>
  BY DEF duppage_child, duppage_parent
<1>2. fork_pc[e] \in {"child", "parent"} /\ loc[e].i \in Page
  BY DEF duppage_child, duppage_parent, At, LoopStep
<1>3. CASE duppage_child(e) /\ ToCow(loc[e].perm)
  <2>1. fork_pc' = [fork_pc EXCEPT ![e] = "parent"] /\ UNCHANGED loc
    BY <1>3 DEF duppage_child
  <2>2. /\ fork_pc' \in [Env -> {"user", "loop", "child", "parent", "entry", "run"}]
        /\ \A a \in Env : a # e => fork_pc'[a] = fork_pc[a]
        /\ fork_pc'[e] = "parent"
    BY <2>1 DEF ForkTypeOK
  <2> QED BY <1>1, <1>3, <2>1, <2>2, LocalsFacts
<1>4. CASE duppage_parent(e) \/ ~ToCow(loc[e].perm)
  <2>1. fork_pc' = [fork_pc EXCEPT ![e] = "loop"] /\ loc' = NextPage(e)
    BY <1>4 DEF duppage_child, duppage_parent
  <2>2. /\ loc' \in [Env -> Locals]
        /\ \A a \in Env : a # e => loc'[a] = loc[a]
        /\ loc'[e].child = loc[e].child /\ loc'[e].i = loc[e].i + 1
    <3>1. {} \in SUBSET Bits /\ loc[e].i + 1 \in 1..(NPages + 1)
      BY <1>2 DEF Page
    <3>2. loc' = [loc EXCEPT ![e] = [loc[e] EXCEPT !.i = loc[e].i + 1, !.perm = {}]]
      BY <2>1, LocalsFacts DEF NextPage
    <3> HIDE DEF SafeInv
    <3>3. LET q == [loc[e] EXCEPT !.i = loc[e].i + 1, !.perm = {}] IN
          q \in Locals /\ q.child = loc[e].child /\ q.i = loc[e].i + 1
      BY <3>1, LocalsFacts DEF SafeInv, Locals
    <3> QED BY <3>2, <3>3, LocalsFacts DEF SafeInv
  <2> QED BY <1>1, <1>2, <1>4, <2>1, <2>2 DEF ForkTypeOK
<1> QED BY <1>3, <1>4

LEMMA DuppageChildSafe ==
    ASSUME ForkConstantsOK, SafeInv, NEW e \in Env, duppage_child(e)
    PROVE  SafeInv'
<1> USE Sizes DEF SafeInv, ForkSafe
<1> DEFINE c == loc[e].child
           i == loc[e].i
           new == [frame |-> pt[e][i].frame, perm |-> CowPerm(pt[e][i].perm)]
           Made == /\ c \in Env /\ fork_status[c] = "building" /\ c # e
                   /\ \A a \in Env, w \in Page :
                          pt'[a][w] = IF a = c /\ w = i THEN new ELSE pt[a][w]
<1>1. /\ fork_status[e] = "alive" /\ fork_pc[e] = "child" /\ cow[e].step = "none"
      /\ i \in Page /\ pt[e][i] # NIL /\ loc[e].perm = pt[e][i].perm
      /\ new.frame = pt[e][i].frame /\ new.perm = CowPerm(pt[e][i].perm)
      /\ pt' \in [Env -> [Page -> Pte \cup {NIL}]]
      /\ pt' = pt \/ Made
  BY ChildMapping DEF ForkTypeOK
<1>2. /\ UNCHANGED <<ucow, content, fork_status, entry, cow, forks, panicked>>
      /\ fork_pc' \in [Env -> {"user", "loop", "child", "parent", "entry", "run"}]
      /\ loc' \in [Env -> Locals]
      /\ \A a \in Env : a # e => fork_pc'[a] = fork_pc[a] /\ loc'[a] = loc[a]
      /\ loc'[e].child = c
      /\ \/ ToCow(pt[e][i].perm) /\ fork_pc'[e] = "parent" /\ loc'[e] = loc[e]
         \/ ~ToCow(pt[e][i].perm) /\ fork_pc'[e] = "loop"
  <2>1. ~duppage_parent(e)
    BY <1>1 DEF duppage_parent, At
  <2> QED BY <1>1, <2>1, ChildLocals
<1> HIDE DEF new, c, i
<1>3. ForkTypeOK'
  BY <1>1, <1>2 DEF ForkTypeOK, Locals
<1>4. WritableIsPrivate'
  <2>1. SUFFICES ASSUME NEW a \in Env, NEW w \in Page, pt'[a][w] # NIL,
                        "D" \in pt'[a][w].perm, "LIB" \notin pt'[a][w].perm,
                        NEW b \in Env, NEW u \in Page, pt'[b][u] # NIL,
                        pt'[b][u].frame = pt'[a][w].frame, <<b, u>> # <<a, w>>
                 PROVE  InWindow(a, w)' /\ <<b, u>> = <<loc'[a].child, w>>
    BY DEF WritableIsPrivate, Mapped
  <2>2. CASE pt'[a][w] = pt[a][w] /\ pt'[b][u] = pt[b][u]
    <3>1. InWindow(a, w) /\ <<b, u>> = <<loc[a].child, w>>
      BY <2>1, <2>2 DEF WritableIsPrivate, Mapped
    <3>2. a # e
      BY <1>1, <3>1 DEF InWindow
    <3> QED BY <1>2, <3>1, <3>2 DEF InWindow
  <2>3. CASE pt' # pt /\ a = c /\ w = i
    <3>1. new.perm = pt[e][i].perm
      BY <1>1, <2>1, <2>3 DEF CowPerm
    <3>2. pt[e][i].frame = pt[b][u].frame /\ pt[b][u] # NIL
      BY <1>1, <2>1, <2>3
    <3>3. \A b2 \in Env, u2 \in Page : Mapped(b2, u2, pt[e][i].frame) => <<b2, u2>> = <<e, i>>
      BY <1>1, <2>1, <2>3, <3>1 DEF WritableIsPrivate, InWindow
    <3>4. ToCow(new.perm) /\ ~ToCow(pt[e][i].perm)
      BY <1>1, <2>1, <2>3, <3>1 DEF CowPerm, ToCow
    <3> QED BY <3>1, <3>4
  <2>4. CASE pt' # pt /\ b = c /\ u = i /\ ~(a = c /\ w = i)
    <3>1. pt'[a][w] = pt[a][w] /\ Mapped(e, i, pt[a][w].frame)
      BY <1>1, <2>1, <2>4 DEF Mapped
    <3>2. <<e, i>> = <<a, w>> \/ (InWindow(a, w) /\ <<e, i>> = <<loc[a].child, w>>)
      BY <1>1, <2>1, <3>1 DEF WritableIsPrivate
    <3>3. e = a /\ i = w
      BY <1>1, <3>2 DEF OneParent
    <3>4. ToCow(pt[e][i].perm)
      BY <2>1, <3>1, <3>3 DEF ToCow
    <3> QED BY <1>2, <2>4, <3>3, <3>4 DEF InWindow, i
  <2> QED BY <1>1, <2>2, <2>3, <2>4
<1>5. Outside'
  <2>1. ASSUME NEW a \in Env, fork_status[a] = "free"
        PROVE  pt'[a] = pt[a]
    <3>1. \A w \in Page : pt'[a][w] = pt[a][w]
      BY <1>1, <2>1
    <3> QED BY <1>1, <3>1 DEF ForkTypeOK
  <2>2. \A a \in Env : fork_status[a] # "alive" => a # e
    BY <1>1
  <2> QED BY <1>1, <1>2, <2>1, <2>2 DEF Outside
<1>6. OneParent'
  <2>1. \A a \in Env : loc'[a].child = loc[a].child
    BY <1>2 DEF c
  <2> QED BY <1>2, <2>1 DEF OneParent
<1>7. \A a \in Env : fork_status[a] = "alive" => \A w \in Page : pt'[a][w] = pt[a][w]
  BY <1>1
<1>8. \A a \in Env : fork_pc[a] # "user" \/ cow[a].step # "none" => fork_status[a] = "alive"
  BY DEF Outside, ForkTypeOK
<1>9. CowStep'
  BY <1>1, <1>2, <1>7, <1>8 DEF CowStep
<1>10. LoopStep'
  <2>1. \A a \in Env : a # e => fork_pc'[a] = fork_pc[a] /\ loc'[a] = loc[a]
    BY <1>2
  <2> QED BY <1>1, <1>2, <1>7, <1>8, <2>1 DEF LoopStep, c, i
<1>11. Handlers'
  <2>1. \A a \in Env : loc'[a].child = loc[a].child
    BY <1>2 DEF c
  <2>2. \A a \in Env : /\ fork_pc'[a] # "user" => fork_pc[a] # "user"
                       /\ fork_pc'[a] = "run" => fork_pc[a] = "run"
    BY <1>1, <1>2
  <2> QED BY <1>2, <1>7, <2>1, <2>2 DEF Handlers
<1>12. UcowPrivate'
  <2>1. \A a \in Env, w \in Page, f \in Frame :
            Mapped(a, w, f)' => \E b \in Env, u \in Page : Mapped(b, u, f)
    BY <1>1 DEF Mapped
  <2>2. \A a \in Env : ucow[a] # NIL => ucow[a] \in Frame
    BY DEF ForkTypeOK
  <2> QED BY <1>2, <2>1, <2>2 DEF UcowPrivate
<1> QED BY <1>2, <1>3, <1>4, <1>5, <1>6, <1>9, <1>10, <1>11, <1>12 DEF HandlerRegistered

\* What duppage_parent does.
LEMMA ParentMapping ==
    ASSUME ForkConstantsOK, SafeInv, NEW e \in Env, duppage_parent(e)
    PROVE  LET i == loc[e].i
               P == CowPerm(pt[e][i].perm)
               new == [frame |-> pt[e][i].frame, perm |-> P]
           IN  /\ fork_status[e] = "alive" /\ fork_pc[e] = "parent" /\ cow[e].step = "none"
               /\ i \in Page /\ pt[e][i] # NIL /\ ToCow(pt[e][i].perm)
               /\ new.frame = pt[e][i].frame /\ new.perm = P /\ "D" \notin P /\ new # NIL
               /\ UNCHANGED <<ucow, content, fork_status, entry, cow, forks, panicked>>
               /\ fork_pc' \in [Env -> {"user", "loop", "child", "parent", "entry", "run"}]
               /\ loc' \in [Env -> Locals]
               /\ \A a \in Env : a # e => fork_pc'[a] = fork_pc[a] /\ loc'[a] = loc[a]
               /\ loc'[e].child = loc[e].child /\ loc'[e].i = i + 1 /\ fork_pc'[e] = "loop"
               /\ pt' \in [Env -> [Page -> Pte \cup {NIL}]]
               /\ \A a \in Env, w \in Page :
                      pt'[a][w] = IF a = e /\ w = i THEN new ELSE pt[a][w]
<1> USE Sizes DEF SafeInv, ForkSafe
<1> DEFINE i == loc[e].i
           P == CowPerm(pt[e][i].perm)
           new == [frame |-> pt[e][i].frame, perm |-> P]
<1>1. /\ fork_status[e] = "alive" /\ fork_pc[e] = "parent" /\ cow[e].step = "none"
      /\ i \in Page /\ pt[e][i] # NIL /\ loc[e].perm = pt[e][i].perm /\ ToCow(pt[e][i].perm)
  BY DEF duppage_parent, At, LoopStep
<1>2. new \in Pte /\ new.frame = pt[e][i].frame /\ new.perm = P /\ "D" \notin P
  <2>1. P \in SUBSET Bits
    BY <1>1, IsPte DEF CowPerm, Bits
  <2>2. "D" \notin P
    BY <1>1 DEF CowPerm
  <2> QED BY <1>1, <2>1, <2>2, IsPte, MakePte
<1>3. pt' = [pt EXCEPT ![e][i] = new]
  <2>1. pt' = [pt EXCEPT ![e][i] = [pt[e][i] EXCEPT !.perm = P]]
    BY <1>1 DEF duppage_parent, ForkTypeOK
  <2>2. pt[e][i] \in Pte
    BY <1>1, IsPte
  <2>3. [pt[e][i] EXCEPT !.perm = P] = new
    BY <2>2 DEF Pte
  <2> QED BY <2>1, <2>3
<1>4. /\ UNCHANGED <<ucow, content, fork_status, entry, cow, forks, panicked>>
      /\ fork_pc' \in [Env -> {"user", "loop", "child", "parent", "entry", "run"}]
      /\ loc' \in [Env -> Locals]
      /\ \A a \in Env : a # e => fork_pc'[a] = fork_pc[a] /\ loc'[a] = loc[a]
      /\ loc'[e].child = loc[e].child /\ loc'[e].i = i + 1 /\ fork_pc'[e] = "loop"
  <2>1. ~duppage_child(e)
    BY <1>1 DEF duppage_child, At
  <2> QED BY <2>1, ChildLocals
<1> HIDE DEF i, P, new
<1>5. /\ pt' \in [Env -> [Page -> Pte \cup {NIL}]]
      /\ \A a \in Env, w \in Page : pt'[a][w] = IF a = e /\ w = i THEN new ELSE pt[a][w]
  BY <1>1, <1>2, <1>3 DEF ForkTypeOK
<1> QED BY <1>1, <1>2, <1>4, <1>5 DEF i, P, new

LEMMA DuppageParentSafe ==
    ASSUME ForkConstantsOK, SafeInv, NEW e \in Env, duppage_parent(e)
    PROVE  SafeInv'
<1> USE Sizes DEF SafeInv, ForkSafe
<1> DEFINE i == loc[e].i
           P == CowPerm(pt[e][i].perm)
           new == [frame |-> pt[e][i].frame, perm |-> P]
<1>1. /\ fork_status[e] = "alive" /\ fork_pc[e] = "parent" /\ cow[e].step = "none"
      /\ i \in Page /\ pt[e][i] # NIL /\ ToCow(pt[e][i].perm)
  BY ParentMapping
<1>2. new.frame = pt[e][i].frame /\ new.perm = P /\ "D" \notin P /\ new # NIL
  BY ParentMapping
<1>4. /\ UNCHANGED <<ucow, content, fork_status, entry, cow, forks, panicked>>
      /\ fork_pc' \in [Env -> {"user", "loop", "child", "parent", "entry", "run"}]
      /\ loc' \in [Env -> Locals]
      /\ \A a \in Env : a # e => fork_pc'[a] = fork_pc[a] /\ loc'[a] = loc[a]
      /\ loc'[e].child = loc[e].child /\ fork_pc'[e] = "loop"
  BY ParentMapping
<1>5. /\ pt' \in [Env -> [Page -> Pte \cup {NIL}]]
      /\ \A a \in Env, w \in Page : pt'[a][w] = IF a = e /\ w = i THEN new ELSE pt[a][w]
  BY ParentMapping
<1> HIDE DEF i, P, new
<1>6. ForkTypeOK'
  BY <1>4, <1>5 DEF ForkTypeOK, Locals
<1>7. \A a \in Env, w \in Page : /\ pt'[a][w] = NIL <=> pt[a][w] = NIL
                                 /\ pt[a][w] # NIL => pt'[a][w].frame = pt[a][w].frame
  BY <1>1, <1>2, <1>5
<1>8. WritableIsPrivate'
  <2>1. SUFFICES ASSUME NEW a \in Env, NEW w \in Page, pt'[a][w] # NIL,
                        "D" \in pt'[a][w].perm, "LIB" \notin pt'[a][w].perm,
                        NEW b \in Env, NEW u \in Page, pt'[b][u] # NIL,
                        pt'[b][u].frame = pt'[a][w].frame, <<b, u>> # <<a, w>>
                 PROVE  InWindow(a, w)' /\ <<b, u>> = <<loc'[a].child, w>>
    BY DEF WritableIsPrivate, Mapped
  <2>2. ~(a = e /\ w = i)
    BY <1>2, <1>5, <2>1
  <2>3. pt'[a][w] = pt[a][w] /\ Mapped(b, u, pt[a][w].frame)
    BY <1>5, <1>7, <2>1, <2>2 DEF Mapped
  <2>4. InWindow(a, w) /\ <<b, u>> = <<loc[a].child, w>>
    BY <2>1, <2>3 DEF WritableIsPrivate
  <2>5. a # e
    BY <2>2, <2>4 DEF InWindow, i
  <2> QED BY <1>4, <2>4, <2>5 DEF InWindow
<1>9. Outside' /\ OneParent'
  <2>1. \A a \in Env : loc'[a].child = loc[a].child
    BY <1>4
  <2> QED BY <1>1, <1>4, <1>5, <2>1 DEF Outside, OneParent, Unmapped, ForkTypeOK
<1>10. CowStep'
  BY <1>1, <1>4, <1>5 DEF CowStep
<1>11. LoopStep'
  BY <1>1, <1>4, <1>5 DEF LoopStep
<1>12. Handlers'
  BY <1>1, <1>2, <1>4, <1>5 DEF Handlers
<1>13. UcowPrivate'
  BY <1>4, <1>7 DEF UcowPrivate, Mapped
<1> QED BY <1>4, <1>6, <1>8, <1>9, <1>10, <1>11, <1>12, <1>13 DEF HandlerRegistered

LEMMA EntrySafe ==
    ASSUME ForkConstantsOK, SafeInv, NEW e \in Env, fork_entry(e)
    PROVE  SafeInv'
<1> USE Sizes DEF SafeInv, ForkSafe
<1> DEFINE c == loc[e].child
<1>1. /\ fork_status[e] = "alive" /\ fork_pc[e] = "loop" /\ cow[e].step = "none" /\ entry[e]
      /\ loc[e].i = NPages + 1
      /\ UNCHANGED <<pt, ucow, content, fork_status, cow, forks, panicked>>
  BY LocalsFacts DEF fork_entry, At, Handlers
<1>2. CASE c = NIL
  <2>1. /\ fork_pc' = [fork_pc EXCEPT ![e] = "user"]
        /\ loc' = [loc EXCEPT ![e] = NoLocals] /\ UNCHANGED entry
        /\ NoLocals \in Locals /\ NoLocals.child = NIL
    BY <1>2 DEF fork_entry, Return, Goto, NoLocals, Locals
  <2>2. /\ \A a \in Env : fork_pc'[a] = IF a = e THEN "user" ELSE fork_pc[a]
        /\ \A a \in Env : loc'[a] = IF a = e THEN NoLocals ELSE loc[a]
        /\ \A a \in Env : loc'[a].child = loc[a].child
    BY <1>2, <2>1, LocalsFacts DEF ForkTypeOK
  <2>3. ForkTypeOK'
    <3>1. loc' \in [Env -> Locals]
      BY <2>1, LocalsFacts
    <3> QED BY <1>1, <2>1, <3>1 DEF ForkTypeOK, Locals
  <2>4. Outside' /\ CowStep' /\ OneParent'
    BY <1>1, <2>2 DEF Outside, CowStep, OneParent
  <2>5. LoopStep'
    BY <1>1, <2>2 DEF LoopStep
  <2>6. Handlers'
    <3>1. \A a \in Env : fork_pc'[a] = "run" => fork_pc[a] = "run"
      BY <2>2
    <3>2. \A a \in Env : fork_pc'[a] # "user" => fork_pc[a] # "user"
      BY <2>2
    <3> QED BY <1>1, <2>1, <2>2, <3>1, <3>2 DEF Handlers
  <2>7. WritableIsPrivate'
    BY <1>1, <2>2 DEF WritableIsPrivate, Mapped, InWindow
  <2> QED BY <1>1, <2>3, <2>4, <2>5, <2>6, <2>7 DEF HandlerRegistered, UcowPrivate, Mapped
<1>3. CASE c # NIL
  <2>1. /\ c \in Env /\ entry' = [entry EXCEPT ![c] = TRUE] /\ UNCHANGED loc
        /\ fork_pc' = [fork_pc EXCEPT ![e] = "run"]
    BY <1>3, LocalsFacts DEF fork_entry, Goto
  <2>2. /\ \A a \in Env : fork_pc'[a] = IF a = e THEN "run" ELSE fork_pc[a]
        /\ \A a \in Env : entry'[a] = IF a = c THEN TRUE ELSE entry[a]
    BY <2>1 DEF ForkTypeOK
  <2>3. ForkTypeOK'
    <3>1. entry' \in [Env -> BOOLEAN]
      BY <2>1 DEF ForkTypeOK
    <3>2. fork_pc' \in [Env -> {"user", "loop", "child", "parent", "entry", "run"}]
      BY <2>1 DEF ForkTypeOK
    <3> QED BY <1>1, <2>1, <3>1, <3>2 DEF ForkTypeOK
  <2>4. Outside' /\ CowStep' /\ OneParent'
    BY <1>1, <2>1, <2>2 DEF Outside, CowStep, OneParent
  <2>5. LoopStep'
    BY <1>1, <1>3, <2>1, <2>2 DEF LoopStep
  <2>6. Handlers'
    <3>1. \A a \in Env : entry[a] => entry'[a]
      BY <2>2
    <3>2. \A a \in Env : fork_pc[a] = "run" => loc[a].child \in Env
      BY LocalsFacts DEF LoopStep
    <3>3. \A a \in Env : fork_pc'[a] # "user" => entry'[a]
      BY <1>1, <2>2, <3>1 DEF Handlers
    <3>4. \A a \in Env : fork_pc'[a] = "run" => entry'[loc'[a].child]
      <4>1. ASSUME NEW a \in Env, fork_pc[a] = "run"
            PROVE  entry'[loc[a].child]
        BY <2>2, <3>1, <3>2, <4>1 DEF Handlers
      <4>2. entry'[loc[e].child]
        BY <2>1, <2>2
      <4> QED BY <2>1, <2>2, <4>1, <4>2
    <3>5. \A a \in Env : fork_status'[a] = "alive" => \A v \in Page :
              pt'[a][v] # NIL /\ "D" \notin pt'[a][v].perm => entry'[a]
      BY <1>1, <3>1 DEF Handlers
    <3> QED BY <3>3, <3>4, <3>5 DEF Handlers
  <2>7. WritableIsPrivate'
    BY <1>1, <2>1, <2>2 DEF WritableIsPrivate, Mapped, InWindow
  <2> QED BY <1>1, <2>3, <2>4, <2>5, <2>6, <2>7 DEF HandlerRegistered, UcowPrivate, Mapped
<1> QED BY <1>2, <1>3

LEMMA RunSafe ==
    ASSUME ForkConstantsOK, SafeInv, NEW e \in Env, fork_run(e)
    PROVE  SafeInv'
<1> USE Sizes DEF SafeInv, ForkSafe
<1> DEFINE c == loc[e].child
<1>1. /\ fork_status[e] = "alive" /\ fork_pc[e] = "run" /\ cow[e].step = "none"
      /\ c \in Env /\ fork_status[c] = "building" /\ c # e /\ entry[c]
      /\ fork_pc[c] = "user" /\ cow[c].step = "none"
      /\ UNCHANGED <<pt, ucow, content, entry, cow, forks, panicked>>
  BY LocalsFacts DEF fork_run, At, LoopStep, OneParent, Handlers, Outside
<1>2. /\ fork_status' = [fork_status EXCEPT ![c] = "alive"]
      /\ fork_pc' = [fork_pc EXCEPT ![e] = "user"] /\ loc' = [loc EXCEPT ![e] = NoLocals]
      /\ NoLocals \in Locals /\ NoLocals.child = NIL
  BY DEF fork_run, Return, Goto, NoLocals, Locals
<1>3. /\ \A a \in Env : fork_status'[a] = IF a = c THEN "alive" ELSE fork_status[a]
      /\ \A a \in Env : fork_pc'[a] = IF a = e THEN "user" ELSE fork_pc[a]
      /\ \A a \in Env : loc'[a] = IF a = e THEN NoLocals ELSE loc[a]
  BY <1>2, LocalsFacts DEF ForkTypeOK
<1>4. ForkTypeOK'
  <2>1. loc' \in [Env -> Locals]
    BY <1>2, LocalsFacts
  <2>2. fork_status' \in [Env -> {"free", "building", "alive"}]
    BY <1>2 DEF ForkTypeOK
  <2>3. fork_pc' \in [Env -> {"user", "loop", "child", "parent", "entry", "run"}]
    BY <1>2 DEF ForkTypeOK
  <2> QED BY <1>1, <2>1, <2>2, <2>3 DEF ForkTypeOK, Locals
<1>5. OneParent'
  <2>1. \A a \in Env : a # e /\ loc[a].child # NIL => loc[a].child # c /\ loc[a].child \in Env
    BY <1>1, LocalsFacts DEF OneParent
  <2>2. \A a \in Env : loc'[a].child = IF a = e THEN NIL ELSE loc[a].child
    BY <1>2, <1>3
  <2> QED BY <1>3, <2>1, <2>2 DEF OneParent
<1>6. Outside' /\ CowStep'
  BY <1>1, <1>3 DEF Outside, CowStep
<1>7. LoopStep'
  BY <1>1, <1>3 DEF LoopStep
<1>8. Handlers'
  BY <1>1, <1>3 DEF Handlers
<1>9. WritableIsPrivate'
  BY <1>1, <1>3 DEF WritableIsPrivate, Mapped, InWindow
<1> QED BY <1>1, <1>4, <1>5, <1>6, <1>7, <1>8, <1>9 DEF HandlerRegistered, UcowPrivate, Mapped

LEMMA ExitSafe ==
    ASSUME ForkConstantsOK, SafeInv, NEW e \in Env, exit(e)
    PROVE  SafeInv'
<1> USE Sizes DEF SafeInv, ForkSafe
<1>1. /\ fork_status[e] = "alive" /\ fork_pc[e] = "user" /\ cow[e].step = "none"
      /\ UNCHANGED <<ucow, entry, fork_pc, loc, cow, forks, panicked>>
  BY DEF exit, At
<1>2. /\ \A a \in Env : fork_status'[a] = IF a = e THEN "free" ELSE fork_status[a]
      /\ \A a \in Env : pt'[a] = IF a = e THEN Unmapped ELSE pt[a]
      /\ \A a \in Env, w \in Page : pt'[a][w] = IF a = e THEN NIL ELSE pt[a][w]
  BY DEF exit, ForkTypeOK, Unmapped
<1>3. ForkTypeOK'
  <2>1. pt' \in [Env -> [Page -> Pte \cup {NIL}]]
    BY DEF exit, ForkTypeOK, Unmapped
  <2>2. content' \in [Frame -> Value]
    BY ClearedType DEF exit
  <2>3. fork_status' \in [Env -> {"free", "building", "alive"}]
    BY DEF exit, ForkTypeOK
  <2> QED BY <1>1, <2>1, <2>2, <2>3 DEF ForkTypeOK
<1>4. Outside' /\ CowStep' /\ OneParent'
  <2>1. \A a \in Env : loc[a].child # e
    BY <1>1 DEF OneParent
  <2> QED BY <1>1, <1>2, <2>1, LocalsFacts DEF Outside, CowStep, OneParent
<1>5. LoopStep'
  BY <1>1, <1>2 DEF LoopStep
<1>6. Handlers'
  BY <1>1, <1>2 DEF Handlers
<1>7. WritableIsPrivate' /\ UcowPrivate'
  <2>1. \A a \in Env, w \in Page : pt'[a][w] # NIL => pt'[a][w] = pt[a][w]
    BY <1>2
  <2> QED BY <1>1, <2>1 DEF WritableIsPrivate, UcowPrivate, Mapped, InWindow
<1> QED BY <1>1, <1>3, <1>4, <1>5, <1>6, <1>7 DEF HandlerRegistered

LEMMA PagesFit ==
    ASSUME ForkConstantsOK, Env # {}
    PROVE  Page \subseteq Frame
<1>1. Cardinality(Env) \in Nat /\ Cardinality(Env) # 0
  BY Sizes, FS_CardinalityType, FS_EmptySet
<1>2. \A n, m \in Nat : m # 0 => (n + 1) * m >= n + 1
  <2>1. \A n, m \in Nat : (n + 1) * (m + 1) = (n + 1) * m + (n + 1) /\ (n + 1) * m \in Nat
    OBVIOUS
  <2>2. \A m \in Nat : m # 0 => m - 1 \in Nat /\ m = (m - 1) + 1
    OBVIOUS
  <2> QED BY <2>1, <2>2
<1>3. (NPages + 1) * Cardinality(Env) >= NPages + 1
  BY <1>1, <1>2, Sizes
<1>4. NFrames > (NPages + 1) * Cardinality(Env)
  BY DEF ForkConstantsOK
<1> QED BY <1>1, <1>3, <1>4, Sizes DEF Page, Frame

\* The pages of the first environment.
RootPage(v) == [frame |-> v, perm |-> {"D"} \cup IF v \in Library THEN {"LIB"} ELSE {}]

LEMMA InitPages ==
    ASSUME ForkConstantsOK, ForkInit
    PROVE  \E root \in Env :
             /\ fork_status = [e \in Env |-> IF e = root THEN "alive" ELSE "free"]
             /\ pt \in [Env -> [Page -> Pte \cup {NIL}]]
             /\ \A e \in Env : e # root => pt[e] = Unmapped
             /\ \A e \in Env, v \in Page : pt[e][v] # NIL => e = root
             /\ \A v \in Page : /\ pt[root][v] # NIL /\ pt[root][v].frame = v
                                /\ "D" \in pt[root][v].perm
                                /\ v \in Library => pt[root][v].perm = {"D", "LIB"}
                                /\ v \notin Library => "LIB" \notin pt[root][v].perm
<1>1. PICK root \in Env :
        /\ pt = [e \in Env |-> IF e = root THEN [v \in Page |-> RootPage(v)] ELSE Unmapped]
        /\ fork_status = [e \in Env |-> IF e = root THEN "alive" ELSE "free"]
  BY DEF ForkInit, RootPage
<1>2. \A v \in Page : RootPage(v) \in Pte
  BY <1>1, PagesFit DEF RootPage, Pte, Bits
<1>3. \A v \in Page : /\ RootPage(v).frame = v /\ "D" \in RootPage(v).perm
                      /\ v \in Library => RootPage(v).perm = {"D", "LIB"}
                      /\ v \notin Library => "LIB" \notin RootPage(v).perm
  BY DEF RootPage
<1>4. \A v \in Page : pt[root][v] = RootPage(v) /\ pt[root][v] # NIL
  BY <1>1, <1>2, Sizes
<1>5. \A e \in Env, v \in Page : pt[e][v] # NIL => e = root
  BY <1>1 DEF Unmapped
<1>6. pt \in [Env -> [Page -> Pte \cup {NIL}]]
  <2>1. [v \in Page |-> RootPage(v)] \in [Page -> Pte \cup {NIL}]
    BY <1>2
  <2>2. Unmapped \in [Page -> Pte \cup {NIL}]
    BY DEF Unmapped
  <2> QED BY <1>1, <2>1, <2>2
<1> QED BY <1>1, <1>3, <1>4, <1>5, <1>6

LEMMA InitSafe == ForkConstantsOK /\ ForkInit => SafeInv
<1> SUFFICES ASSUME ForkConstantsOK, ForkInit PROVE SafeInv
  OBVIOUS
<1> USE Sizes
<1>1. PICK root \in Env :
        /\ fork_status = [e \in Env |-> IF e = root THEN "alive" ELSE "free"]
        /\ pt \in [Env -> [Page -> Pte \cup {NIL}]]
        /\ \A e \in Env : e # root => pt[e] = Unmapped
        /\ \A e \in Env, v \in Page : pt[e][v] # NIL => e = root
        /\ \A v \in Page : pt[root][v].frame = v /\ "D" \in pt[root][v].perm
  BY InitPages
<1>2. /\ ucow = [e \in Env |-> NIL] /\ content = [f \in Frame |-> Zero]
      /\ entry = [e \in Env |-> FALSE] /\ fork_pc = [e \in Env |-> "user"]
      /\ loc = [e \in Env |-> NoLocals] /\ cow = [e \in Env |-> NoCow]
      /\ forks = 0 /\ panicked = FALSE
  BY DEF ForkInit
<1>4. \A e \in Env, v \in Page : pt[e][v] # NIL =>
          e = root /\ pt[e][v].frame = v /\ "D" \in pt[e][v].perm
  BY <1>1
<1>5. ForkTypeOK
  <2>2. loc \in [Env -> Locals] /\ MaxForks \in Nat /\ Zero \in Value
    BY <1>2 DEF NoLocals, Locals, ForkConstantsOK
  <2>3. cow \in [Env -> [step : {"none", "copy", "map"}, va : Page \cup {NIL}]]
    BY <1>2 DEF NoCow
  <2>4. /\ ucow \in [Env -> Frame \cup {NIL}] /\ content \in [Frame -> Value]
        /\ forks \in 0..MaxForks
    BY <1>2, <2>2
  <2>6. entry \in [Env -> BOOLEAN] /\ panicked \in BOOLEAN
    BY <1>2
  <2>5. /\ fork_status \in [Env -> {"free", "building", "alive"}]
        /\ fork_pc \in [Env -> {"user", "loop", "child", "parent", "entry", "run"}]
    BY <1>1, <1>2
  <2> QED BY <1>1, <2>2, <2>3, <2>4, <2>5, <2>6 DEF ForkTypeOK, Locals
<1>6. HandlerRegistered /\ WritableIsPrivate
  BY <1>2, <1>4 DEF HandlerRegistered, WritableIsPrivate, Mapped
<1>7. Outside /\ OneParent /\ CowStep /\ LoopStep
  BY <1>1, <1>2 DEF Outside, OneParent, CowStep, LoopStep, NoLocals, NoCow
<1>8. Handlers /\ UcowPrivate
  BY <1>2, <1>4 DEF Handlers, UcowPrivate
<1> QED BY <1>5, <1>6, <1>7, <1>8 DEF SafeInv, ForkSafe

LEMMA StepSafe == ForkConstantsOK /\ SafeInv /\ [ForkNext]_forkVars => SafeInv'
<1> SUFFICES ASSUME ForkConstantsOK, SafeInv, [ForkNext]_forkVars PROVE SafeInv'
  OBVIOUS
<1>1. CASE ForkNext
  BY <1>1, StoreSafe, FaultSafe, CopySafe, MapSafe, ForkSafeStep, NoChildSafe, DuppageSafe,
     DuppageChildSafe, DuppageParentSafe, EntrySafe, RunSafe, ExitSafe DEF ForkNext
<1>2. CASE UNCHANGED forkVars
  BY <1>2 DEF forkVars, SafeInv, ForkSafe, ForkTypeOK, HandlerRegistered, WritableIsPrivate, Mapped,
     InWindow, Outside, OneParent, CowStep, LoopStep, Handlers, UcowPrivate
<1> QED BY <1>1, <1>2

\* fork.c and tlbex.c: no fault on a copy-on-write page finds the environment without a
\* handler, and a page that can be written without a fault is mapped nowhere else,
\* library pages excepted.  For any number of environments, pages and forks, and also
\* where system calls of duppage fail.
THEOREM ForkIsSafe == ForkSpec => []ForkSafe
<1> USE ForkConstantsAssumption
<1>1. ForkInit => SafeInv
  BY InitSafe
<1>2. SafeInv /\ [ForkNext]_forkVars => SafeInv'
  BY StepSafe
<1>3. SafeInv => ForkSafe
  BY DEF SafeInv
<1> QED BY <1>1, <1>2, <1>3, PTL DEF ForkSpec

-----------------------------------------------------------------------------
(* The copies.                                                              *)

\* A page is mapped at one address, wherever it is mapped.
SamePlace ==
    \A e, a \in Env, v, w \in Page :
        pt[e][v] # NIL /\ pt[a][w] # NIL /\ pt[e][v].frame = pt[a][w].frame => v = w

\* Library pages are mapped by everybody, writable, and are the same for all.
LibraryPerm ==
    \A e \in Env, v \in Page : pt[e][v] # NIL =>
        IF v \in Library THEN pt[e][v].perm = {"D", "LIB"} ELSE "LIB" \notin pt[e][v].perm
LibraryMapped == \A e \in Env, v \in Library : fork_status[e] = "alive" => pt[e][v] # NIL
LibraryOne ==
    \A e, a \in Env, v \in Library :
        pt[e][v] # NIL /\ pt[a][v] # NIL => pt[e][v].frame = pt[a][v].frame

\* Between its copy and its mapping, the page at UCOW stays a copy.
CopyMade ==
    \A e \in Env : cow[e].step = "map" => content[ucow[e]] = content[pt[e][cow[e].va].frame]

\* A child has its parent's pages up to the one fork is at, and no other.
SameFrame(e, a, v) ==
    /\ pt[e][v] = NIL <=> pt[a][v] = NIL
    /\ pt[e][v] # NIL => pt[e][v].frame = pt[a][v].frame
Reached(e, v) == v < loc[e].i \/ InWindow(e, v)
ChildCopied ==
    \A e \in Env, v \in Page : loc[e].child # NIL =>
        IF Reached(e, v)
        THEN IF v = Stack THEN pt[loc[e].child][v] # NIL ELSE SameFrame(e, loc[e].child, v)
        ELSE pt[loc[e].child][v] = NIL

CopyInv == /\ SafeInv /\ SamePlace /\ LibraryPerm /\ LibraryMapped /\ LibraryOne
           /\ CopyMade /\ ChildCopied

\* Parents run and children do not.
LEMMA ParentFacts ==
    ASSUME ForkConstantsOK, SafeInv
    PROVE  /\ \A e \in Env : loc[e].child # NIL =>
                  /\ fork_status[e] = "alive" /\ fork_pc[e] # "user"
                  /\ loc[e].child \in Env /\ fork_status[loc[e].child] = "building"
           /\ \A e \in Env : cow[e].step # "none" => fork_status[e] = "alive"
<1>1. \A e \in Env : fork_pc[e] = "user" => loc[e].child = NIL
  BY DEF SafeInv, Outside, NoLocals
<1> QED BY <1>1, LocalsFacts DEF SafeInv, ForkSafe, Outside, OneParent

\* A step that changes no entry and no content that is read keeps the copies.
LEMMA SameTables ==
    ASSUME ForkConstantsOK, CopyInv, UNCHANGED pt,
           \A a \in Env : fork_status'[a] = "alive" => fork_status[a] = "alive"
    PROVE  SamePlace' /\ LibraryPerm' /\ LibraryMapped' /\ LibraryOne'
BY Sizes DEF CopyInv, SamePlace, LibraryPerm, LibraryMapped, LibraryOne

LEMMA StoreCopies ==
    ASSUME ForkConstantsOK, CopyInv, NEW e \in Env, NEW v \in Page, NEW x \in Value, store(e, v, x)
    PROVE  /\ SamePlace' /\ LibraryPerm' /\ LibraryMapped' /\ LibraryOne'
           /\ CopyMade' /\ ChildCopied'
<1> USE Sizes, NewFrameFree, InUseFacts DEF CopyInv, SafeInv, ForkSafe
<1> DEFINE new == [frame |-> NewFrame, perm |-> {"D"}]
<1>1. /\ UNCHANGED <<ucow, fork_status, entry, fork_pc, loc, cow, forks, panicked>>
      /\ fork_status[e] = "alive" /\ cow[e].step = "none" /\ (fork_pc[e] = "user" \/ v = Stack)
  BY DEF store, MayStore
<1>2. CASE pt[e][v] = NIL
  <2>1. pt' = [pt EXCEPT ![e][v] = new] /\ content' = [content EXCEPT ![NewFrame] = x]
    BY <1>2 DEF store
  <2>2. new # NIL /\ new.frame = NewFrame /\ new.perm = {"D"}
    BY DEF Pte, Bits
  <2>3. /\ \A a \in Env, w \in Page : pt'[a][w] = IF a = e /\ w = v THEN new ELSE pt[a][w]
        /\ \A f \in Frame : f # NewFrame => content'[f] = content[f]
    BY <2>1 DEF ForkTypeOK
  <2>4. v \notin Library
    BY <1>1, <1>2 DEF LibraryMapped
  <2>5. \A a \in Env, w \in Page : pt[a][w] # NIL =>
            pt'[a][w] = pt[a][w] /\ pt[a][w].frame # NewFrame /\ pt[a][w].frame \in Frame
    BY <1>2, <2>3, IsPte
  <2>6. SamePlace'
    BY <2>2, <2>3, <2>5 DEF SamePlace
  <2>7. LibraryPerm' /\ LibraryMapped' /\ LibraryOne'
    BY <1>1, <2>2, <2>3, <2>4 DEF LibraryPerm, LibraryMapped, LibraryOne
  <2>8. CopyMade'
    BY <1>1, <2>3, <2>5 DEF CopyMade, CowStep, ForkTypeOK
  <2>9. ChildCopied'
    <3>1. SUFFICES ASSUME NEW a \in Env, NEW w \in Page, loc[a].child # NIL
                   PROVE  IF Reached(a, w)
                          THEN IF w = Stack THEN pt'[loc[a].child][w] # NIL
                                            ELSE SameFrame(a, loc[a].child, w)'
                          ELSE pt'[loc[a].child][w] = NIL
      BY <1>1 DEF ChildCopied, Reached, InWindow
    <3>2. pt'[loc[a].child][w] = pt[loc[a].child][w]
      BY <1>1, <2>3, <3>1, ParentFacts
    <3>3. w = Stack \/ pt'[a][w] = pt[a][w]
      <4>1. a = e => v = Stack
        BY <1>1, <3>1, ParentFacts
      <4> QED BY <2>3, <4>1
    <3>4. IF Reached(a, w)
          THEN IF w = Stack THEN pt[loc[a].child][w] # NIL ELSE SameFrame(a, loc[a].child, w)
          ELSE pt[loc[a].child][w] = NIL
      BY <3>1 DEF ChildCopied
    <3>5. w # Stack /\ SameFrame(a, loc[a].child, w) => SameFrame(a, loc[a].child, w)'
      BY <1>1, <3>2, <3>3 DEF SameFrame
    <3> QED BY <3>2, <3>4, <3>5
  <2> QED BY <2>6, <2>7, <2>8, <2>9
<1>3. CASE pt[e][v] # NIL
  <2> DEFINE f == pt[e][v].frame
  <2>1. "D" \in pt[e][v].perm /\ content' = [content EXCEPT ![f] = x] /\ UNCHANGED pt /\ f \in Frame
    BY <1>3, IsPte DEF store
  <2>2. \A g \in Frame : g # f => content'[g] = content[g]
    BY <2>1 DEF ForkTypeOK
  <2>3. CopyMade'
    <3>1. SUFFICES ASSUME NEW a \in Env, cow[a].step = "map"
                   PROVE  content'[ucow[a]] = content'[pt[a][cow[a].va].frame]
      BY <1>1, <2>1 DEF CopyMade
    <3>2. /\ cow[a].va \in Page /\ pt[a][cow[a].va] # NIL /\ "D" \notin pt[a][cow[a].va].perm
          /\ ucow[a] # NIL /\ fork_status[a] = "alive" /\ a # e
          /\ ucow[a] \in Frame /\ pt[a][cow[a].va].frame \in Frame
      <4>1. /\ cow[a].va \in Page /\ pt[a][cow[a].va] # NIL
            /\ "D" \notin pt[a][cow[a].va].perm /\ ucow[a] # NIL
        BY <3>1 DEF CowStep
      <4>2. fork_status[a] = "alive" /\ a # e
        BY <1>1, <3>1, ParentFacts
      <4>3. ucow[a] \in Frame
        BY <4>1 DEF ForkTypeOK
      <4> QED BY <4>1, <4>2, <4>3, IsPte
    <3>3. ucow[a] # f
      BY <1>3, <3>2 DEF UcowPrivate, Mapped
    <3>4. pt[a][cow[a].va].frame # f
      <4>1. SUFFICES ASSUME pt[a][cow[a].va].frame = f PROVE FALSE
        OBVIOUS
      <4>2. cow[a].va = v
        BY <1>3, <3>2, <4>1 DEF SamePlace
      <4>3. v \notin Library /\ "LIB" \notin pt[e][v].perm
        BY <1>3, <3>2, <4>2 DEF LibraryPerm
      <4>4. <<a, v>> = <<loc[e].child, v>> /\ fork_pc[e] = "parent"
        BY <1>3, <2>1, <3>2, <4>1, <4>2, <4>3 DEF WritableIsPrivate, Mapped, InWindow
      <4> QED BY <3>2, <4>4, ParentFacts
    <3> QED BY <2>2, <3>1, <3>2, <3>3, <3>4 DEF CopyMade
  <2>4. ChildCopied'
    BY <1>1, <2>1 DEF ChildCopied, Reached, InWindow, SameFrame
  <2> QED BY <1>1, <2>1, <2>3, <2>4, SameTables
<1> QED BY <1>2, <1>3

LEMMA CowCopies ==
    ASSUME ForkConstantsOK, CopyInv, NEW e \in Env, cow_copy(e)
    PROVE  /\ SamePlace' /\ LibraryPerm' /\ LibraryMapped' /\ LibraryOne'
           /\ CopyMade' /\ ChildCopied'
<1> USE Sizes, NewFrameFree, InUseFacts DEF CopyInv, SafeInv, ForkSafe
<1> DEFINE va == cow[e].va
<1>1. /\ va \in Page /\ pt[e][va] # NIL
      /\ UNCHANGED <<pt, fork_status, entry, fork_pc, loc, forks, panicked>>
  BY DEF cow_copy, InCow, CowStep
<1>2. /\ \A a \in Env : ucow'[a] = IF a = e THEN NewFrame ELSE ucow[a]
      /\ \A a \in Env : cow'[a] = IF a = e THEN [step |-> "map", va |-> va] ELSE cow[a]
      /\ content'[NewFrame] = content[pt[e][va].frame]
      /\ \A g \in Frame : g # NewFrame => content'[g] = content[g]
  BY DEF cow_copy, ForkTypeOK
<1>3. CopyMade'
  <2>1. SUFFICES ASSUME NEW a \in Env, cow'[a].step = "map"
                 PROVE  content'[ucow'[a]] = content'[pt[a][cow'[a].va].frame]
    BY <1>1 DEF CopyMade
  <2>2. CASE a = e
    <3>1. pt[e][va].frame \in Frame /\ pt[e][va].frame # NewFrame
      BY <1>1, IsPte
    <3> QED BY <1>2, <2>2, <3>1
  <2>3. CASE a # e
    <3>1. cow[a].step = "map" /\ cow[a].va \in Page /\ pt[a][cow[a].va] # NIL /\ ucow[a] # NIL
      BY <1>2, <2>1, <2>3 DEF CowStep
    <3>2. /\ ucow[a] \in Frame /\ ucow[a] # NewFrame
          /\ pt[a][cow[a].va].frame \in Frame /\ pt[a][cow[a].va].frame # NewFrame
      BY <3>1, IsPte DEF ForkTypeOK
    <3> QED BY <1>2, <2>3, <3>1, <3>2 DEF CopyMade
  <2> QED BY <2>2, <2>3
<1>4. ChildCopied'
  BY <1>1 DEF ChildCopied, Reached, InWindow, SameFrame
<1> QED BY <1>1, <1>3, <1>4, SameTables

\* Clearing a page when it becomes free changes nothing that is read.
LEMMA ClearedSame ==
    ASSUME ForkConstantsOK, ForkTypeOK, ForkTypeOK', content' = Cleared
    PROVE  /\ \A a \in Env, w \in Page : pt'[a][w] # NIL =>
                  content'[pt'[a][w].frame] = content[pt'[a][w].frame]
           /\ \A a \in Env : ucow'[a] # NIL => content'[ucow'[a]] = content[ucow'[a]]
<1>1. \A a \in Env, w \in Page : pt'[a][w] # NIL => pt'[a][w].frame \in Frame
  BY DEF ForkTypeOK, Pte
<1>2. \A a \in Env, w \in Page : pt'[a][w] # NIL => pt'[a][w].frame \in InUse'
  BY <1>1, Sizes DEF InUse
<1>3. \A a \in Env : ucow'[a] # NIL => ucow'[a] \in InUse' /\ ucow'[a] \in Frame
  BY DEF ForkTypeOK, InUse
<1> QED BY <1>1, <1>2, <1>3 DEF Cleared

LEMMA MapCopies ==
    ASSUME ForkConstantsOK, CopyInv, SafeInv', NEW e \in Env, cow_map(e)
    PROVE  /\ SamePlace' /\ LibraryPerm' /\ LibraryMapped' /\ LibraryOne'
           /\ CopyMade' /\ ChildCopied'
<1> USE Sizes DEF CopyInv, SafeInv, ForkSafe
<1> DEFINE va == cow[e].va
           P == (pt[e][va].perm \ {"COW"}) \cup {"D"}
           new == [frame |-> ucow[e], perm |-> P]
<1>1. /\ va \in Page /\ pt[e][va] # NIL /\ "D" \notin pt[e][va].perm
      /\ ucow[e] # NIL /\ ucow[e] \in Frame /\ fork_status[e] = "alive"
      /\ fork_pc[e] = "user" \/ va = Stack
      /\ new.frame = ucow[e] /\ new.perm = P /\ new # NIL
      /\ UNCHANGED <<fork_status, entry, fork_pc, loc, forks, panicked>>
  BY MapEffect
<1>2. /\ \A a \in Env, w \in Page : pt'[a][w] = IF a = e /\ w = va THEN new ELSE pt[a][w]
      /\ \A a \in Env : ucow'[a] = IF a = e THEN NIL ELSE ucow[a]
      /\ \A a \in Env : cow'[a] = IF a = e THEN NoCow ELSE cow[a]
  BY MapEffect
<1>3. va \notin Library /\ "LIB" \notin P
  BY <1>1 DEF LibraryPerm
<1> HIDE DEF P, new
<1>4. SamePlace'
  <2>1. \A a \in Env, w \in Page : pt[a][w] # NIL => pt[a][w].frame # ucow[e]
    BY <1>1 DEF UcowPrivate, Mapped
  <2> QED BY <1>1, <1>2, <2>1 DEF SamePlace
<1>5. LibraryPerm' /\ LibraryMapped' /\ LibraryOne'
  BY <1>1, <1>2, <1>3 DEF LibraryPerm, LibraryMapped, LibraryOne
<1>6. CopyMade'
  <2>1. SUFFICES ASSUME NEW a \in Env, cow'[a].step = "map"
                 PROVE  content'[ucow'[a]] = content'[pt'[a][cow'[a].va].frame]
    BY DEF CopyMade
  <2>2. a # e /\ cow'[a] = cow[a] /\ ucow'[a] = ucow[a]
    BY <1>2, <2>1 DEF NoCow
  <2>3. cow[a].va \in Page /\ pt[a][cow[a].va] # NIL /\ ucow[a] # NIL
    BY <2>1, <2>2 DEF CowStep
  <2>4. pt'[a][cow[a].va] = pt[a][cow[a].va]
    BY <1>2, <2>2, <2>3
  <2>5. content[ucow[a]] = content[pt[a][cow[a].va].frame]
    BY <2>1, <2>2 DEF CopyMade
  <2>6. content' = Cleared
    BY DEF cow_map
  <2> QED BY <2>2, <2>3, <2>4, <2>5, <2>6, ClearedSame
<1>7. ChildCopied'
  <2>1. SUFFICES ASSUME NEW a \in Env, NEW w \in Page, loc[a].child # NIL
                 PROVE  IF Reached(a, w)
                        THEN IF w = Stack THEN pt'[loc[a].child][w] # NIL
                                          ELSE SameFrame(a, loc[a].child, w)'
                        ELSE pt'[loc[a].child][w] = NIL
    BY <1>1 DEF ChildCopied, Reached, InWindow
  <2>2. pt'[loc[a].child][w] = pt[loc[a].child][w]
    BY <1>1, <1>2, <2>1, ParentFacts
  <2>3. w = Stack \/ pt'[a][w] = pt[a][w]
    <3>1. a = e => va = Stack
      BY <1>1, <2>1, ParentFacts
    <3> QED BY <1>2, <3>1
  <2>4. IF Reached(a, w)
        THEN IF w = Stack THEN pt[loc[a].child][w] # NIL ELSE SameFrame(a, loc[a].child, w)
        ELSE pt[loc[a].child][w] = NIL
    BY <2>1 DEF ChildCopied
  <2>5. w # Stack /\ SameFrame(a, loc[a].child, w) => SameFrame(a, loc[a].child, w)'
    BY <1>1, <2>2, <2>3 DEF SameFrame
  <2> QED BY <2>2, <2>4, <2>5
<1> QED BY <1>4, <1>5, <1>6, <1>7

LEMMA CallCopies ==
    ASSUME ForkConstantsOK, CopyInv, NEW e \in Env,
           \/ \E v \in Page : do_tlb_mod(e, v)
           \/ \E c \in Env : fork(e, c)
           \/ fork_no_child(e) \/ fork_duppage(e) \/ fork_entry(e)
    PROVE  /\ SamePlace' /\ LibraryPerm' /\ LibraryMapped' /\ LibraryOne'
           /\ CopyMade' /\ ChildCopied'
<1> USE Sizes DEF CopyInv, SafeInv, ForkSafe
<1>1. UNCHANGED <<pt, ucow, content>>
  BY DEF do_tlb_mod, fork, fork_no_child, fork_duppage, fork_entry
<1>2. \A a \in Env : fork_status'[a] = "alive" => fork_status[a] = "alive"
  BY DEF do_tlb_mod, fork, fork_no_child, fork_duppage, fork_entry, ForkTypeOK
<1>3. CopyMade'
  <2>1. \A a \in Env : cow'[a].step = "map" => cow'[a] = cow[a]
    BY DEF do_tlb_mod, fork, fork_no_child, fork_duppage, fork_entry, ForkTypeOK
  <2> QED BY <1>1, <2>1 DEF CopyMade
<1>4. ChildCopied'
  <2>1. CASE \/ \E v \in Page : do_tlb_mod(e, v)
             \/ fork_no_child(e)
    <3>1. UNCHANGED loc /\ \A a \in Env : fork_pc'[a] = "parent" <=> fork_pc[a] = "parent"
      BY <2>1 DEF do_tlb_mod, fork_no_child, At, Goto, ForkTypeOK
    <3> QED BY <1>1, <3>1 DEF ChildCopied, Reached, InWindow, SameFrame
  <2>2. ASSUME NEW c \in Env, fork(e, c)
        PROVE  ChildCopied'
    <3>1. /\ \A a \in Env : loc'[a] = IF a = e THEN [loc[e] EXCEPT !.child = c] ELSE loc[a]
          /\ \A a \in Env : fork_pc'[a] = IF a = e THEN "loop" ELSE fork_pc[a]
          /\ fork_pc[e] = "user" /\ loc[e] = NoLocals /\ fork_status[c] = "free" /\ pt[c] = Unmapped
      BY <2>2 DEF fork, At, Goto, ForkTypeOK, Outside
    <3>2. loc'[e].child = c /\ loc'[e].i = 1
      BY <3>1 DEF NoLocals
    <3>3. \A v \in Page : ~Reached(e, v)' /\ pt[c][v] = NIL
      BY <3>1, <3>2 DEF Reached, InWindow, Page, Unmapped
    <3> QED BY <1>1, <3>1, <3>2, <3>3 DEF ChildCopied, Reached, InWindow, SameFrame
  <2>3. CASE fork_duppage(e)
    <3> DEFINE i == loc[e].i
    <3>1. /\ fork_pc[e] = "loop" /\ i \in Page /\ pt[e][Stack] # NIL
          /\ \A a \in Env : a # e => fork_pc'[a] = fork_pc[a] /\ loc'[a] = loc[a]
          /\ loc'[e].child = loc[e].child /\ fork_pc'[e] # "parent"
      BY <2>3 DEF fork_duppage, At, Goto, ForkTypeOK, Page
    <3>2. CASE pt[e][i] # NIL
      <4>1. loc'[e].i = i
        BY <2>3, <3>2 DEF fork_duppage, ForkTypeOK
      <4> QED BY <1>1, <3>1, <4>1 DEF ChildCopied, Reached, InWindow, SameFrame
    <3>3. CASE pt[e][i] = NIL
      <4>1. loc'[e].i = i + 1 /\ i # Stack
        BY <2>3, <3>1, <3>3 DEF fork_duppage, ForkTypeOK
      <4>2. \A v \in Page : Reached(e, v)' <=> v = i \/ Reached(e, v)
        BY <3>1, <4>1 DEF Reached, InWindow, Page
      <4>3. ~Reached(e, i)
        BY <3>1 DEF Reached, InWindow, Page
      <4> QED BY <1>1, <3>1, <3>3, <4>1, <4>2, <4>3 DEF ChildCopied, Reached, InWindow, SameFrame
    <3> QED BY <3>2, <3>3
  <2>4. CASE fork_entry(e)
    <3>1. /\ \A a \in Env : fork_pc'[a] = "parent" <=> fork_pc[a] = "parent"
          /\ loc' = loc \/ loc' = [loc EXCEPT ![e] = NoLocals]
      BY <2>4 DEF fork_entry, At, Goto, Return, ForkTypeOK
    <3>2. \A a \in Env : loc'[a] = loc[a] \/ loc'[a].child = NIL
      BY <3>1, LocalsFacts DEF NoLocals
    <3> QED BY <1>1, <3>1, <3>2 DEF ChildCopied, Reached, InWindow, SameFrame
  <2> QED BY <2>1, <2>2, <2>3, <2>4
<1> QED BY <1>1, <1>2, <1>3, <1>4, SameTables

LEMMA ChildCopies ==
    ASSUME ForkConstantsOK, ~MapMayFail, CopyInv, NEW e \in Env, duppage_child(e)
    PROVE  /\ SamePlace' /\ LibraryPerm' /\ LibraryMapped' /\ LibraryOne'
           /\ CopyMade' /\ ChildCopied'
<1> USE Sizes DEF CopyInv, SafeInv, ForkSafe
<1> DEFINE c == loc[e].child
           i == loc[e].i
           new == [frame |-> pt[e][i].frame, perm |-> CowPerm(pt[e][i].perm)]
           Made == /\ c \in Env /\ fork_status[c] = "building" /\ c # e
                   /\ \A a \in Env, w \in Page :
                          pt'[a][w] = IF a = c /\ w = i THEN new ELSE pt[a][w]
<1>1. /\ fork_status[e] = "alive" /\ fork_pc[e] = "child" /\ cow[e].step = "none"
      /\ i \in Page /\ pt[e][i] # NIL
      /\ new # NIL /\ new.frame = pt[e][i].frame /\ new.perm = CowPerm(pt[e][i].perm)
      /\ (pt' = pt /\ c = NIL) \/ Made
  BY ChildMapping
<1>2. /\ UNCHANGED <<ucow, content, fork_status, entry, cow, forks, panicked>>
      /\ \A a \in Env : a # e => fork_pc'[a] = fork_pc[a] /\ loc'[a] = loc[a]
      /\ loc'[e].child = c
      /\ \/ fork_pc'[e] = "parent" /\ loc'[e] = loc[e]
         \/ fork_pc'[e] = "loop" /\ loc'[e].i = i + 1
  <2>1. ~duppage_parent(e)
    BY <1>1 DEF duppage_parent, At
  <2> QED BY <1>1, <2>1, ChildLocals
<1>3. CASE pt' = pt /\ c = NIL
  <2>1. CopyMade'
    BY <1>2, <1>3 DEF CopyMade
  <2>2. ChildCopied'
    BY <1>2, <1>3 DEF ChildCopied, Reached, InWindow, SameFrame
  <2> QED BY <1>2, <1>3, <2>1, <2>2, SameTables
<1>4. CASE Made
  <2>1. IF i \in Library THEN new.perm = {"D", "LIB"} ELSE "LIB" \notin new.perm
    BY <1>1 DEF LibraryPerm, CowPerm, ToCow
  <2>8. c' = c
    BY <1>2
  <2> HIDE DEF new, c
  <2>2. SamePlace'
    <3>1. \A a \in Env, w \in Page : pt'[a][w] # NIL =>
              \E b \in Env : pt[b][w] # NIL /\ pt[b][w].frame = pt'[a][w].frame
      BY <1>1, <1>4
    <3> QED BY <3>1 DEF SamePlace
  <2>3. LibraryPerm'
    BY <1>1, <1>4, <2>1 DEF LibraryPerm
  <2>4. LibraryMapped'
    BY <1>1, <1>2, <1>4 DEF LibraryMapped
  <2>5. LibraryOne'
    <3>1. \A a \in Env, w \in Page : pt'[a][w] # NIL =>
              \E b \in Env : pt[b][w] # NIL /\ pt[b][w].frame = pt'[a][w].frame
      BY <1>1, <1>4
    <3> QED BY <3>1 DEF LibraryOne
  <2>6. CopyMade'
    <3>1. \A a \in Env : cow[a].step = "map" =>
              fork_status[a] = "alive" /\ cow[a].va \in Page
      BY ParentFacts DEF CowStep
    <3> QED BY <1>2, <1>4, <3>1 DEF CopyMade
  <2>7. ChildCopied'
    <3>1. ASSUME NEW a \in Env, NEW w \in Page, loc[a].child # NIL, a # e
          PROVE  /\ pt'[loc[a].child][w] = pt[loc[a].child][w] /\ pt'[a][w] = pt[a][w]
                 /\ Reached(a, w)' <=> Reached(a, w)
      <4>1. loc[a].child # c /\ a # c /\ loc[a].child \in Env
        BY <1>4, <3>1, ParentFacts DEF OneParent, c
      <4> QED BY <1>2, <1>4, <3>1, <4>1 DEF Reached, InWindow
    <3>2. \A w \in Page : Reached(e, w)' <=> w = i \/ Reached(e, w)
      BY <1>1, <1>2 DEF Reached, InWindow, Page
    <3>3. \A w \in Page : w # i => pt'[c][w] = pt[c][w]
      BY <1>4
    <3>4. \A w \in Page : pt'[e][w] = pt[e][w]
      BY <1>4
    <3>5. pt'[c][i] = new
      BY <1>1, <1>4
    <3>6. ASSUME NEW w \in Page
          PROVE  IF Reached(e, w)'
                 THEN IF w = Stack THEN pt'[c][w] # NIL ELSE SameFrame(e, c, w)'
                 ELSE pt'[c][w] = NIL
      <4>1. CASE w = i
        BY <1>1, <2>8, <3>2, <3>4, <3>5, <4>1 DEF SameFrame
      <4>2. CASE w # i
        <5>1. IF Reached(e, w)
              THEN IF w = Stack THEN pt[c][w] # NIL ELSE SameFrame(e, c, w)
              ELSE pt[c][w] = NIL
          BY <1>4 DEF ChildCopied, c
        <5> QED BY <2>8, <3>2, <3>3, <3>4, <4>2, <5>1 DEF SameFrame
      <4> QED BY <4>1, <4>2
    <3>7. ASSUME NEW a \in Env, NEW w \in Page, loc[a].child # NIL, a # e
          PROVE  IF Reached(a, w)'
                 THEN IF w = Stack THEN pt'[loc[a].child][w] # NIL
                                   ELSE SameFrame(a, loc[a].child, w)'
                 ELSE pt'[loc[a].child][w] = NIL
      <4>1. IF Reached(a, w)
            THEN IF w = Stack THEN pt[loc[a].child][w] # NIL ELSE SameFrame(a, loc[a].child, w)
            ELSE pt[loc[a].child][w] = NIL
        BY <3>7 DEF ChildCopied
      <4>2. loc'[a].child = loc[a].child
        BY <1>2, <3>7
      <4> QED BY <3>1, <3>7, <4>1, <4>2 DEF SameFrame
    <3>8. \A a \in Env : loc'[a].child = loc[a].child
      BY <1>2 DEF c
    <3> QED BY <2>8, <3>6, <3>7, <3>8 DEF ChildCopied, c
  <2> QED BY <2>2, <2>3, <2>4, <2>5, <2>6, <2>7
<1> QED BY <1>1, <1>3, <1>4

LEMMA ParentCopies ==
    ASSUME ForkConstantsOK, CopyInv, NEW e \in Env, duppage_parent(e)
    PROVE  /\ SamePlace' /\ LibraryPerm' /\ LibraryMapped' /\ LibraryOne'
           /\ CopyMade' /\ ChildCopied'
<1> USE Sizes DEF CopyInv, SafeInv, ForkSafe
<1> DEFINE i == loc[e].i
           P == CowPerm(pt[e][i].perm)
           new == [frame |-> pt[e][i].frame, perm |-> P]
<1>1. /\ fork_status[e] = "alive" /\ fork_pc[e] = "parent" /\ cow[e].step = "none"
      /\ i \in Page /\ pt[e][i] # NIL /\ ToCow(pt[e][i].perm)
      /\ new.frame = pt[e][i].frame /\ new.perm = P /\ new # NIL
  BY ParentMapping
<1>2. /\ UNCHANGED <<ucow, content, fork_status, entry, cow, forks, panicked>>
      /\ \A a \in Env : a # e => fork_pc'[a] = fork_pc[a] /\ loc'[a] = loc[a]
      /\ loc'[e].child = loc[e].child /\ loc'[e].i = i + 1 /\ fork_pc'[e] = "loop"
  BY ParentMapping
<1>3. \A a \in Env, w \in Page : pt'[a][w] = IF a = e /\ w = i THEN new ELSE pt[a][w]
  BY ParentMapping
<1>4. i \notin Library /\ "LIB" \notin new.perm
  BY <1>1 DEF LibraryPerm, CowPerm, ToCow
<1> HIDE DEF P, new
<1>5. \A a \in Env, w \in Page : /\ pt'[a][w] = NIL <=> pt[a][w] = NIL
                                 /\ pt[a][w] # NIL => pt'[a][w].frame = pt[a][w].frame
  BY <1>1, <1>3
<1>6. SamePlace' /\ LibraryOne'
  BY <1>5 DEF SamePlace, LibraryOne
<1>7. LibraryPerm' /\ LibraryMapped'
  BY <1>2, <1>3, <1>4, <1>5 DEF LibraryPerm, LibraryMapped
<1>8. CopyMade'
  <2>1. \A a \in Env : cow[a].step = "map" => cow[a].va \in Page /\ pt[a][cow[a].va] # NIL
    BY DEF CowStep
  <2> QED BY <1>2, <1>5, <2>1 DEF CopyMade
<1>9. ChildCopied'
  <2>1. \A a \in Env, w \in Page : Reached(a, w)' <=> Reached(a, w)
    BY <1>1, <1>2 DEF Reached, InWindow, Page
  <2>2. \A a \in Env : loc'[a].child = loc[a].child
    BY <1>2
  <2>3. \A a \in Env : loc[a].child # NIL => loc[a].child \in Env
    BY LocalsFacts
  <2>4. \A a, b \in Env, w \in Page : SameFrame(a, b, w) => SameFrame(a, b, w)'
    BY <1>5 DEF SameFrame
  <2> QED BY <1>5, <2>1, <2>2, <2>3, <2>4 DEF ChildCopied
<1> QED BY <1>6, <1>7, <1>8, <1>9

LEMMA RunCopies ==
    ASSUME ForkConstantsOK, CopyInv, NEW e \in Env, fork_run(e)
    PROVE  /\ SamePlace' /\ LibraryPerm' /\ LibraryMapped' /\ LibraryOne'
           /\ CopyMade' /\ ChildCopied'
<1> USE Sizes DEF CopyInv, SafeInv, ForkSafe
<1> DEFINE c == loc[e].child
<1>1. /\ fork_status[e] = "alive" /\ c \in Env /\ c # NIL /\ loc[e].i = NPages + 1
      /\ UNCHANGED <<pt, ucow, content, cow>>
      /\ \A a \in Env : fork_status'[a] = IF a = c THEN "alive" ELSE fork_status[a]
      /\ \A a \in Env : fork_pc'[a] = IF a = e THEN "user" ELSE fork_pc[a]
      /\ \A a \in Env : loc'[a] = IF a = e THEN NoLocals ELSE loc[a]
      /\ NoLocals.child = NIL
  BY LocalsFacts DEF fork_run, At, LoopStep, Return, Goto, NoLocals, ForkTypeOK
<1>2. \A v \in Library : SameFrame(e, c, v)
  BY <1>1 DEF ChildCopied, Reached, Page
<1>3. LibraryMapped'
  BY <1>1, <1>2 DEF LibraryMapped, SameFrame
<1>4. SamePlace' /\ LibraryPerm' /\ LibraryOne'
  BY <1>1 DEF SamePlace, LibraryPerm, LibraryOne
<1>5. CopyMade'
  BY <1>1 DEF CopyMade
<1>6. ChildCopied'
  BY <1>1 DEF ChildCopied, Reached, InWindow, SameFrame
<1> QED BY <1>3, <1>4, <1>5, <1>6

LEMMA ExitCopies ==
    ASSUME ForkConstantsOK, CopyInv, SafeInv', NEW e \in Env, exit(e)
    PROVE  /\ SamePlace' /\ LibraryPerm' /\ LibraryMapped' /\ LibraryOne'
           /\ CopyMade' /\ ChildCopied'
<1> USE Sizes DEF CopyInv, SafeInv, ForkSafe
<1>1. /\ fork_status[e] = "alive" /\ fork_pc[e] = "user" /\ cow[e].step = "none"
      /\ loc[e].child = NIL
      /\ UNCHANGED <<ucow, entry, fork_pc, loc, cow, forks, panicked>> /\ content' = Cleared
      /\ \A a \in Env : fork_status'[a] = IF a = e THEN "free" ELSE fork_status[a]
      /\ \A a \in Env, w \in Page : pt'[a][w] = IF a = e THEN NIL ELSE pt[a][w]
  BY DEF exit, At, ForkTypeOK, Unmapped, Outside, NoLocals
<1>2. SamePlace' /\ LibraryPerm' /\ LibraryOne'
  BY <1>1 DEF SamePlace, LibraryPerm, LibraryOne
<1>3. LibraryMapped'
  BY <1>1 DEF LibraryMapped
<1>4. CopyMade'
  <2>1. SUFFICES ASSUME NEW a \in Env, cow[a].step = "map"
                 PROVE  content'[ucow'[a]] = content'[pt'[a][cow[a].va].frame]
    BY <1>1 DEF CopyMade
  <2>2. a # e /\ cow[a].va \in Page /\ pt[a][cow[a].va] # NIL /\ ucow[a] # NIL
    BY <1>1, <2>1 DEF CowStep
  <2>3. pt'[a][cow[a].va] = pt[a][cow[a].va] /\ ucow'[a] = ucow[a]
    BY <1>1, <2>2
  <2>4. content[ucow[a]] = content[pt[a][cow[a].va].frame]
    BY <2>1 DEF CopyMade
  <2> QED BY <1>1, <2>2, <2>3, <2>4, ClearedSame
<1>5. ChildCopied'
  <2>1. \A a \in Env : loc[a].child # NIL => a # e /\ loc[a].child \in Env /\ loc[a].child # e
    BY <1>1, ParentFacts
  <2>2. SUFFICES ASSUME NEW a \in Env, NEW v \in Page, loc[a].child # NIL
                 PROVE  IF Reached(a, v)
                        THEN IF v = Stack THEN pt[loc[a].child][v] # NIL
                                          ELSE SameFrame(a, loc[a].child, v)'
                        ELSE pt[loc[a].child][v] = NIL
    BY <1>1, <2>1 DEF ChildCopied, Reached, InWindow
  <2>3. pt'[a][v] = pt[a][v] /\ pt'[loc[a].child][v] = pt[loc[a].child][v]
    BY <1>1, <2>1, <2>2
  <2>4. loc'[a] = loc[a]
    BY <1>1
  <2> QED BY <2>2, <2>3, <2>4 DEF ChildCopied, SameFrame
<1> QED BY <1>2, <1>3, <1>4, <1>5

LEMMA StepCopies == ForkConstantsOK /\ ~MapMayFail /\ CopyInv /\ [ForkNext]_forkVars => CopyInv'
<1> SUFFICES ASSUME ForkConstantsOK, ~MapMayFail, CopyInv, [ForkNext]_forkVars PROVE CopyInv'
  OBVIOUS
<1>1. SafeInv /\ SafeInv'
  BY StepSafe DEF CopyInv
<1>2. CASE ForkNext
  <2>1. SamePlace' /\ LibraryPerm' /\ LibraryMapped' /\ LibraryOne' /\ CopyMade' /\ ChildCopied'
    BY <1>1, <1>2, StoreCopies, CowCopies, MapCopies, CallCopies, ChildCopies, ParentCopies,
       RunCopies, ExitCopies DEF ForkNext
  <2> QED BY <1>1, <2>1 DEF CopyInv
<1>3. CASE UNCHANGED forkVars
  BY <1>1, <1>3 DEF forkVars, CopyInv, SamePlace, LibraryPerm, LibraryMapped, LibraryOne, CopyMade,
     ChildCopied, Reached, InWindow, SameFrame
<1> QED BY <1>2, <1>3

LEMMA InitCopies == ForkConstantsOK /\ ForkInit => CopyInv
<1> SUFFICES ASSUME ForkConstantsOK, ForkInit PROVE CopyInv
  OBVIOUS
<1>1. PICK root \in Env :
        /\ fork_status = [e \in Env |-> IF e = root THEN "alive" ELSE "free"]
        /\ \A e \in Env, v \in Page : pt[e][v] # NIL => e = root
        /\ \A v \in Page : /\ pt[root][v] # NIL /\ pt[root][v].frame = v
                           /\ v \in Library => pt[root][v].perm = {"D", "LIB"}
                           /\ v \notin Library => "LIB" \notin pt[root][v].perm
  BY InitPages
<1>4. SamePlace /\ LibraryPerm /\ LibraryOne
  BY <1>1, Sizes DEF SamePlace, LibraryPerm, LibraryOne
<1>5. SafeInv
  BY InitSafe
<1>6. LibraryMapped
  BY <1>1, Sizes DEF LibraryMapped
<1>7. CopyMade /\ ChildCopied
  BY Sizes DEF ForkInit, CopyMade, ChildCopied, NoCow, NoLocals
<1> QED BY <1>4, <1>5, <1>6, <1>7 DEF CopyInv

-----------------------------------------------------------------------------
(* The refinement of ForkMemory.                                            *)

\* A step after which everybody reads what they read before.
LEMMA NothingSeen ==
    ASSUME \A a \in Env : fork_status'[a] = "alive" <=> fork_status[a] = "alive",
           \A a \in Env, v \in Page : fork_status[a] = "alive" =>
               /\ pt'[a][v] = NIL <=> pt[a][v] = NIL
               /\ pt[a][v] # NIL => content'[pt'[a][v].frame] = content[pt[a][v].frame]
    PROVE  Memory' = Memory
BY DEF Memory

\* Who runs has a memory.
LEMMA MemoryFacts ==
    ASSUME ForkConstantsOK, ForkTypeOK
    PROVE  \A a \in Env : /\ fork_status[a] = "alive" <=> Memory[a] # NIL
                          /\ fork_status[a] = "alive" => Memory[a] = [v \in Page |->
                                 IF pt[a][v] = NIL THEN NIL ELSE content[pt[a][v].frame]]
<1> SUFFICES ASSUME NEW a \in Env
             PROVE  /\ fork_status[a] = "alive" <=> Memory[a] # NIL
                    /\ fork_status[a] = "alive" => Memory[a] = [v \in Page |->
                           IF pt[a][v] = NIL THEN NIL ELSE content[pt[a][v].frame]]
  OBVIOUS
<1> DEFINE m == [v \in Page |-> IF pt[a][v] = NIL THEN NIL ELSE content[pt[a][v].frame]]
<1>1. Memory[a] = IF fork_status[a] # "alive" THEN NIL ELSE m
  BY DEF Memory
<1>2. m \in [Page -> Value \cup {NIL}]
  BY IsPte
<1>3. NIL \notin [Page -> Value \cup {NIL}]
  BY DEF ForkConstantsOK
<1>4. m # NIL
  BY <1>2, <1>3
<1> QED BY <1>1, <1>4

LEMMA StoreRefines ==
    ASSUME ForkConstantsOK, CopyInv, NEW e \in Env, NEW v \in Page, NEW x \in Value, store(e, v, x)
    PROVE  Abstract!Store(e, v, x)
<1> USE Sizes, NewFrameFree, InUseFacts DEF CopyInv, SafeInv, ForkSafe
<1> DEFINE f == IF pt[e][v] = NIL THEN NewFrame ELSE pt[e][v].frame
           new(a) == [Memory[a] EXCEPT ![v] = x]
<1>1. fork_status[e] = "alive" /\ UNCHANGED fork_status
  BY DEF store, MayStore
<1>2. f \in Frame /\ content' = [content EXCEPT ![f] = x]
  BY IsPte DEF store
<1>3. content'[f] = x /\ \A g \in Frame : g # f => content'[g] = content[g]
  BY <1>2 DEF ForkTypeOK
<1>4. \A a \in Env, w \in Page : <<a, w>> # <<e, v>> => pt'[a][w] = pt[a][w]
  BY DEF store, ForkTypeOK
<1>5. pt'[e][v] # NIL /\ pt'[e][v].frame = f
  <2>1. CASE pt[e][v] = NIL
    <3> DEFINE fresh == [frame |-> NewFrame, perm |-> {"D"}]
    <3>1. fresh \in Pte /\ fresh.frame = NewFrame
      BY DEF Pte, Bits
    <3>2. pt' = [pt EXCEPT ![e][v] = fresh]
      BY <2>1 DEF store
    <3>3. fresh # NIL
      BY <3>1 DEF ForkConstantsOK
    <3> HIDE DEF fresh
    <3>4. pt'[e][v] = fresh
      BY <3>2 DEF ForkTypeOK
    <3> QED BY <2>1, <3>1, <3>3, <3>4
  <2>2. CASE pt[e][v] # NIL
    BY <2>2 DEF store
  <2> QED BY <2>1, <2>2
<1>6. ASSUME NEW a \in Env, NEW w \in Page, fork_status[a] = "alive", pt[a][w] # NIL,
             <<a, w>> # <<e, v>>
      PROVE  pt[a][w].frame = f <=> w = v /\ v \in Library
  <2>1. CASE pt[e][v] = NIL
    BY <1>1, <1>6, <2>1 DEF LibraryMapped
  <2>2. CASE pt[e][v] # NIL
    <3>1. "D" \in pt[e][v].perm
      BY <2>2 DEF store
    <3>2. pt[a][w].frame = f => w = v
      BY <1>6, <2>2 DEF SamePlace
    <3>3. w = v /\ v \in Library => pt[a][w].frame = f
      BY <1>6, <2>2 DEF LibraryOne
    <3>4. ASSUME pt[a][w].frame = f, v \notin Library
          PROVE  FALSE
      <4>1. "LIB" \notin pt[e][v].perm
        BY <2>2, <3>4 DEF LibraryPerm
      <4>2. InWindow(e, v) /\ a = loc[e].child
        BY <1>6, <2>2, <3>1, <3>4, <4>1 DEF WritableIsPrivate, Mapped
      <4> QED BY <1>6, <4>2, ParentFacts
    <3> QED BY <3>2, <3>3, <3>4
  <2> QED BY <2>1, <2>2
<1>7. ASSUME NEW a \in Env, fork_status[a] = "alive"
      PROVE  Memory'[a] = IF a = e \/ v \in Library THEN new(a) ELSE Memory[a]
  <2>1. /\ Memory[a] = [w \in Page |-> IF pt[a][w] = NIL THEN NIL ELSE content[pt[a][w].frame]]
        /\ Memory'[a] = [w \in Page |-> IF pt'[a][w] = NIL THEN NIL ELSE content'[pt'[a][w].frame]]
    BY <1>1, <1>7 DEF Memory
  <2>2. ASSUME NEW w \in Page, <<a, w>> # <<e, v>>
        PROVE  Memory'[a][w] = IF w = v /\ v \in Library THEN x ELSE Memory[a][w]
    <3>1. pt'[a][w] = pt[a][w]
      BY <1>4, <2>2
    <3>2. CASE pt[a][w] = NIL
      <4>1. ~(w = v /\ v \in Library)
        BY <1>7, <3>2 DEF LibraryMapped
      <4> QED BY <2>1, <3>1, <3>2, <4>1
    <3>3. CASE pt[a][w] # NIL
      <4>1. pt[a][w].frame \in Frame
        BY <3>3, IsPte
      <4> QED BY <1>3, <1>6, <1>7, <2>1, <2>2, <3>1, <3>3, <4>1
    <3> QED BY <3>2, <3>3
  <2>3. Memory'[e][v] = x
    BY <1>1, <1>3, <1>5 DEF Memory
  <2>4. CASE a = e \/ v \in Library
    <3>1. \A w \in Page : Memory'[a][w] = IF w = v THEN x ELSE Memory[a][w]
      BY <2>2, <2>3, <2>4
    <3> QED BY <2>1, <2>4, <3>1
  <2>5. CASE ~(a = e \/ v \in Library)
    <3>1. \A w \in Page : Memory'[a][w] = Memory[a][w]
      BY <2>2, <2>5
    <3> QED BY <2>1, <2>5, <3>1
  <2> QED BY <2>4, <2>5
<1>8. Memory' = [a \in Env |-> IF Memory[a] # NIL /\ (a = e \/ v \in Library)
                               THEN new(a) ELSE Memory[a]]
  <2>1. \A a \in Env : Memory'[a] = IF Memory[a] # NIL /\ (a = e \/ v \in Library)
                                    THEN new(a) ELSE Memory[a]
    <3>1. \A a \in Env : fork_status[a] # "alive" => Memory'[a] = Memory[a]
      BY <1>1 DEF Memory
    <3> QED BY <1>7, <3>1, MemoryFacts
  <2> QED BY <2>1 DEF Memory
<1>9. Memory[e] # NIL
  BY <1>1, MemoryFacts
<1> QED BY <1>8, <1>9 DEF Abstract!Store

LEMMA RunRefines ==
    ASSUME ForkConstantsOK, CopyInv, NEW e \in Env, fork_run(e)
    PROVE  Abstract!Fork(e, loc[e].child)
<1> USE Sizes DEF CopyInv, SafeInv, ForkSafe
<1> DEFINE c == loc[e].child
<1>1. /\ fork_status[e] = "alive" /\ c \in Env /\ c # NIL /\ fork_status[c] = "building"
      /\ loc[e].i = NPages + 1 /\ UNCHANGED <<pt, content>>
      /\ \A a \in Env : fork_status'[a] = IF a = c THEN "alive" ELSE fork_status[a]
  BY LocalsFacts DEF fork_run, At, LoopStep, OneParent, ForkTypeOK
<1>2. pt[c][Stack] # NIL /\ \A v \in Page : v # Stack => SameFrame(e, c, v)
  BY <1>1 DEF ChildCopied, Reached, Page
<1>3. Memory[e] # NIL /\ Memory[c] = NIL
  BY <1>1, MemoryFacts
<1> DEFINE scratch == [v \in {Stack} |-> content[pt[c][Stack].frame]]
           copy == [v \in Page |-> IF v \in {Stack} THEN scratch[v] ELSE Memory[e][v]]
<1>4. scratch \in [{Stack} -> Value]
  BY <1>1, <1>2, IsPte
<1>5. Memory'[c] = copy
  <2>1. Memory'[c] = [v \in Page |-> IF pt[c][v] = NIL THEN NIL ELSE content[pt[c][v].frame]]
    BY <1>1 DEF Memory
  <2>2. Memory[e] = [v \in Page |-> IF pt[e][v] = NIL THEN NIL ELSE content[pt[e][v].frame]]
    BY <1>1, MemoryFacts
  <2>5. \A v \in Page : v # Stack => Memory'[c][v] = Memory[e][v]
    <3> SUFFICES ASSUME NEW v \in Page, v # Stack
                 PROVE  Memory'[c][v] = Memory[e][v]
      OBVIOUS
    <3>1. SameFrame(e, c, v)
      BY <1>2
    <3>2. /\ Memory'[c][v] = IF pt[c][v] = NIL THEN NIL ELSE content[pt[c][v].frame]
          /\ Memory[e][v] = IF pt[e][v] = NIL THEN NIL ELSE content[pt[e][v].frame]
      BY <2>1, <2>2
    <3> QED BY <3>1, <3>2 DEF SameFrame
  <2>3. Memory'[c][Stack] = content[pt[c][Stack].frame]
    BY <1>2, <2>1
  <2>4. \A v \in Page : Memory'[c][v] = copy[v]
    BY <2>3, <2>5
  <2> QED BY <2>1, <2>4
<1>6. Memory' = [Memory EXCEPT ![c] = copy]
  <2>1. \A a \in Env : a # c => Memory'[a] = Memory[a]
    BY <1>1 DEF Memory
  <2>2. Memory = [a \in Env |-> Memory[a]] /\ Memory' = [a \in Env |-> Memory'[a]]
    BY DEF Memory
  <2> HIDE DEF copy, c
  <2> QED BY <1>1, <1>5, <2>1, <2>2
<1> QED BY <1>1, <1>3, <1>4, <1>6 DEF Abstract!Fork

LEMMA ExitRefines ==
    ASSUME ForkConstantsOK, CopyInv, SafeInv', NEW e \in Env, exit(e)
    PROVE  Abstract!Exit(e)
<1> USE Sizes DEF CopyInv, SafeInv, ForkSafe
<1>1. /\ content' = Cleared
      /\ \A a \in Env : fork_status'[a] = IF a = e THEN "free" ELSE fork_status[a]
      /\ \A a \in Env : a # e => pt'[a] = pt[a]
  BY DEF exit, At, ForkTypeOK
<1>2. \A a \in Env : a # e => Memory'[a] = Memory[a]
  <2>1. SUFFICES ASSUME NEW a \in Env, a # e
                 PROVE  Memory'[a] = Memory[a]
    OBVIOUS
  <2>2. \A v \in Page : pt[a][v] # NIL => content'[pt[a][v].frame] = content[pt[a][v].frame]
    BY <1>1, <2>1, ClearedSame
  <2> QED BY <1>1, <2>1, <2>2 DEF Memory
<1>3. Memory'[e] = NIL
  BY <1>1 DEF Memory
<1>4. Memory' = [Memory EXCEPT ![e] = NIL]
  BY <1>2, <1>3 DEF Memory
<1> QED BY <1>4 DEF Abstract!Exit

LEMMA OthersRefine ==
    ASSUME ForkConstantsOK, ~MapMayFail, CopyInv, SafeInv', NEW e \in Env,
           \/ \E v \in Page : do_tlb_mod(e, v)
           \/ \E c \in Env : fork(e, c)
           \/ fork_no_child(e) \/ fork_duppage(e) \/ fork_entry(e)
           \/ cow_copy(e) \/ cow_map(e) \/ duppage_child(e) \/ duppage_parent(e)
    PROVE  Memory' = Memory
<1> USE Sizes DEF CopyInv, SafeInv, ForkSafe
<1>1. CASE \/ \E v \in Page : do_tlb_mod(e, v)
           \/ \E c \in Env : fork(e, c)
           \/ fork_no_child(e) \/ fork_duppage(e) \/ fork_entry(e)
  <2>1. UNCHANGED <<pt, content>>
    BY <1>1 DEF do_tlb_mod, fork, fork_no_child, fork_duppage, fork_entry
  <2>2. \A a \in Env : fork_status'[a] = "alive" <=> fork_status[a] = "alive"
    BY <1>1 DEF do_tlb_mod, fork, fork_no_child, fork_duppage, fork_entry, ForkTypeOK
  <2> QED BY <2>1, <2>2, NothingSeen
<1>2. CASE cow_copy(e)
  <2>1. /\ UNCHANGED <<pt, fork_status>>
        /\ \A g \in Frame : g # NewFrame => content'[g] = content[g]
    BY <1>2, NewFrameFree DEF cow_copy, ForkTypeOK
  <2>2. \A a \in Env, v \in Page : pt[a][v] # NIL => pt[a][v].frame # NewFrame /\ pt[a][v].frame \in Frame
    BY IsPte, NewFrameFree, InUseFacts
  <2> QED BY <2>1, <2>2, NothingSeen
<1>3. CASE cow_map(e)
  <2> DEFINE va == cow[e].va
             new == [frame |-> ucow[e], perm |-> (pt[e][va].perm \ {"COW"}) \cup {"D"}]
  <2>1. /\ va \in Page /\ pt[e][va] # NIL /\ new.frame = ucow[e] /\ new # NIL
        /\ UNCHANGED fork_status
        /\ \A a \in Env, w \in Page : pt'[a][w] = IF a = e /\ w = va THEN new ELSE pt[a][w]
    BY <1>3, MapEffect
  <2>2. content[ucow[e]] = content[pt[e][va].frame]
    BY <1>3 DEF cow_map, InCow, CopyMade
  <2>3. content' = Cleared
    BY <1>3 DEF cow_map
  <2> HIDE DEF va, new
  <2>4. \A a \in Env, w \in Page : pt'[a][w] # NIL => content'[pt'[a][w].frame] = content[pt'[a][w].frame]
    BY <2>3, ClearedSame
  <2>5. \A a \in Env, w \in Page : /\ pt'[a][w] = NIL <=> pt[a][w] = NIL
                                   /\ pt[a][w] # NIL =>
                                          content[pt'[a][w].frame] = content[pt[a][w].frame]
    BY <2>1, <2>2
  <2> QED BY <2>1, <2>4, <2>5, NothingSeen
<1>4. CASE duppage_child(e)
  <2>1. UNCHANGED <<fork_status, content>>
    BY <1>4 DEF duppage_child
  <2> DEFINE c == loc[e].child
             i == loc[e].i
             new == [frame |-> pt[e][i].frame, perm |-> CowPerm(pt[e][i].perm)]
  <2>3. \/ pt' = pt
        \/ /\ fork_status[c] = "building"
           /\ \A a \in Env, w \in Page : pt'[a][w] = IF a = c /\ w = i THEN new ELSE pt[a][w]
    BY <1>4, ChildMapping
  <2> HIDE DEF c, i, new
  <2>2. \A a \in Env, w \in Page : fork_status[a] = "alive" => pt'[a][w] = pt[a][w]
    BY <2>3
  <2> QED BY <2>1, <2>2, NothingSeen
<1>5. CASE duppage_parent(e)
  <2>1. UNCHANGED <<fork_status, content>>
    BY <1>5 DEF duppage_parent
  <2> DEFINE i == loc[e].i
             new == [frame |-> pt[e][i].frame, perm |-> CowPerm(pt[e][i].perm)]
  <2>2. /\ i \in Page /\ pt[e][i] # NIL /\ new.frame = pt[e][i].frame /\ new # NIL
        /\ \A a \in Env, w \in Page : pt'[a][w] = IF a = e /\ w = i THEN new ELSE pt[a][w]
    BY <1>5, ParentMapping
  <2> HIDE DEF i, new
  <2>3. \A a \in Env, w \in Page : /\ pt'[a][w] = NIL <=> pt[a][w] = NIL
                                   /\ pt[a][w] # NIL => pt'[a][w].frame = pt[a][w].frame
    BY <2>2
  <2> QED BY <2>1, <2>3, NothingSeen
<1> QED BY <1>1, <1>2, <1>3, <1>4, <1>5

LEMMA StepRefines ==
    ForkConstantsOK /\ ~MapMayFail /\ CopyInv /\ CopyInv' /\ [ForkNext]_forkVars
        => [Abstract!MemoryNext]_Memory
<1> SUFFICES ASSUME ForkConstantsOK, ~MapMayFail, CopyInv, CopyInv', [ForkNext]_forkVars,
                    Memory' # Memory
             PROVE  Abstract!MemoryNext
  OBVIOUS
<1>1. SafeInv'
  BY DEF CopyInv
<1>2. PICK e \in Env :
        \/ \E v \in Page, x \in Value : store(e, v, x)
        \/ fork_run(e) \/ exit(e)
  <2>1. ~UNCHANGED forkVars
    BY DEF forkVars, Memory
  <2> QED BY <1>1, <2>1, OthersRefine DEF ForkNext
<1>3. ASSUME NEW v \in Page, NEW x \in Value, store(e, v, x)
      PROVE  Abstract!MemoryNext
  BY <1>3, StoreRefines DEF Abstract!MemoryNext
<1>4. CASE fork_run(e)
  <2>1. loc[e].child \in Env
    BY <1>4, LocalsFacts DEF fork_run, At, CopyInv, SafeInv, ForkSafe, LoopStep
  <2> QED BY <1>4, <2>1, RunRefines DEF Abstract!MemoryNext
<1>5. CASE exit(e)
  BY <1>1, <1>5, ExitRefines DEF Abstract!MemoryNext
<1> QED BY <1>2, <1>3, <1>4, <1>5

LEMMA InitRefines == ForkConstantsOK /\ ForkInit => Abstract!MemoryInit
<1> SUFFICES ASSUME ForkConstantsOK, ForkInit PROVE Abstract!MemoryInit
  OBVIOUS
<1>1. PICK root \in Env :
        /\ fork_status = [e \in Env |-> IF e = root THEN "alive" ELSE "free"]
        /\ pt \in [Env -> [Page -> Pte \cup {NIL}]]
        /\ \A v \in Page : pt[root][v] # NIL
  BY InitPages
<1>2. content = [f \in Frame |-> Zero] /\ Zero \in Value
  BY DEF ForkInit, ForkConstantsOK
<1>3. \A v \in Page : pt[root][v].frame \in Frame
  BY <1>1 DEF Pte
<1>4. Memory = [e \in Env |-> IF e = root THEN [v \in Page |-> Zero] ELSE NIL]
  BY <1>1, <1>2, <1>3 DEF Memory
<1> QED BY <1>2, <1>4 DEF Abstract!MemoryInit

\* fork, duppage, cow_entry and stores, page by page and in any interleaving of any
\* number of environments, implement ForkMemory: a child starts with a copy of its
\* parent's memory, and afterwards neither sees what the other writes, library pages
\* excepted.  Where duppage's system calls do not fail (fork does not test them).
THEOREM ForkCopiesMemory ==
    ASSUME ~MapMayFail
    PROVE  ForkSpec => CopiesMemory
<1> USE ForkConstantsAssumption
<1>1. ForkInit => CopyInv /\ Abstract!MemoryInit
  BY InitCopies, InitRefines
<1>2. CopyInv /\ [ForkNext]_forkVars => CopyInv'
  BY StepCopies
<1>3. CopyInv /\ CopyInv' /\ [ForkNext]_forkVars => [Abstract!MemoryNext]_Memory
  BY StepRefines
<1> QED BY <1>1, <1>2, <1>3, PTL DEF ForkSpec, CopiesMemory, Abstract!MemorySpec

-----------------------------------------------------------------------------
(* spawn.                                                                   *)

\* What the child has been given when spawn is at each of its labels.
Segments(n) == {"segment"} \X (1..n)
Libraries(n) == {"library"} \X (1..n)
GivenAt ==
    /\ pc \in {"stack", "stack_map"} => given[child] = {}
    /\ pc \in {"segment", "seg_page", "seg_copy"} =>
           given[child] = {<<"stack", 1>>} \cup Segments(k - 1)
    /\ pc \in {"close", "trapframe"} => given[child] = {<<"stack", 1>>} \cup Segments(NSegs)
    /\ pc = "share" =>
           given[child] = {<<"stack", 1>>, <<"trapframe", 1>>} \cup Segments(NSegs)
                          \cup Libraries(k - 1)
    /\ pc = "run" => given[child] = Complete

\* Labels between exofork and the end of the child's construction: where spawn has
\* told the kernel of the child, it is a child that exists.
Building == {"stack", "stack_map", "segment", "seg_page", "seg_copy", "close",
             "trapframe", "share", "run"}
Told == Building \ {"stack", "stack_map"}

\* The file is open from the header to the close, on one descriptor beside those
\* that failing opens have left; UTEMP is mapped while a page is
\* filled, and a child under construction is spawn's own, with what it was given.
Reading == {"header", "exofork", "stack", "stack_map", "segment", "seg_page", "seg_copy",
            "close", "err", "err1"}
FileOpen == /\ pc \in Reading => fds = lost + 1
            /\ pc \notin Reading => fds = lost
WindowOpen == /\ pc \in {"stack_map", "seg_copy"} => utemp = TRUE
              /\ pc \notin {"stack_map", "seg_copy"} => utemp = FALSE
OnlyChild == \A s \in Slot :
    status[s] = "building" <=> s = child /\ pc \in Building \cup {"err1", "err2"}
ChildGiven == child \in Slot => GivenAt
ChildExists == pc \in Told => child \in Slot
Counting == /\ pc \in {"segment", "seg_page", "seg_copy"} => k <= NSegs + 1
            /\ pc \in {"seg_page", "seg_copy"} => k <= NSegs
            /\ pc \in {"stack", "stack_map", "trapframe", "header", "exofork"} => k = 1
            /\ pc = "share" => k <= NLibs + 1
            /\ pc = "close" => k = NSegs + 1
TellsResult == /\ pc \in {"err", "err1", "err2"} => r = "error"
               /\ r # "count"
               /\ r = "child" => made = TRUE

SpawnInv == /\ TypeOK /\ RunsComplete /\ FileOpen /\ WindowOpen /\ OnlyChild
            /\ ChildGiven /\ ChildExists /\ Counting /\ TellsResult

-----------------------------------------------------------------------------
\* Giving the child its next part.
LEMMA NextPart ==
    ASSUME ConstantsOK, NEW n \in Nat \ {0}
    PROVE  /\ Segments(n) = Segments(n - 1) \cup {<<"segment", n>>}
           /\ Libraries(n) = Libraries(n - 1) \cup {<<"library", n>>}
           /\ n <= NSegs => <<"segment", n>> \in Complete
           /\ n <= NLibs => <<"library", n>> \in Complete
<1>1. 1..n = (1..(n - 1)) \cup {n}
  OBVIOUS
<1> QED BY <1>1 DEF ConstantsOK, Segments, Libraries, Complete

LEMMA NoPart == Segments(0) = {} /\ Libraries(0) = {}
  BY DEF Segments, Libraries

LEMMA SpawnInit == ConstantsOK /\ Init => SpawnInv
<1> SUFFICES ASSUME ConstantsOK, Init PROVE SpawnInv
  OBVIOUS
<1> USE DEF ConstantsOK, Init
<1>0. k \in 1..(NSegs + NLibs + 1) /\ fds \in 0..MaxFd /\ lost \in 0..MaxFd
  OBVIOUS
<1>1. TypeOK
  BY <1>0 DEF TypeOK
<1>2. RunsComplete /\ FileOpen /\ WindowOpen /\ OnlyChild
  BY DEF RunsComplete, FileOpen, WindowOpen, OnlyChild, Building, Reading
<1>3. ChildGiven /\ ChildExists /\ Counting /\ TellsResult
  BY DEF ChildGiven, GivenAt, ChildExists, Counting, TellsResult, Told, Building
<1> QED BY <1>1, <1>2, <1>3 DEF SpawnInv

\* One action keeps the invariant.
LEMMA SpawnNext ==
    ASSUME ConstantsOK, ~ShortFiles, SpawnInv, [Next]_vars
    PROVE  SpawnInv'
<1> USE DEF ConstantsOK
<1> USE DEF SpawnInv, TypeOK, RunsComplete, FileOpen, WindowOpen, OnlyChild, ChildGiven,
            ChildExists, Counting, TellsResult, Building, Told, Reading, GivenAt
<1>0. 1 \in 1..(NSegs + NLibs + 1)
  OBVIOUS
<1>1. CASE open
  <2>1. PICK left \in 0..2 :
           /\ lost' = lost + left /\ fds' <= MaxFd
           /\ \/ pc' = "header" /\ fds' = fds + left + 1 /\ r' = "none"
              \/ pc' = "user" /\ fds' = fds + left /\ r' = "error"
    BY <1>1 DEF open
  <2>2. fds = lost /\ fds' \in 0..MaxFd /\ lost' \in 0..MaxFd
    BY <1>1, <2>1 DEF open
  <2>3. TypeOK' /\ FileOpen'
    BY <1>0, <1>1, <2>1, <2>2 DEF open
  <2> QED BY <1>0, <1>1, <2>1, <2>2, <2>3 DEF open
<1>2. CASE read_header
  BY <1>2 DEF read_header, Step, Fail
<1>3. CASE exofork
  BY <1>3 DEF exofork, Step
<1>4. CASE init_stack
  BY <1>4 DEF init_stack, Step, Fail
<1>5. CASE init_stack_map
  <2>1. <<"stack", 1>> \in Complete
    BY DEF Complete
  <2>2. pc = "stack_map" /\ k = 1
    BY <1>5 DEF init_stack_map, Step
  <2>3. CASE Step("stack_map", "segment") /\ Accepted /\ Give(<<"stack", 1>>) /\ UNCHANGED r
    <3>1. given'[child] = {<<"stack", 1>>} \cup Segments(k - 1)
      BY <2>2, <2>3, NoPart DEF Give, Accepted
    <3>2. given' \in [Slot -> SUBSET Complete] /\ \A s \in Slot \ {child} : given'[s] = given[s]
      BY <2>1, <2>3 DEF Give
    <3>3. /\ pc' = "segment" /\ child \in Slot /\ utemp' = FALSE
          /\ UNCHANGED <<fds, lost, child, k, r, status, made>>
      BY <1>5, <2>3 DEF init_stack_map, Step, Accepted
    <3>4. TypeOK' /\ Counting'
      <4>1. TypeOK'
        BY <3>2, <3>3
      <4>2. Counting'
        BY <2>2, <3>3, 1 <= NSegs + 1
      <4> QED BY <4>1, <4>2
    <3>5. RunsComplete' /\ OnlyChild'
      BY <2>2, <3>2, <3>3
    <3>6. FileOpen' /\ WindowOpen' /\ ChildGiven' /\ ChildExists' /\ TellsResult'
      BY <2>2, <3>1, <3>3
    <3> QED BY <3>4, <3>5, <3>6
  <2>4. CASE Step("stack_map", "err1") /\ r' = "error" /\ UNCHANGED given
    BY <1>5, <2>4 DEF init_stack_map, Step
  <2> QED BY <1>5, <2>3, <2>4 DEF init_stack_map
<1>6. CASE read_segment
  <2>1. k \in Nat \ {0} /\ child \in Slot /\ (k <= NSegs => k + 1 \in 1..(NSegs + NLibs + 1))
    BY <1>6 DEF read_segment, Step, Fail
  <2>2. CASE k <= NSegs /\ Step("segment", "segment")
    <3>1. (k + 1) - 1 = k /\ pc = "segment" /\ pc' = "segment"
      BY <2>1, <2>2 DEF Step
    <3>2. /\ k' = k + 1 /\ Give(<<"segment", k>>)
          /\ UNCHANGED <<fds, lost, utemp, child, r, status, made>>
      BY <1>6, <2>2 DEF read_segment, Step, Fail
    <3>3. Segments(k) = Segments(k - 1) \cup {<<"segment", k>>} /\ <<"segment", k>> \in Complete
      BY <2>1, <2>2, NextPart
    <3>4. given'[child] = {<<"stack", 1>>} \cup Segments(k' - 1)
      BY <2>1, <3>1, <3>2, <3>3 DEF Give
    <3>5. given' \in [Slot -> SUBSET Complete] /\ \A s \in Slot \ {child} : given'[s] = given[s]
      BY <2>1, <3>2, <3>3 DEF Give
    <3> QED BY <2>1, <2>2, <3>1, <3>2, <3>4, <3>5
  <2>3. CASE ~(k <= NSegs /\ Step("segment", "segment"))
    BY <1>6, <2>1, <2>3 DEF read_segment, Step, Fail
  <2> QED BY <2>2, <2>3
<1>7. CASE spawn_mapper
  BY <1>7 DEF spawn_mapper, Step, Fail
<1>8. CASE spawn_mapper_copy
  <2>1. k \in Nat \ {0} /\ child \in Slot /\ k <= NSegs /\ k + 1 \in 1..(NSegs + NLibs + 1)
    BY <1>8 DEF spawn_mapper_copy, Step
  <2>2. CASE Step("seg_copy", "segment")
    <3>1. (k + 1) - 1 = k /\ pc = "seg_copy" /\ pc' = "segment"
      BY <2>1, <2>2 DEF Step
    <3>2. /\ k' = k + 1 /\ Give(<<"segment", k>>) /\ utemp' = FALSE
          /\ UNCHANGED <<fds, lost, child, r, status, made>>
      BY <1>8, <2>2 DEF spawn_mapper_copy, Step
    <3>3. Segments(k) = Segments(k - 1) \cup {<<"segment", k>>} /\ <<"segment", k>> \in Complete
      BY <2>1, <2>2, NextPart
    <3>4. given'[child] = {<<"stack", 1>>} \cup Segments(k' - 1)
      BY <2>1, <3>1, <3>2, <3>3 DEF Give
    <3>5. given' \in [Slot -> SUBSET Complete] /\ \A s \in Slot \ {child} : given'[s] = given[s]
      BY <2>1, <3>2, <3>3 DEF Give
    <3>6. k' \in 1..(NSegs + NLibs + 1) /\ k' <= NSegs + 1
      BY <2>1, <3>2
    <3>7. TypeOK' /\ Counting'
      BY <3>1, <3>2, <3>5, <3>6
    <3> QED BY <2>1, <3>1, <3>2, <3>4, <3>5, <3>7
  <2>3. CASE ~Step("seg_copy", "segment")
    BY <1>8, <2>1, <2>3 DEF spawn_mapper_copy, Step
  <2> QED BY <2>2, <2>3
<1>9. CASE close_fd
  BY <1>0, <1>9 DEF close_fd, Step
<1>10. CASE set_trapframe
  BY <1>10, NoPart DEF set_trapframe, Step, Fail, Give, Complete
<1>11. CASE share
  <2>1. k \in Nat \ {0} /\ child \in Slot /\ (k <= NLibs => k + 1 \in 1..(NSegs + NLibs + 1))
    BY <1>11 DEF share, Step, Fail
  <2>2. CASE k <= NLibs /\ Step("share", "share")
    <3>1. (k + 1) - 1 = k /\ pc = "share" /\ pc' = "share"
      BY <2>1, <2>2 DEF Step
    <3>2. /\ k' = k + 1 /\ Give(<<"library", k>>)
          /\ UNCHANGED <<fds, lost, utemp, child, r, status, made>>
      BY <1>11, <2>2 DEF share, Step, Fail
    <3>3. Libraries(k) = Libraries(k - 1) \cup {<<"library", k>>} /\ <<"library", k>> \in Complete
      BY <2>1, <2>2, NextPart
    <3>4. given'[child] = {<<"stack", 1>>, <<"trapframe", 1>>} \cup Segments(NSegs)
                          \cup Libraries(k' - 1)
      BY <2>1, <3>1, <3>2, <3>3 DEF Give
    <3>5. given' \in [Slot -> SUBSET Complete] /\ \A s \in Slot \ {child} : given'[s] = given[s]
      BY <2>1, <3>2, <3>3 DEF Give
    <3> QED BY <2>1, <2>2, <3>1, <3>2, <3>4, <3>5
  <2>3. CASE k > NLibs /\ Step("share", "run")
    <3>1. k - 1 = NLibs
      BY <2>1, <2>3 DEF Step
    <3>2. given[child] = Complete
      BY <2>1, <2>3, <3>1 DEF Step, Complete, Segments, Libraries
    <3> QED BY <1>11, <2>1, <2>3, <3>2 DEF share, Step, Fail
  <2>4. CASE Fail("share", "err2")
    BY <2>1, <2>4 DEF Fail
  <2> QED BY <1>11, <2>2, <2>3, <2>4 DEF share
<1>12. CASE set_runnable
  BY <1>12 DEF set_runnable, Step, Fail
<1>13. CASE destroy
  BY <1>13 DEF destroy, Step, Destroyed, Accepted
<1>14. CASE close_err
  BY <1>14 DEF close_err, Step
<1>15. ASSUME NEW s \in Slot, child_exit(s) PROVE SpawnInv'
  BY <1>15 DEF child_exit
<1>16. CASE UNCHANGED vars
  BY <1>16 DEF vars
<1> QED
  BY <1>1, <1>2, <1>3, <1>4, <1>5, <1>6, <1>7, <1>8, <1>9, <1>10, <1>11, <1>12,
     <1>13, <1>14, <1>15, <1>16 DEF Next

-----------------------------------------------------------------------------

\* What the caller sees follows from the invariant.
LEMMA SpawnInvSound == SpawnInv => TypeOK /\ NothingLeft /\ RunsComplete /\ ResultTold
<1> SUFFICES ASSUME SpawnInv PROVE NothingLeft /\ ResultTold
  BY DEF SpawnInv
<1>1. NothingLeft
  BY DEF SpawnInv, FileOpen, WindowOpen, OnlyChild, Reading, Building, NothingLeft
<1>2. ResultTold
  BY DEF SpawnInv, TellsResult, ResultTold
<1> QED BY <1>1, <1>2

\* No step of spawn changes an environment that is not its child.
LEMMA SpawnOthers ==
    ASSUME SpawnInv, Next, NEW s \in Slot, s # child, status[s] = "runnable"
    PROVE  given'[s] = given[s] /\ (status'[s] = "runnable" \/ child_exit(s))
<1> USE DEF SpawnInv, TypeOK
<1>1. CASE exofork
  BY <1>1 DEF exofork
<1>2. CASE set_trapframe \/ share \/ read_segment \/ spawn_mapper_copy \/ init_stack_map
  BY <1>2 DEF set_trapframe, share, read_segment, spawn_mapper_copy, init_stack_map, Give, Fail
<1>3. CASE set_runnable \/ destroy
  BY <1>3 DEF set_runnable, destroy, Destroyed, Accepted, Fail
<1>4. ASSUME NEW t \in Slot, child_exit(t)
      PROVE  given'[s] = given[s] /\ (status'[s] = "runnable" \/ child_exit(s))
  BY <1>4 DEF child_exit
<1>5. CASE open \/ read_header \/ init_stack \/ spawn_mapper \/ close_fd \/ close_err
  BY <1>5 DEF open, read_header, init_stack, spawn_mapper, close_fd, close_err, Fail
<1> QED BY <1>1, <1>2, <1>3, <1>4, <1>5 DEF Next

\* Whichever call of spawn fails, the file spawn has opened and the window are closed,
\* so that only a failing open itself leaves a descriptor in use (file.c:59); no child
\* is left half-built; a child runs only with all its parts; the caller is told; and
\* no other environment is changed (spawn.c:104-254).  For any number of slots,
\* descriptors, program headers and library pages, for files with a whole ELF header.
THEOREM SpawnIsSound ==
    ASSUME ~ShortFiles
    PROVE  Spec => SpawnSound
<1> USE ConstantsAssumption
<1>1. Init => SpawnInv
  BY SpawnInit
<1>2. SpawnInv /\ [Next]_vars => SpawnInv'
  BY SpawnNext
<1>3. SpawnInv => TypeOK /\ NothingLeft /\ RunsComplete /\ ResultTold
  BY SpawnInvSound
<1>4. SpawnInv /\ [Next]_vars =>
        [\A s \in Slot : s # child /\ status[s] = "runnable"
             => given'[s] = given[s] /\ (status'[s] = "runnable" \/ child_exit(s))]_vars
  BY SpawnOthers
<1> QED BY <1>1, <1>2, <1>3, <1>4, PTL DEF Spec, SpawnSound, OthersUntouched

-----------------------------------------------------------------------------
(* Loading: pages and addresses.                                            *)

LEMMA DivMod ==
    ASSUME NEW b \in Nat \ {0}, NEW a \in Nat
    PROVE  a \div b \in Nat /\ a % b \in 0..(b - 1) /\ a = b * (a \div b) + (a % b)
OBVIOUS

\* A number has one quotient and one remainder.
LEMMA DivIs ==
    ASSUME NEW b \in Nat \ {0}, NEW p \in Nat, NEW o \in 0..(b - 1)
    PROVE  (p * b + o) \div b = p /\ (p * b + o) % b = o
<1> DEFINE a == p * b + o
           q == a \div b
           m == a % b
<1>1. a \in Nat
  OBVIOUS
<1>2. q \in Nat /\ m \in 0..(b - 1) /\ a = b * q + m
  BY <1>1, DivMod
<1>3. b * q + m = b * p + o
  BY <1>2
<1> HIDE DEF a, q, m
<1>4. ~(q < p)
  <2> SUFFICES ASSUME q < p PROVE FALSE
    OBVIOUS
  <2>1. PICK d \in Nat : p = q + 1 + d
    <3>1. p - q - 1 \in Nat /\ p = q + 1 + (p - q - 1)
      BY <1>2
    <3> QED BY <3>1
  <2>2. b * p = b * q + b + b * d
    BY <1>2, <2>1
  <2>3. b * d \in Nat /\ b * q \in Nat /\ b * p \in Nat
    BY <1>2, <2>1
  <2> QED BY <1>2, <1>3, <2>2, <2>3
<1>5. ~(p < q)
  <2> SUFFICES ASSUME p < q PROVE FALSE
    OBVIOUS
  <2>1. PICK d \in Nat : q = p + 1 + d
    <3>1. q - p - 1 \in Nat /\ q = p + 1 + (q - p - 1)
      BY <1>2
    <3> QED BY <3>1
  <2>2. b * q = b * p + b + b * d
    BY <1>2, <2>1
  <2>3. b * d \in Nat /\ b * q \in Nat /\ b * p \in Nat
    BY <1>2, <2>1
  <2> QED BY <1>2, <1>3, <2>2, <2>3
<1>6. q = p
  BY <1>2, <1>4, <1>5
<1>7. m = o
  BY <1>2, <1>3, <1>6
<1> QED BY <1>6, <1>7 DEF a, q, m

\* A larger address is on no smaller page.
LEMMA DivMonotone ==
    ASSUME NEW b \in Nat \ {0}, NEW a \in Nat, NEW c \in Nat, a <= c
    PROVE  a \div b <= c \div b
<1> DEFINE p == a \div b
           q == c \div b
<1>1. p \in Nat /\ a % b \in 0..(b - 1) /\ a = b * p + (a % b)
  BY DivMod
<1>2. q \in Nat /\ c % b \in 0..(b - 1) /\ c = b * q + (c % b)
  BY DivMod
<1> HIDE DEF p, q
<1>3. SUFFICES ASSUME q < p PROVE FALSE
  BY <1>1, <1>2 DEF p, q
<1>4. PICK d \in Nat : p = q + 1 + d
  <2>1. p - q - 1 \in Nat /\ p = q + 1 + (p - q - 1)
    BY <1>1, <1>2, <1>3
  <2> QED BY <2>1
<1>5. b * p = b * q + b + b * d
  BY <1>1, <1>2, <1>4
<1>6. b * d \in Nat /\ b * q \in Nat /\ b * p \in Nat
  BY <1>1, <1>2, <1>4
<1> QED BY <1>1, <1>2, <1>5, <1>6

\* What PageOf and the offset are of an address.
LEMMA Address ==
    ASSUME ElfConstantsOK, NEW a \in Nat
    PROVE  /\ PageOf(a) \in Nat /\ a % BY2PG \in Offset /\ a = PageOf(a) * BY2PG + (a % BY2PG)
           /\ a <= MaxVa + MaxSize => PageOf(a) \in VPage
<1>1. /\ a \div BY2PG \in Nat /\ a % BY2PG \in 0..(BY2PG - 1)
      /\ a = BY2PG * (a \div BY2PG) + (a % BY2PG)
  BY DivMod DEF ElfConstantsOK
<1>2. ASSUME a <= MaxVa + MaxSize PROVE PageOf(a) \in VPage
  <2>1. MaxVa + MaxSize \in Nat /\ (MaxVa + MaxSize) \div BY2PG \in Nat
    BY DivMod DEF ElfConstantsOK
  <2>2. a \div BY2PG <= (MaxVa + MaxSize) \div BY2PG
    BY <1>2, <2>1, DivMonotone DEF ElfConstantsOK
  <2> QED BY <1>1, <2>1, <2>2 DEF PageOf, VPage
<1>3. a = (a \div BY2PG) * BY2PG + (a % BY2PG)
  BY <1>1 DEF ElfConstantsOK
<1> QED BY <1>1, <1>2, <1>3 DEF PageOf, Offset

LEMMA AddressIs ==
    ASSUME ElfConstantsOK, NEW p \in Nat, NEW o \in Offset
    PROVE  PageOf(p * BY2PG + o) = p /\ (p * BY2PG + o) % BY2PG = o
BY DivIs DEF ElfConstantsOK, PageOf, Offset

-----------------------------------------------------------------------------
(* Loading: the invariant.                                                  *)

\* Byte j of segment n is where the program header says.
ByteLoaded(n, j) ==
    LET va == segs[n].va + j
    IN  /\ mem[PageOf(va)] # NULL
        /\ mem[PageOf(va)][va % BY2PG] = IF j < segs[n].filesz THEN <<n, j>> ELSE ZeroByte

\* What the linker script guarantees.
Headers ==
    /\ \A n \in 1..NPhdr : segs[n].filesz <= segs[n].memsz
    /\ \A m, n \in 1..NPhdr :
           m < n => \A p \in PagesOf(segs[m]), q \in PagesOf(segs[n]) : p < q
    /\ \A n \in 1..NPhdr : FullFirstPage(segs[n])

\* Of the segment being loaded, the first elf_i bytes are in memory, and the next one
\* begins a page, unless there is none.
Loading ==
    /\ phase = "first" => elf_i = 0
    /\ phase \in {"file", "zero"} =>
           /\ seg \in 1..NPhdr
           /\ (segs[seg].va + elf_i) % BY2PG = 0 \/ elf_i >= segs[seg].memsz
    /\ phase = "zero" => elf_i >= segs[seg].filesz
    /\ phase # "failed" /\ seg <= NPhdr =>
           \A j \in 0..(MaxSize - 1) :
               j < elf_i /\ j < segs[seg].memsz => ByteLoaded(seg, j)

ElfInv == LoadedExactly /\ Headers /\ Loading

LEMMA SegmentFacts ==
    ASSUME ElfConstantsOK, ElfTypeOK, NEW n \in 1..NPhdr
    PROVE  /\ segs[n] \in Segment /\ segs[n].va \in 0..MaxVa /\ segs[n].filesz \in 0..MaxSize
           /\ segs[n].memsz \in 0..MaxSize
           /\ segs[n].va \in Nat /\ segs[n].filesz \in Nat /\ segs[n].memsz \in Nat
           /\ MaxVa \in Nat /\ MaxSize \in Nat
BY DEF ElfTypeOK, Segment, ElfConstantsOK

\* The pages of what comes before and of this segment are different ones.
LEMMA PagesApart ==
    ASSUME ElfConstantsOK, ElfTypeOK, Headers, NEW n \in 1..NPhdr, NEW m \in 1..NPhdr, n < m,
           NEW j \in 0..(MaxSize - 1), j < segs[n].memsz, NEW p \in PagesOf(segs[m])
    PROVE  PageOf(segs[n].va + j) # p
<1> DEFINE a == segs[n].va + j
           q == PageOf(a)
<1>1. a \in Nat /\ a <= MaxVa + MaxSize /\ segs[n].va <= a /\ a < segs[n].va + segs[n].memsz
  BY SegmentFacts
<1>2. q \in VPage /\ q \in Nat /\ a = q * BY2PG + (a % BY2PG) /\ a % BY2PG \in Offset
  BY <1>1, Address
<1>3. PageOf(segs[n].va) <= q
  BY <1>1, SegmentFacts, DivMonotone DEF PageOf, ElfConstantsOK
<1>4. q * BY2PG < segs[n].va + segs[n].memsz
  <2>1. q * BY2PG \in Nat /\ a % BY2PG \in Nat
    <3>1. \A x \in Offset : x \in Nat
      BY DEF ElfConstantsOK, Offset
    <3>2. BY2PG \in Nat
      BY DEF ElfConstantsOK
    <3> HIDE DEF q, a
    <3>3. q * BY2PG \in Nat
      BY <1>2, <3>2
    <3> QED BY <1>2, <3>1, <3>3
  <2>2. segs[n].va + segs[n].memsz \in Nat
    BY SegmentFacts
  <2> HIDE DEF q, a
  <2>3. q * BY2PG <= a
    BY <1>1, <1>2, <2>1
  <2> QED BY <1>1, <2>1, <2>2, <2>3
<1>5. q \in PagesOf(segs[n])
  BY <1>2, <1>3, <1>4 DEF PagesOf
<1>6. q < p
  BY <1>5 DEF Headers
<1> QED BY <1>2, <1>6 DEF PagesOf, VPage

\* A page that is loaded for segment seg and holds len bytes of it from byte src on.
PageLoaded(p, off, src, len) ==
    /\ segs' = segs
    /\ mem' = [mem EXCEPT ![p] = [o \in Offset |->
                  IF src # NULL /\ off <= o /\ o < off + len
                  THEN <<seg, src + o - off>> ELSE ZeroByte]]

\* The bytes on other pages stay.
LEMMA OthersStay ==
    ASSUME ElfConstantsOK, ElfTypeOK, NEW p \in VPage, NEW off, NEW src, NEW len,
           PageLoaded(p, off, src, len), NEW n \in 1..NPhdr, NEW j \in 0..(MaxSize - 1),
           PageOf(segs[n].va + j) # p, ByteLoaded(n, j)
    PROVE  ByteLoaded(n, j)'
<1>1. segs[n].va + j \in Nat /\ segs[n].va + j <= MaxVa + MaxSize
  BY SegmentFacts
<1>2. PageOf(segs[n].va + j) \in VPage
  BY <1>1, Address
<1>3. mem'[PageOf(segs[n].va + j)] = mem[PageOf(segs[n].va + j)]
  BY <1>2 DEF PageLoaded, ElfTypeOK
<1> QED BY <1>3 DEF ByteLoaded, PageLoaded

\* A page loaded into this segment leaves the segments before as they are, and its own
\* bytes are where they belong.
LEMMA PageSound ==
    ASSUME ElfConstantsOK, LoadedExactly, Headers, seg \in 1..NPhdr,
           NEW p \in PagesOf(segs[seg]), NEW off \in Offset, NEW src \in Nat \cup {NULL},
           NEW len \in Nat, PageLoaded(p, off, src, len),
           src # NULL => /\ src + len <= MaxSize
                         /\ p * BY2PG + off = segs[seg].va + src
    PROVE  /\ mem' \in [VPage -> [Offset -> Byte] \cup {NULL}]
           /\ mem'[p] \in [Offset -> Byte]
           /\ \A n \in 1..NPhdr : n < seg => SegmentLoaded(n)'
           /\ NothingElse'
           /\ Headers'
<1> DEFINE pg == [o \in Offset |-> IF src # NULL /\ off <= o /\ o < off + len
                                   THEN <<seg, src + o - off>> ELSE ZeroByte]
<1>0. p \in VPage /\ p \in Nat
  BY DEF PagesOf, VPage
<1>1. \A o \in Offset : src # NULL /\ off <= o /\ o < off + len =>
          /\ src + o - off \in 0..(MaxSize - 1)
          /\ p * BY2PG + o = segs[seg].va + (src + o - off)
  <2> SUFFICES ASSUME NEW o \in Offset, src # NULL, off <= o, o < off + len
               PROVE  /\ src + o - off \in 0..(MaxSize - 1)
                      /\ p * BY2PG + o = segs[seg].va + (src + o - off)
    OBVIOUS
  <2>1. o \in Nat /\ off \in Nat /\ src \in Nat /\ MaxSize \in Nat
    BY DEF Offset, ElfConstantsOK
  <2>2. p * BY2PG \in Nat /\ segs[seg].va \in Nat
    BY <1>0, SegmentFacts DEF ElfConstantsOK, LoadedExactly
  <2> QED BY <2>1, <2>2
<1>2. pg \in [Offset -> Byte]
  BY <1>1 DEF Byte
<1>3. mem' = [mem EXCEPT ![p] = pg]
  BY DEF PageLoaded
<1> HIDE DEF pg
<1>4. mem' \in [VPage -> [Offset -> Byte] \cup {NULL}]
  BY <1>0, <1>2, <1>3 DEF LoadedExactly, ElfTypeOK
<1>5. ASSUME NEW n \in 1..NPhdr, n < seg PROVE SegmentLoaded(n)'
  <2>1. SegmentLoaded(n)
    BY <1>5 DEF LoadedExactly, SegmentsLoaded
  <2>2. \A j \in 0..(MaxSize - 1) : j < segs[n].memsz => ByteLoaded(n, j)
    BY <2>1 DEF SegmentLoaded, ByteLoaded
  <2>3. \A j \in 0..(MaxSize - 1) : j < segs[n].memsz => ByteLoaded(n, j)'
    BY <1>0, <1>5, <2>2, PagesApart, OthersStay DEF LoadedExactly
  <2> QED BY <2>3 DEF SegmentLoaded, ByteLoaded, PageLoaded
<1>6. NothingElse'
  <2> SUFFICES ASSUME NEW q \in VPage, NEW o \in Offset, mem'[q] # NULL,
                      mem'[q][o] # ZeroByte
               PROVE  q * BY2PG + o = segs'[mem'[q][o][1]].va + mem'[q][o][2]
    BY DEF NothingElse
  <2>1. CASE q # p
    <3>1. mem'[q] = mem[q]
      BY <1>0, <1>3, <2>1 DEF LoadedExactly, ElfTypeOK
    <3> QED BY <3>1 DEF LoadedExactly, NothingElse, PageLoaded
  <2>2. CASE q = p
    <3>1. mem'[q] = pg
      BY <1>0, <1>3, <2>2 DEF LoadedExactly, ElfTypeOK
    <3>2. src # NULL /\ off <= o /\ o < off + len /\ mem'[q][o] = <<seg, src + o - off>>
      BY <3>1 DEF pg
    <3> QED BY <1>1, <2>2, <3>2 DEF PageLoaded
  <2> QED BY <2>1, <2>2
<1>7. Headers'
  BY DEF Headers, PageLoaded, PagesOf
<1>8. mem'[p] \in [Offset -> Byte]
  BY <1>0, <1>2, <1>3 DEF LoadedExactly, ElfTypeOK
<1> QED BY <1>4, <1>5, <1>6, <1>7, <1>8

\* A byte of the page that is loaded.
LEMMA NewByte ==
    ASSUME ElfConstantsOK, ElfTypeOK, NEW p \in VPage, NEW off \in Offset,
           NEW src \in Nat \cup {NULL}, NEW len \in Nat, PageLoaded(p, off, src, len),
           mem'[p] \in [Offset -> Byte], NEW n \in 1..NPhdr, n = seg,
           NEW j \in 0..(MaxSize - 1), NEW o \in Offset, segs[n].va + j = p * BY2PG + o,
           IF src # NULL /\ off <= o /\ o < off + len
           THEN j = src + o - off /\ j < segs[n].filesz
           ELSE ~(j < segs[n].filesz)
    PROVE  ByteLoaded(n, j)'
<1>1. PageOf(segs[n].va + j) = p /\ (segs[n].va + j) % BY2PG = o
  BY AddressIs DEF VPage
<1>2. mem'[p] # NULL
  BY DEF ElfConstantsOK
<1>3. mem'[p][o] = IF src # NULL /\ off <= o /\ o < off + len
                   THEN <<seg, src + o - off>> ELSE ZeroByte
  BY DEF PageLoaded, ElfTypeOK
<1> QED BY <1>1, <1>2, <1>3 DEF ByteLoaded, PageLoaded

-----------------------------------------------------------------------------
(* Loading: the steps.                                                      *)

\* The first page, of which the segment has only the end.
LEMMA FirstStep ==
    ASSUME ElfConstantsOK, ElfInv, seg \in 1..NPhdr, first(segs[seg])
    PROVE  ElfInv'
<1> DEFINE s == segs[seg]
           st == StartOffset(s)
           p == PageOf(s.va)
           len == FirstLen(s)
<1>1. ElfTypeOK /\ Headers /\ LoadedExactly /\ phase = "first" /\ elf_i = 0
  BY DEF ElfInv, LoadedExactly, Loading, first
<1>2. phase' = "file" /\ segs' = segs /\ seg' = seg
  BY DEF first
<1>3. /\ s.va \in 0..MaxVa /\ s.filesz \in 0..MaxSize /\ s.memsz \in 0..MaxSize
      /\ MaxVa \in Nat /\ MaxSize \in Nat /\ BY2PG \in Nat \ {0}
      /\ s.va \in Nat /\ s.filesz <= s.memsz
  BY <1>1, SegmentFacts DEF ElfConstantsOK, Headers
<1>4. p \in VPage /\ p \in Nat /\ st \in Offset /\ st \in 0..(BY2PG - 1)
      /\ s.va = p * BY2PG + st
  <2>1. s.va <= MaxVa + MaxSize
    BY <1>3
  <2>2. /\ p \in Nat /\ st \in Offset /\ s.va = p * BY2PG + st
        /\ p \in VPage
    <3> HIDE DEF s
    <3> QED BY <1>3, <2>1, Address DEF StartOffset
  <2> QED BY <2>2 DEF Offset
<1>5. CASE st = 0
  <2>1. mem' = mem /\ elf_i' = 0
    BY <1>5 DEF first
  <2>2. LoadedExactly'
    BY <1>1, <1>2, <1>3, <2>1 DEF LoadedExactly, ElfTypeOK, SegmentsLoaded, SegmentLoaded,
          NothingElse
  <2>3. Headers'
    BY <1>1, <1>2 DEF Headers, PagesOf
  <2>4. Loading'
    <3>1. (segs'[seg'].va + elf_i') % BY2PG = 0
      BY <1>2, <1>3, <1>5, <2>1 DEF StartOffset
    <3>2. \A j \in 0..(MaxSize - 1) : ~(j < elf_i')
      BY <2>1, <1>3
    <3> QED BY <1>2, <3>1, <3>2 DEF Loading
  <2> QED BY <2>2, <2>3, <2>4 DEF ElfInv
<1>6. CASE st # 0
  <2>1. PageLoaded(p, st, 0, len) /\ elf_i' = len
    BY <1>2, <1>6 DEF first, map_page, PageLoaded
  <2>2. /\ len \in Nat /\ len <= s.filesz /\ len <= BY2PG - st
        /\ len = s.filesz \/ len = BY2PG - st
        /\ len < BY2PG - st => s.filesz < BY2PG - st
    <3> HIDE DEF p, st
    <3> QED BY <1>3, <1>4 DEF FirstLen, MinOf, st
  <2>3. p \in PagesOf(s)
    BY <1>4 DEF PagesOf
  <2>4. /\ mem' \in [VPage -> [Offset -> Byte] \cup {NULL}]
        /\ mem'[p] \in [Offset -> Byte]
        /\ \A n \in 1..NPhdr : n < seg => SegmentLoaded(n)'
        /\ NothingElse'
        /\ Headers'
    <3>1. 0 + len <= MaxSize /\ p * BY2PG + st = s.va + 0
      BY <1>3, <1>4, <2>2
    <3> HIDE DEF p, st, len
    <3> QED BY <1>1, <1>4, <2>1, <2>2, <2>3, <3>1, PageSound
  <2>5. LoadedExactly'
    <3>1. elf_i' \in 0..(MaxSize + BY2PG - 1)
      BY <1>3, <2>1, <2>2
    <3>2. ElfTypeOK'
      BY <1>1, <1>2, <2>4, <3>1 DEF ElfTypeOK
    <3> QED BY <1>2, <2>4, <3>2 DEF LoadedExactly, SegmentsLoaded
  <2>6. Loading'
    <3>1. (s.va + len) % BY2PG = 0 \/ len >= s.memsz
      <4>1. CASE len = BY2PG - st
        <5>1. s.va + len = (p + 1) * BY2PG + 0
          <6> HIDE DEF p, st, len
          <6> QED BY <1>3, <1>4, <2>2, <4>1
        <5>2. ((p + 1) * BY2PG + 0) % BY2PG = 0
          BY <1>3, <1>4, AddressIs DEF Offset
        <5> QED BY <5>1, <5>2
      <4>2. CASE len # BY2PG - st
        <5>1. len = s.filesz /\ ~(s.filesz >= BY2PG - st)
          <6> HIDE DEF p, st, len
          <6> QED BY <1>3, <1>4, <2>2, <4>2
        <5>2. FullFirstPage(s)
          BY <1>1 DEF Headers
        <5>3. s.memsz = s.filesz
          BY <1>6, <5>1, <5>2 DEF FullFirstPage
        <5> QED BY <1>3, <5>1, <5>3
      <4> QED BY <4>1, <4>2
    <3>2. ASSUME NEW j \in 0..(MaxSize - 1), j < len PROVE ByteLoaded(seg, j)'
      <4> DEFINE o == st + j
      <4>1. o \in Offset /\ s.va + j = p * BY2PG + o
        <5>1. j \in Nat /\ p * BY2PG \in Nat
          BY <1>3, <1>4
        <5> HIDE DEF p, st, len
        <5> QED BY <1>3, <1>4, <2>2, <3>2, <5>1 DEF Offset
      <4>2. st <= o /\ o < st + len /\ j = 0 + o - st /\ j < s.filesz
        <5> HIDE DEF p, st, len
        <5> QED BY <1>3, <1>4, <2>2, <3>2
      <4>3. 0 # NULL
        BY DEF ElfConstantsOK
      <4> HIDE DEF p, st, len, o
      <4>4. \A n \in 1..NPhdr : n = seg => ByteLoaded(n, j)'
        BY <1>1, <1>4, <2>1, <2>2, <2>4, <4>1, <4>2, <4>3, NewByte
      <4> QED BY <1>2, <4>4 DEF ByteLoaded
    <3>3. segs'[seg'] = s
      BY <1>2
    <3> HIDE DEF s, len
    <3> QED BY <1>2, <2>1, <3>1, <3>2, <3>3 DEF Loading
  <2> QED BY <2>4, <2>5, <2>6 DEF ElfInv
<1> QED BY <1>5, <1>6

\* One page more of the segment, from the file or of zeros.
LEMMA NextPageLoaded ==
    ASSUME ElfConstantsOK, ElfInv, seg \in 1..NPhdr, phase \in {"file", "zero"},
           elf_i < segs[seg].memsz, NEW src \in {elf_i, NULL}, NEW len \in Nat,
           src = NULL => elf_i >= segs[seg].filesz,
           src # NULL => /\ elf_i < segs[seg].filesz
                         /\ len = MinOf(segs[seg].filesz - elf_i, BY2PG),
           PageLoaded(PageOf(segs[seg].va + elf_i), 0, src, len),
           elf_i' = elf_i + BY2PG, seg' = seg, phase' = phase
    PROVE  ElfInv'
<1> DEFINE s == segs[seg]
           a == s.va + elf_i
           p == PageOf(a)
<1>1. ElfTypeOK /\ Headers /\ LoadedExactly /\ segs' = segs
  BY DEF ElfInv, LoadedExactly, PageLoaded
<1>2. /\ s.va \in 0..MaxVa /\ s.filesz \in 0..MaxSize /\ s.memsz \in 0..MaxSize
      /\ MaxVa \in Nat /\ MaxSize \in Nat /\ BY2PG \in Nat \ {0}
      /\ s.va \in Nat /\ s.filesz <= s.memsz /\ elf_i \in Nat /\ 0 \in Offset
  BY <1>1, SegmentFacts DEF ElfConstantsOK, Headers, ElfTypeOK, Offset
<1>3. a \in Nat /\ a <= MaxVa + MaxSize /\ a < s.va + s.memsz
  BY <1>2
<1>4. a % BY2PG = 0
  BY <1>2 DEF ElfInv, Loading
<1>5. p \in VPage /\ p \in Nat /\ a = p * BY2PG
  <2>1. p \in VPage /\ p \in Nat /\ a = p * BY2PG + 0
    BY <1>3, <1>4, Address
  <2> HIDE DEF a, p
  <2> QED BY <1>2, <2>1
<1>6. p \in PagesOf(s)
  <2>1. s.va <= a
    BY <1>2
  <2>2. PageOf(s.va) <= p
    <3> HIDE DEF s, a
    <3> QED BY <1>2, <1>3, <2>1, DivMonotone DEF PageOf
  <2> QED BY <1>3, <1>5, <2>2 DEF PagesOf
<1>7. src \in Nat \cup {NULL} /\ NULL \notin Nat
  BY <1>2 DEF ElfConstantsOK
<1>8. src # NULL => src = elf_i /\ src + len <= MaxSize /\ p * BY2PG + 0 = s.va + src
  BY <1>2, <1>5 DEF MinOf
<1>9. /\ mem' \in [VPage -> [Offset -> Byte] \cup {NULL}]
      /\ mem'[p] \in [Offset -> Byte]
      /\ \A n \in 1..NPhdr : n < seg => SegmentLoaded(n)'
      /\ NothingElse'
      /\ Headers'
  <2> HIDE DEF p
  <2>1. PageLoaded(p, 0, src, len)
    BY DEF p
  <2> QED BY <1>1, <1>2, <1>6, <1>7, <1>8, <2>1, PageSound
<1>10. LoadedExactly'
  <2>1. elf_i' \in 0..(MaxSize + BY2PG - 1)
    BY <1>2
  <2>2. ElfTypeOK'
    BY <1>1, <1>9, <2>1 DEF ElfTypeOK
  <2> QED BY <1>9, <2>2 DEF LoadedExactly, SegmentsLoaded
<1>11. (s.va + elf_i') % BY2PG = 0
  <2>1. s.va + elf_i' = (p + 1) * BY2PG + 0
    <3> HIDE DEF p
    <3> QED BY <1>2, <1>5
  <2>2. ((p + 1) * BY2PG + 0) % BY2PG = 0
    BY <1>2, <1>5, AddressIs
  <2> QED BY <2>1, <2>2
<1>12. ASSUME NEW j \in 0..(MaxSize - 1), j < elf_i', j < s.memsz
       PROVE  \A n \in 1..NPhdr : n = seg => ByteLoaded(n, j)'
  <2> SUFFICES ASSUME NEW n \in 1..NPhdr, n = seg PROVE ByteLoaded(n, j)'
    OBVIOUS
  <2>1. CASE j < elf_i
    <3>1. ByteLoaded(n, j)
      BY <1>12, <2>1 DEF ElfInv, Loading
    <3>2. PageOf(s.va + j) # p
      <4>1. s.va + j \in Nat /\ s.va + j < p * BY2PG /\ p * BY2PG \in Nat
        BY <1>2, <1>5, <2>1
      <4>2. /\ (s.va + j) % BY2PG \in Nat
            /\ s.va + j = PageOf(s.va + j) * BY2PG + ((s.va + j) % BY2PG)
        BY <4>1, Address DEF Offset
      <4> HIDE DEF p
      <4> QED BY <4>1, <4>2
    <3> QED BY <1>1, <1>5, <3>1, <3>2, OthersStay
  <2>2. CASE ~(j < elf_i)
    <3> DEFINE o == j - elf_i
    <3>1. o \in Offset /\ o \in Nat /\ j = elf_i + o
      BY <1>2, <1>12, <2>2 DEF Offset
    <3>2. s.va + j = p * BY2PG + o
      BY <1>2, <1>5, <3>1
    <3>3. IF src # NULL /\ 0 <= o /\ o < 0 + len
          THEN j = src + o - 0 /\ j < s.filesz
          ELSE ~(j < s.filesz)
      <4>1. CASE src # NULL
        <5>1. o < len <=> j < s.filesz
          BY <1>2, <3>1, <4>1 DEF MinOf, Offset
        <5> QED BY <1>2, <1>8, <3>1, <4>1, <5>1
      <4>2. CASE src = NULL
        BY <1>2, <3>1, <4>2
      <4> QED BY <4>1, <4>2
    <3> HIDE DEF p, o
    <3>4. PageLoaded(p, 0, src, len)
      BY DEF p
    <3> QED BY <1>1, <1>2, <1>5, <1>7, <1>9, <3>1, <3>2, <3>3, <3>4, NewByte
  <2> QED BY <2>1, <2>2
<1>13. Loading'
  <2>1. phase = "zero" => elf_i' >= s.filesz
    BY <1>2 DEF ElfInv, Loading
  <2>2. \A j \in 0..(MaxSize - 1) :
           j < elf_i' /\ j < s.memsz => ByteLoaded(seg, j)'
    BY <1>12 DEF ByteLoaded
  <2>3. segs'[seg'] = s
    BY <1>1
  <2> HIDE DEF s
  <2> QED BY <1>11, <2>1, <2>2, <2>3 DEF Loading
<1> QED BY <1>9, <1>10, <1>13 DEF ElfInv

\* A step that changes neither the address space nor the program.
LEMMA MemoryKept ==
    ASSUME ElfInv, UNCHANGED <<segs, mem>>
    PROVE  /\ \A n \in 1..NPhdr, j \in 0..(MaxSize - 1) :
                  ByteLoaded(n, j) => ByteLoaded(n, j)'
           /\ \A n \in 1..NPhdr : SegmentLoaded(n) => SegmentLoaded(n)'
           /\ NothingElse' /\ Headers'
<1>1. \A n \in 1..NPhdr, j \in 0..(MaxSize - 1) : ByteLoaded(n, j) => ByteLoaded(n, j)'
  BY DEF ByteLoaded
<1>2. \A n \in 1..NPhdr : SegmentLoaded(n) => SegmentLoaded(n)'
  BY DEF SegmentLoaded
<1>3. NothingElse' /\ Headers'
  BY DEF ElfInv, LoadedExactly, NothingElse, Headers, PagesOf
<1> QED BY <1>1, <1>2, <1>3

LEMMA FileStep ==
    ASSUME ElfConstantsOK, ElfInv, seg \in 1..NPhdr, load_file(segs[seg])
    PROVE  ElfInv'
<1> DEFINE s == segs[seg]
<1>1. ElfTypeOK /\ phase = "file" /\ segs' = segs /\ seg' = seg
  BY DEF ElfInv, LoadedExactly, load_file
<1>2. /\ elf_i \in Nat /\ s.filesz \in 0..MaxSize /\ s.memsz \in 0..MaxSize
      /\ MaxSize \in Nat /\ BY2PG \in Nat \ {0} /\ NULL \notin Nat /\ s.filesz <= s.memsz
  BY <1>1, SegmentFacts DEF ElfTypeOK, ElfConstantsOK, ElfInv, Headers
<1>3. CASE elf_i < s.filesz
  <2> DEFINE len == MinOf(s.filesz - elf_i, BY2PG)
  <2>1. PageLoaded(PageOf(s.va + elf_i), 0, elf_i, len) /\ elf_i' = elf_i + BY2PG
        /\ phase' = phase
    BY <1>1, <1>3 DEF load_file, map_page, PageLoaded
  <2>2. len \in Nat /\ elf_i < s.memsz /\ elf_i # NULL
    BY <1>2, <1>3 DEF MinOf
  <2> HIDE DEF len
  <2>3. len = MinOf(s.filesz - elf_i, BY2PG)
    BY DEF len
  <2> QED BY <1>1, <1>3, <2>1, <2>2, <2>3, NextPageLoaded
<1>4. CASE ~(elf_i < s.filesz)
  <2>1. phase' = "zero" /\ elf_i' = elf_i /\ mem' = mem
    BY <1>4 DEF load_file
  <2>2. LoadedExactly'
    BY <1>1, <2>1, MemoryKept DEF ElfInv, LoadedExactly, ElfTypeOK, SegmentsLoaded
  <2>3. Loading'
    BY <1>1, <1>2, <1>4, <2>1, MemoryKept DEF ElfInv, Loading, ByteLoaded
  <2> QED BY <1>1, <2>1, <2>2, <2>3, MemoryKept DEF ElfInv
<1> QED BY <1>3, <1>4

LEMMA ZeroStep ==
    ASSUME ElfConstantsOK, ElfInv, seg \in 1..NPhdr, load_zero(segs[seg])
    PROVE  ElfInv'
<1> DEFINE s == segs[seg]
<1>1. ElfTypeOK /\ phase = "zero" /\ segs' = segs
  BY DEF ElfInv, LoadedExactly, load_zero
<1>2. /\ elf_i \in Nat /\ s.filesz \in 0..MaxSize /\ s.memsz \in 0..MaxSize
      /\ MaxSize \in Nat /\ BY2PG \in Nat \ {0} /\ NPhdr \in Nat
      /\ elf_i >= s.filesz
  BY <1>1, SegmentFacts DEF ElfTypeOK, ElfConstantsOK, ElfInv, Loading
<1>3. CASE elf_i < s.memsz
  <2>1. PageLoaded(PageOf(s.va + elf_i), 0, NULL, 0) /\ elf_i' = elf_i + BY2PG
        /\ phase' = phase /\ seg' = seg
    BY <1>1, <1>3 DEF load_zero, map_page, PageLoaded
  <2> QED BY <1>1, <1>2, <1>3, <2>1, NextPageLoaded
<1>4. CASE ~(elf_i < s.memsz)
  <2>1. phase' = "first" /\ elf_i' = 0 /\ seg' = seg + 1 /\ mem' = mem
    BY <1>4 DEF load_zero
  <2>2. SegmentLoaded(seg)
    <3>1. \A j \in 0..(MaxSize - 1) : j < s.memsz => ByteLoaded(seg, j)
      BY <1>1, <1>2, <1>4 DEF ElfInv, Loading
    <3> QED BY <3>1 DEF SegmentLoaded, ByteLoaded
  <2>3. \A n \in 1..NPhdr : n < seg' => SegmentLoaded(n)'
    <3> SUFFICES ASSUME NEW n \in 1..NPhdr, n < seg' PROVE SegmentLoaded(n)'
      OBVIOUS
    <3>1. SegmentLoaded(n)
      BY <2>1, <2>2 DEF ElfInv, LoadedExactly, SegmentsLoaded
    <3> QED BY <1>1, <2>1, <3>1, MemoryKept
  <2>4. ElfTypeOK'
    BY <1>1, <1>2, <2>1 DEF ElfTypeOK
  <2>5. LoadedExactly'
    BY <1>1, <2>1, <2>3, <2>4, MemoryKept DEF LoadedExactly, SegmentsLoaded
  <2>6. Loading'
    BY <1>2, <2>1 DEF Loading
  <2> QED BY <1>1, <2>1, <2>5, <2>6, MemoryKept DEF ElfInv
<1> QED BY <1>3, <1>4

\* Nothing is loaded: a stutter, or the loader gives up.
LEMMA RestStep ==
    ASSUME ElfInv, no_memory \/ UNCHANGED elfVars
    PROVE  ElfInv'
<1>1. UNCHANGED <<segs, seg, elf_i, mem>> /\ (phase' = phase \/ phase' = "failed")
  BY DEF no_memory, elfVars
<1>2. LoadedExactly'
  BY <1>1, MemoryKept DEF ElfInv, LoadedExactly, ElfTypeOK, SegmentsLoaded
<1>3. Loading'
  <2>1. CASE phase' = phase
    BY <1>1, <2>1 DEF ElfInv, Loading, ByteLoaded
  <2>2. CASE phase' = "failed"
    BY <2>2 DEF Loading
  <2> QED BY <1>1, <2>1, <2>2
<1> QED BY <1>1, <1>2, <1>3, MemoryKept DEF ElfInv

LEMMA HeadersHold ==
    ASSUME "own pages" \in LinkRules, "full first page" \in LinkRules, ElfInit
    PROVE  Headers
BY DEF ElfInit, Headers

LEMMA NothingLoadedYet ==
    ASSUME ElfConstantsOK, ElfInit, Headers
    PROVE  ElfInv
<1>1. BY2PG \in Nat \ {0} /\ MaxSize \in Nat /\ NPhdr \in Nat \ {0}
  BY DEF ElfConstantsOK
<1>2. /\ segs \in [1..NPhdr -> Segment] /\ mem = [p \in VPage |-> NULL]
      /\ seg = 1 /\ phase = "first" /\ elf_i = 0
  BY DEF ElfInit
<1>3. ElfTypeOK
  <2>1. seg \in 1..(NPhdr + 1) /\ elf_i \in 0..(MaxSize + BY2PG - 1)
    BY <1>1, <1>2
  <2> QED BY <1>2, <2>1 DEF ElfTypeOK
<1>4. SegmentsLoaded /\ NothingElse
  BY <1>1, <1>2 DEF SegmentsLoaded, NothingElse
<1>5. Loading
  BY <1>1, <1>2 DEF Loading
<1> QED BY <1>3, <1>4, <1>5 DEF ElfInv, LoadedExactly

LEMMA LoaderStep ==
    ASSUME ElfConstantsOK, ElfInv, [ElfNext]_elfVars
    PROVE  ElfInv'
<1>1. CASE UNCHANGED elfVars
  BY <1>1, RestStep
<1>2. CASE ElfNext
  <2>1. NPhdr \in Nat \ {0} /\ seg \in 1..(NPhdr + 1) /\ seg <= NPhdr
    BY <1>2 DEF ElfNext, ElfInv, LoadedExactly, ElfTypeOK, ElfConstantsOK
  <2>2. seg \in 1..NPhdr
    BY <2>1
  <2>3. first(segs[seg]) \/ load_file(segs[seg]) \/ load_zero(segs[seg]) \/ no_memory
    BY <1>2 DEF ElfNext
  <2> QED BY <2>2, <2>3, FirstStep, FileStep, ZeroStep, RestStep
<1> QED BY <1>1, <1>2

\* elf_load_seg: whatever their number, sizes and addresses, every segment that was
\* loaded is in memory byte for byte, the file's bytes and then zeros, and no byte of
\* the program is anywhere else, if segments share no page and one that does not begin
\* a page fills its first page from the file or has no part that is not in the file.
THEOREM ProgramsAreLoaded ==
    ASSUME "own pages" \in LinkRules, "full first page" \in LinkRules
    PROVE  ElfSpec => []LoadedExactly
<1> USE ElfConstantsAssumption
<1>1. ElfInit => ElfInv
  BY HeadersHold, NothingLoadedYet
<1>2. ElfInv /\ [ElfNext]_elfVars => ElfInv'
  BY LoaderStep
<1>3. ElfInv => LoadedExactly
  BY DEF ElfInv
<1> QED BY <1>1, <1>2, <1>3, PTL DEF ElfSpec

=============================================================================
