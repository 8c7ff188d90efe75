------------------------- MODULE LayerSelection_proof -------------------------
(***************************************************************************)
(* Proofs about LayerSelection: the loops of hwc_set compute what the case *)
(* forms of the window manager's model do, for every frame and every list. *)
(*                                                                         *)
(* A loop is proved by an invariant, as a set of states for each round.    *)
(* Induction is over sets of numbers, from the order of the numbers.       *)
(***************************************************************************)
EXTENDS LayerFrames, WellFoundedInduction, TLAPS

-------------------------------------------------------------------------------
(* Numbers and loops.                                                      *)

\* A set of natural numbers that is not empty has a least element.
LEMMA LeastNumber ==
  ASSUME NEW S \in SUBSET Nat, S # {}
  PROVE  \E n \in S : \A k \in S : n <= k
<1>1. IsWellFoundedOn(OpToRel(<, Nat), Nat)
  BY NatLessThanWellFounded, Zenon
<1>2. PICK n \in S : \A k \in S : ~ (<<k, n>> \in OpToRel(<, Nat))
  BY <1>1, WFMin, Zenon
<1>3. \A k \in S : k < n => <<k, n>> \in OpToRel(<, Nat)
  BY Zenon DEF OpToRel
<1>4. \A k \in S : ~(k < n)
  BY <1>2, <1>3, Zenon
<1> QED
  BY <1>4

\* Induction: a set that has 0 and with each number the next one has them all.
LEMMA Induction ==
  ASSUME NEW S, 0 \in S, \A n \in Nat : n \in S => n + 1 \in S
  PROVE  Nat \subseteq S
<1> SUFFICES ASSUME Nat \ S # {} PROVE FALSE
  OBVIOUS
<1>1. PICK n \in Nat \ S : \A k \in Nat \ S : n <= k
  BY LeastNumber
<1>2. n - 1 \in Nat /\ n - 1 \notin Nat \ S
  BY <1>1
<1> QED
  BY <1>1, <1>2

\* g gives the states after each round of a loop.
Rounds(base, n, round, g) ==
  g = [i \in 0 .. n |-> IF i = 0 THEN base ELSE round[i][g[i - 1]]]

\* A loop has such a function.
LEMMA LoopRounds ==
  ASSUME NEW State, NEW base \in State, NEW n \in Nat,
         NEW round \in [1 .. n -> [State -> State]]
  PROVE  \E g : Rounds(base, n, round, g)
<1> DEFINE Upto(k, g) == g[0] = base /\ \A i \in 1 .. k : g[i] = round[i][g[i - 1]]
           S == {k \in Nat : k <= n => \E g \in [0 .. k -> State] : Upto(k, g)}
<1>1. 0 \in S
  <2>1. Upto(0, [i \in 0 .. 0 |-> base])
    OBVIOUS
  <2> QED
    BY <2>1
<1>2. ASSUME NEW k \in Nat, k \in S
      PROVE  k + 1 \in S
  <2> SUFFICES ASSUME k + 1 <= n
               PROVE  \E g \in [0 .. k + 1 -> State] : Upto(k + 1, g)
    OBVIOUS
  <2>1. PICK g \in [0 .. k -> State] : Upto(k, g)
    BY <1>2
  <2> DEFINE h == [i \in 0 .. k + 1 |-> IF i = k + 1 THEN round[k + 1][g[k]] ELSE g[i]]
  <2>2. h \in [0 .. k + 1 -> State]
    <3>1. round[k + 1] \in [State -> State] /\ g[k] \in State
      OBVIOUS
    <3> QED
      BY <3>1
  <2>3. h[0] = base
    BY <2>1
  <2>4. ASSUME NEW i \in 1 .. k + 1
        PROVE  h[i] = round[i][h[i - 1]]
    <3>1. CASE i = k + 1
      BY <3>1
    <3>2. CASE i \in 1 .. k
      BY <2>1, <3>2
    <3> QED
      BY <3>1, <3>2
  <2> QED
    BY <2>2, <2>3, <2>4
<1>3. n \in S
  BY <1>1, <1>2, Induction
<1>4. PICK g \in [0 .. n -> State] : Upto(n, g)
  BY <1>3
<1>5. \A i \in 0 .. n : g[i] = IF i = 0 THEN base ELSE round[i][g[i - 1]]
  BY <1>4
<1>6. Rounds(base, n, round, g)
  BY <1>5 DEF Rounds
<1> QED
  BY <1>6

\* The rule for loops: what holds of the base, and is carried from each round to
\* the next, holds of the result.
LEMMA LoopInvariant ==
  ASSUME NEW State, NEW base \in State, NEW n \in Nat,
         NEW round \in [1 .. n -> [State -> State]],
         NEW Inv \in [0 .. n -> SUBSET State], base \in Inv[0],
         \A i \in 1 .. n : \A s \in Inv[i - 1] : round[i][s] \in Inv[i]
  PROVE  Loop(base, n, round) \in Inv[n]
<1> DEFINE After == CHOOSE g : Rounds(base, n, round, g)
<1>1. Rounds(base, n, round, After)
  <2>1. \E g : Rounds(base, n, round, g)
    BY LoopRounds
  <2> QED
    BY <2>1, Zenon
<1>2. Loop(base, n, round) = After[n]
  BY Zenon DEF Loop, Rounds
<1> HIDE DEF After
<1>3. After[0] = base /\ \A i \in 1 .. n : After[i] = round[i][After[i - 1]]
  <2>1. \A i \in 0 .. n : After[i] = IF i = 0 THEN base ELSE round[i][After[i - 1]]
    BY <1>1 DEF Rounds
  <2> QED
    BY <2>1
<1> DEFINE S == {k \in Nat : k <= n => After[k] \in Inv[k]}
<1>4. 0 \in S
  BY <1>3
<1>5. ASSUME NEW k \in Nat, k \in S
      PROVE  k + 1 \in S
  <2> SUFFICES ASSUME k + 1 <= n PROVE After[k + 1] \in Inv[k + 1]
    OBVIOUS
  <2>1. After[k] \in Inv[k]
    BY <1>5
  <2>2. After[k + 1] = round[k + 1][After[k]] /\ k + 1 \in 1 .. n /\ (k + 1) - 1 = k
    BY <1>3
  <2> QED
    BY <2>1, <2>2
<1>6. n \in S
  BY <1>4, <1>5, Induction
<1> QED
  BY <1>2, <1>6

-------------------------------------------------------------------------------
(* The loops of hwc_set.                                                   *)

\* What electing and the rounds of the blacklist loop do to a selection.
LEMMA BlacklistRoundIs ==
  ASSUME NEW sel \in Selections, NEW task \in Tasks, NEW app,
         NEW r, r = BlacklistRound(app, task)[sel]
  PROVE  /\ r \in Selections
         /\ sel.break => r = sel
         /\ ~sel.break /\ app = AppOf[task] => ~r.show /\ r.break /\ r.tid = sel.tid
         /\ ~sel.break /\ app # AppOf[task] =>
              r.show /\ ~r.break /\ r.tid = IF sel.tid = NoTask THEN task ELSE sel.tid
  BY DEF BlacklistRound, Elect, Selections

\* The blacklist loop of one task layer shows unless the task's package is in the
\* list, and elects the task if none is elected and the first entry is another.
LEMMA BlacklistLoopIs ==
  ASSUME NEW sel \in Selections, NEW task \in Tasks,
         NEW P, NEW list \in Seq(P), list # <<>>,
         NEW r, r = BlacklistLoop(sel, task, list)
  PROVE  /\ r \in Selections
         /\ r.show <=> ~Blacklisted(task, list)
         /\ r.tid = IF sel.tid = NoTask /\ Head(list) # AppOf[task] THEN task ELSE sel.tid
<1> DEFINE n == Len(list)
           base == [sel EXCEPT !.break = FALSE]
           round == [i \in 1 .. n |-> BlacklistRound(list[i], task)]
           Met(i) == \E k \in 1 .. i : list[k] = AppOf[task]
           Tid(i) == IF i # 0 /\ sel.tid = NoTask /\ list[1] # AppOf[task]
                     THEN task ELSE sel.tid
           Good(i, s) == /\ s.break <=> Met(i)
                         /\ i # 0 => (s.show <=> ~s.break)
                         /\ s.tid = Tid(i)
           Inv == [i \in 0 .. n |-> {s \in Selections : Good(i, s)}]
<1>1. n \in Nat /\ n > 0 /\ task # NoTask
  BY NoTaskAssumption
<1>2. base \in Selections /\ ~base.break /\ base.tid = sel.tid
  BY DEF Selections
<1>3. round \in [1 .. n -> [Selections -> Selections]]
  <2> SUFFICES ASSUME NEW i \in 1 .. n
               PROVE  BlacklistRound(list[i], task) \in [Selections -> Selections]
    BY Zenon
  <2>1. \A s \in Selections : BlacklistRound(list[i], task)[s] \in Selections
    BY BlacklistRoundIs
  <2>2. DOMAIN BlacklistRound(list[i], task) = Selections
    BY DEF BlacklistRound
  <2>3. BlacklistRound(list[i], task)
          = [s \in Selections |-> BlacklistRound(list[i], task)[s]]
    BY <2>2, Zenon DEF BlacklistRound
  <2> QED
    BY <2>1, <2>3
<1>4. base \in Inv[0]
  <2>1. ~Met(0) /\ Tid(0) = sel.tid
    OBVIOUS
  <2>2. Good(0, base)
    BY <1>2, <2>1
  <2> HIDE DEF Good
  <2> QED
    BY <1>1, <1>2, <2>2
<1>5. ASSUME NEW i \in 1 .. n, NEW s \in Inv[i - 1]
      PROVE  round[i][s] \in Inv[i]
  <2>1. s \in Selections /\ Good(i - 1, s) /\ i - 1 \in 0 .. n
    BY <1>1
  <2> DEFINE t == round[i][s]
  <2>2. /\ t \in Selections
        /\ s.break => t = s
        /\ ~s.break /\ list[i] = AppOf[task] => ~t.show /\ t.break /\ t.tid = s.tid
        /\ ~s.break /\ list[i] # AppOf[task] =>
             t.show /\ ~t.break /\ t.tid = IF s.tid = NoTask THEN task ELSE s.tid
    BY <2>1, BlacklistRoundIs
  <2> HIDE DEF t
  <2>3. Met(i) <=> Met(i - 1) \/ list[i] = AppOf[task]
    OBVIOUS
  <2>4. Met(i - 1) => i - 1 # 0
    OBVIOUS
  <2> HIDE DEF Met
  <2>5. Good(i, t)
    <3>1. t.break <=> Met(i)
      BY <2>1, <2>2, <2>3
    <3>2. t.show <=> ~t.break
      BY <2>1, <2>2, <2>3, <2>4
    <3>3. t.tid = Tid(i)
      <4>1. CASE i = 1
        BY <1>1, <2>1, <2>2, <2>4, <4>1
      <4>2. CASE i # 1
        <5>1. Met(i - 1) \/ list[1] # AppOf[task]
          BY <4>2 DEF Met
        <5> QED
          BY <1>1, <2>1, <2>2, <4>2, <5>1
      <4> QED
        BY <4>1, <4>2
    <3> QED
      BY <3>1, <3>2, <3>3
  <2> QED
    BY <2>2, <2>5 DEF t
<1>6. Inv \in [0 .. n -> SUBSET Selections]
  OBVIOUS
<1>7. r \in Inv[n]
  <2>1. r = Loop(base, n, round)
    BY DEF BlacklistLoop
  <2> HIDE DEF Inv, round, base, n
  <2>2. \A i \in 1 .. n : \A s \in Inv[i - 1] : round[i][s] \in Inv[i]
    BY <1>5
  <2>3. Loop(base, n, round) \in Inv[n]
    BY <1>1, <1>2, <1>3, <1>4, <1>6, <2>2, LoopInvariant
  <2> QED
    BY <2>1, <2>3
<1>8. r \in Selections /\ Good(n, r)
  BY <1>1, <1>7
<1>9. Met(n) <=> Blacklisted(task, list)
  BY DEF Blacklisted, ToSet
<1> QED
  BY <1>1, <1>8, <1>9

\* The loop over the layers: the last task layer decides on showWindow, the
\* first whose package is not at the head of the list is elected.
LEMMA SelectSingleIs ==
  ASSUME NEW L, NEW lay \in Seq(L), NEW P, NEW list \in Seq(P), list # <<>>,
         NEW r, r = SelectSingle(lay, list)
  PROVE  /\ r \in Selections
         /\ r.show <=> ShowWindow(lay, list)
         /\ SingleTask(lay, list) = {r.tid} \ {NoTask}
<1> DEFINE n == Len(lay)
           round == [i \in 1 .. n |-> LayerRound(lay[i], list)]
           Electable(k) == IsTid(lay[k]) /\ AppOf[lay[k]] # Head(list)
           Shown(i) == \E k \in 1 .. i :
                         /\ IsTid(lay[k]) /\ ~Blacklisted(lay[k], list)
                         /\ \A m \in 1 .. i : IsTid(lay[m]) => m <= k
           First(i, tid) ==
             \/ tid = NoTask /\ \A k \in 1 .. i : ~Electable(k)
             \/ \E k \in 1 .. i : /\ Electable(k) /\ tid = lay[k]
                                 /\ \A m \in 1 .. i : Electable(m) => k <= m
           Good(i, s) == (s.show <=> Shown(i)) /\ First(i, s.tid)
           Inv == [i \in 0 .. n |-> {s \in Selections : Good(i, s)}]
<1>1. n \in Nat
  OBVIOUS
<1>2. NothingSelected \in Selections
  BY DEF NothingSelected, Selections
<1>3. ASSUME NEW i \in 1 .. n, NEW s \in Selections
      PROVE  /\ round[i][s] \in Selections
             /\ ~IsTid(lay[i]) => round[i][s] = s
             /\ IsTid(lay[i]) =>
                  /\ round[i][s].show <=> ~Blacklisted(lay[i], list)
                  /\ round[i][s].tid = IF s.tid = NoTask /\ Electable(i) THEN lay[i] ELSE s.tid
  <2>1. round[i][s] = IF IsTid(lay[i]) THEN BlacklistLoop(s, lay[i], list) ELSE s
    BY DEF LayerRound
  <2>2. CASE IsTid(lay[i])
    BY <2>1, <2>2, BlacklistLoopIs DEF IsTid
  <2> QED
    BY <2>1, <2>2
<1>4. round \in [1 .. n -> [Selections -> Selections]]
  <2> SUFFICES ASSUME NEW i \in 1 .. n
               PROVE  LayerRound(lay[i], list) \in [Selections -> Selections]
    BY Zenon
  <2>1. round[i] = LayerRound(lay[i], list)
    OBVIOUS
  <2>2. \A s \in Selections : LayerRound(lay[i], list)[s] \in Selections
    BY <1>3, <2>1
  <2>3. LayerRound(lay[i], list) = [s \in Selections |-> LayerRound(lay[i], list)[s]]
    BY Zenon DEF LayerRound
  <2> QED
    BY <2>2, <2>3
<1>5. NothingSelected \in Inv[0]
  <2>1. ~Shown(0) /\ First(0, NoTask)
    OBVIOUS
  <2> HIDE DEF Shown, First
  <2> QED
    BY <1>1, <1>2, <2>1 DEF NothingSelected
<1>6. ASSUME NEW i \in 1 .. n, NEW s \in Inv[i - 1]
      PROVE  round[i][s] \in Inv[i]
  <2>1. s \in Selections /\ (s.show <=> Shown(i - 1)) /\ First(i - 1, s.tid)
    BY <1>1
  <2> DEFINE t == round[i][s]
  <2>2. t \in Selections
    BY <1>3, <2>1
  <2>3. t.show <=> Shown(i)
    <3>1. CASE IsTid(lay[i])
      <4>1. Shown(i) <=> ~Blacklisted(lay[i], list)
        <5>1. ASSUME NEW k \in 1 .. i, \A m \in 1 .. i : IsTid(lay[m]) => m <= k
              PROVE  k = i
          BY <3>1, <5>1
        <5>2. i \in 1 .. i /\ \A m \in 1 .. i : m <= i
          OBVIOUS
        <5> QED
          BY <3>1, <5>1, <5>2
      <4> QED
        BY <1>3, <2>1, <3>1, <4>1
    <3>2. CASE ~IsTid(lay[i])
      <4>1. Shown(i) <=> Shown(i - 1)
        <5>1. \A k \in 1 .. i : k \in 1 .. i - 1 \/ k = i
          OBVIOUS
        <5>2. \A k \in 1 .. i - 1 : k \in 1 .. i
          OBVIOUS
        <5>3. \A k : (\A m \in 1 .. i : IsTid(lay[m]) => m <= k)
                       <=> (\A m \in 1 .. i - 1 : IsTid(lay[m]) => m <= k)
          BY <3>2, <5>1, <5>2, Zenon
        <5> QED
          BY <3>2, <5>1, <5>2, <5>3, Zenon
      <4> QED
        BY <1>3, <2>1, <3>2, <4>1
    <3> QED
      BY <3>1, <3>2
  <2>4. First(i, t.tid)
    <3>1. t.tid = IF s.tid = NoTask /\ Electable(i) THEN lay[i] ELSE s.tid
      BY <1>3, <2>1
    <3> HIDE DEF t
    <3>2. CASE s.tid = NoTask
      <4>1. \A k \in 1 .. i - 1 : ~Electable(k)
        BY <2>1, <3>2, NoTaskAssumption DEF IsTid
      <4>2. CASE Electable(i)
        BY <3>1, <3>2, <4>1, <4>2
      <4>3. CASE ~Electable(i)
        BY <3>1, <3>2, <4>1, <4>3
      <4> QED
        BY <4>2, <4>3
    <3>3. CASE s.tid # NoTask
      <4>1. PICK k \in 1 .. i - 1 : /\ Electable(k) /\ s.tid = lay[k]
                                    /\ \A m \in 1 .. i - 1 : Electable(m) => k <= m
        BY <2>1, <3>3
      <4>2. \A m \in 1 .. i : Electable(m) => k <= m
        <5> SUFFICES ASSUME NEW m \in 1 .. i, Electable(m) PROVE k <= m
          OBVIOUS
        <5> HIDE DEF Electable
        <5>1. CASE m = i
          BY <5>1
        <5>2. CASE m \in 1 .. i - 1
          BY <4>1, <5>2
        <5> QED
          BY <5>1, <5>2
      <4> QED
        BY <3>1, <3>3, <4>1, <4>2
    <3> QED
      BY <3>2, <3>3
  <2> QED
    BY <1>1, <2>2, <2>3, <2>4
<1>7. Inv \in [0 .. n -> SUBSET Selections]
  OBVIOUS
<1>8. r \in Inv[n]
  <2>1. r = Loop(NothingSelected, n, round)
    BY DEF SelectSingle
  <2> HIDE DEF Inv, round, n
  <2>2. \A i \in 1 .. n : \A s \in Inv[i - 1] : round[i][s] \in Inv[i]
    BY <1>6
  <2>3. Loop(NothingSelected, n, round) \in Inv[n]
    BY <1>1, <1>2, <1>4, <1>5, <1>7, <2>2, LoopInvariant
  <2> QED
    BY <2>1, <2>3
<1>9. r \in Selections /\ Good(n, r)
  BY <1>1, <1>8
<1>10. Shown(n) <=> ShowWindow(lay, list)
  BY DEF ShowWindow, Blacklisted
<1>11. SingleTask(lay, list) = {r.tid} \ {NoTask}
  <2>1. \A task : task \in SingleTask(lay, list)
                <=> \E k \in 1 .. n : /\ Electable(k) /\ task = lay[k]
                                      /\ \A m \in 1 .. n : Electable(m) => k <= m
    BY DEF SingleTask
  <2>2. \A k \in 1 .. n : Electable(k) => lay[k] # NoTask
    BY NoTaskAssumption DEF IsTid
  <2>3. CASE r.tid = NoTask
    <3>1. \A k \in 1 .. n : ~Electable(k)
      BY <1>9, <2>2, <2>3
    <3> QED
      BY <2>1, <2>3, <3>1
  <2>4. CASE r.tid # NoTask
    <3>1. PICK k \in 1 .. n : /\ Electable(k) /\ r.tid = lay[k]
                              /\ \A m \in 1 .. n : Electable(m) => k <= m
      BY <1>9, <2>4
    <3>2. \A j \in 1 .. n : Electable(j) /\ (\A m \in 1 .. n : Electable(m) => j <= m) => j = k
      BY <3>1
    <3> HIDE DEF Electable
    <3>3. \A task : task \in SingleTask(lay, list) <=> task = r.tid
      BY <2>1, <3>1, <3>2
    <3> QED
      BY <2>4, <3>3
  <2> QED
    BY <2>3, <2>4
<1> QED
  BY <1>9, <1>10, <1>11

\* The loop over the map closes the candidates before the first that still has a
\* layer.
LEMMA LeftoverLoopIs ==
  ASSUME NEW K, NEW keys \in Seq(K), NEW cands, NEW lay
  PROVE  LeftoverLoop(keys, cands, lay) = Leftover(keys, cands, lay)
<1> DEFINE n == Len(keys)
           State == [flag : BOOLEAN, closed : SUBSET cands]
           base == [flag |-> TRUE, closed |-> {}]
           round == [i \in 1 .. n |-> LeftoverRound(keys[i], cands, lay)]
           Clear(i) == \A m \in 1 .. i : keys[m] \in cands => keys[m] \notin OnScreen(lay)
           Closed(i, key) == \E m \in 1 .. i : /\ key = keys[m] /\ keys[m] \in cands
                                              /\ Clear(m)
           Good(i, s) == /\ s.flag <=> Clear(i)
                         /\ \A key : key \in s.closed <=> Closed(i, key)
           Inv == [i \in 0 .. n |-> {s \in State : Good(i, s)}]
<1>1. n \in Nat /\ base \in State
  OBVIOUS
<1>2. ASSUME NEW i \in 1 .. n, NEW s \in State
      PROVE  /\ round[i][s] \in State
             /\ keys[i] \notin cands => round[i][s] = s
             /\ keys[i] \in cands /\ s.flag /\ keys[i] \notin OnScreen(lay) =>
                  round[i][s].flag /\ round[i][s].closed = s.closed \cup {keys[i]}
             /\ keys[i] \in cands /\ ~(s.flag /\ keys[i] \notin OnScreen(lay)) =>
                  ~round[i][s].flag /\ round[i][s].closed = s.closed
  <2>1. round[i][s] = IF keys[i] \notin cands THEN s
                      ELSE IF s.flag /\ keys[i] \notin OnScreen(lay)
                           THEN [s EXCEPT !.closed = @ \cup {keys[i]}]
                           ELSE [s EXCEPT !.flag = FALSE]
    BY DEF LeftoverRound
  <2> HIDE DEF round
  <2>2. CASE keys[i] \notin cands
    BY <2>1, <2>2
  <2>3. CASE keys[i] \in cands /\ s.flag /\ keys[i] \notin OnScreen(lay)
    <3>1. round[i][s] = [s EXCEPT !.closed = @ \cup {keys[i]}]
      BY <2>1, <2>3
    <3> QED
      BY <2>3, <3>1
  <2>4. CASE keys[i] \in cands /\ ~(s.flag /\ keys[i] \notin OnScreen(lay))
    <3>1. round[i][s] = [s EXCEPT !.flag = FALSE]
      BY <2>1, <2>4, Zenon
    <3> QED
      BY <2>4, <3>1
  <2> QED
    BY <2>2, <2>3, <2>4
<1>3. round \in [1 .. n -> [State -> State]]
  <2> SUFFICES ASSUME NEW i \in 1 .. n
               PROVE  LeftoverRound(keys[i], cands, lay) \in [State -> State]
    BY Zenon
  <2>1. round[i] = LeftoverRound(keys[i], cands, lay)
    OBVIOUS
  <2>2. \A s \in State : LeftoverRound(keys[i], cands, lay)[s] \in State
    BY <1>2, <2>1, Zenon
  <2>3. LeftoverRound(keys[i], cands, lay)
          = [s \in State |-> LeftoverRound(keys[i], cands, lay)[s]]
    BY Zenon DEF LeftoverRound
  <2> HIDE DEF State
  <2> QED
    BY <2>2, <2>3
<1>4. base \in Inv[0]
  <2>1. Clear(0) /\ \A key : ~Closed(0, key)
    OBVIOUS
  <2> HIDE DEF Clear, Closed
  <2> QED
    BY <1>1, <2>1
<1>5. ASSUME NEW i \in 1 .. n, NEW s \in Inv[i - 1]
      PROVE  round[i][s] \in Inv[i]
  <2>1. s \in State /\ Good(i - 1, s)
    BY <1>1
  <2> DEFINE t == round[i][s]
  <2>2. /\ t \in State
        /\ keys[i] \notin cands => t = s
        /\ keys[i] \in cands /\ s.flag /\ keys[i] \notin OnScreen(lay) =>
             t.flag /\ t.closed = s.closed \cup {keys[i]}
        /\ keys[i] \in cands /\ ~(s.flag /\ keys[i] \notin OnScreen(lay)) =>
             ~t.flag /\ t.closed = s.closed
    BY SMTT(30), <1>2, <2>1
  <2> HIDE DEF t
  <2>3. \A m : m \in 1 .. i <=> m \in 1 .. i - 1 \/ m = i
    OBVIOUS
  <2>4. Clear(i) <=> Clear(i - 1) /\ (keys[i] \in cands => keys[i] \notin OnScreen(lay))
    BY <2>3, Zenon
  <2>5. \A key : Closed(i, key)
                <=> Closed(i - 1, key) \/ (key = keys[i] /\ keys[i] \in cands /\ Clear(i))
    BY <2>3, Zenon
  <2> HIDE DEF Clear, Closed
  <2>6. Good(i, t)
    BY <2>1, <2>2, <2>4, <2>5
  <2> HIDE DEF Good, State
  <2> QED
    BY <1>1, <2>2, <2>6 DEF t
<1>6. Inv \in [0 .. n -> SUBSET State]
  OBVIOUS
<1> DEFINE r == Loop(base, n, round)
<1>7. r \in Inv[n]
  <2> HIDE DEF Inv, round, base, n, State
  <2>1. \A i \in 1 .. n : \A s \in Inv[i - 1] : round[i][s] \in Inv[i]
    BY <1>5
  <2> QED
    BY <1>1, <1>3, <1>4, <1>6, <2>1, LoopInvariant
<1> HIDE DEF r
<1>8. \A key : key \in r.closed <=> Closed(n, key)
  BY <1>1, <1>7
<1>9. \A key : key \in Leftover(keys, cands, lay) <=> Closed(n, key)
  BY DEF Leftover
<1>10. LeftoverLoop(keys, cands, lay) = r.closed
  BY DEF LeftoverLoop, r
<1> HIDE DEF Closed
<1> QED
  BY <1>8, <1>9, <1>10

\* Multi window mode shows a task unless its package is in the list.
LEMMA ShownInMultiIs ==
  ASSUME NEW task, NEW P, NEW list \in Seq(P), list # <<>>
  PROVE  ShownInMulti(task, list) <=> ~Blacklisted(task, list)
<1> DEFINE n == Len(list)
           State == [show : BOOLEAN, break : BOOLEAN]
           base == [show |-> FALSE, break |-> FALSE]
           round == [i \in 1 .. n |-> MultiRound(list[i], task)]
           Met(i) == \E k \in 1 .. i : list[k] = AppOf[task]
           Good(i, s) == (s.break <=> Met(i)) /\ (i # 0 => (s.show <=> ~Met(i)))
           Inv == [i \in 0 .. n |-> {s \in State : Good(i, s)}]
<1>1. n \in Nat /\ n > 0 /\ base \in State
  OBVIOUS
<1>2. ASSUME NEW i \in 1 .. n, NEW s \in State
      PROVE  /\ round[i][s] \in State
             /\ s.break => round[i][s] = s
             /\ ~s.break => /\ round[i][s].show <=> list[i] # AppOf[task]
                            /\ round[i][s].break <=> list[i] = AppOf[task]
  <2>1. round[i][s] = IF s.break THEN s
                      ELSE [show |-> list[i] # AppOf[task], break |-> list[i] = AppOf[task]]
    BY DEF MultiRound
  <2> HIDE DEF round
  <2>2. CASE s.break
    BY <2>1, <2>2
  <2>3. CASE ~s.break /\ list[i] = AppOf[task]
    <3>1. round[i][s] = [show |-> FALSE, break |-> TRUE]
      BY <2>1, <2>3
    <3> QED
      BY <2>3, <3>1
  <2>4. CASE ~s.break /\ list[i] # AppOf[task]
    <3>1. round[i][s] = [show |-> TRUE, break |-> FALSE]
      BY <2>1, <2>4
    <3> QED
      BY <2>4, <3>1
  <2> QED
    BY <2>2, <2>3, <2>4
<1>3. round \in [1 .. n -> [State -> State]]
  <2> SUFFICES ASSUME NEW i \in 1 .. n
               PROVE  MultiRound(list[i], task) \in [State -> State]
    BY Zenon
  <2>1. round[i] = MultiRound(list[i], task)
    OBVIOUS
  <2>2. \A s \in State : MultiRound(list[i], task)[s] \in State
    BY <1>2, <2>1, Zenon
  <2>3. MultiRound(list[i], task) = [s \in State |-> MultiRound(list[i], task)[s]]
    BY Zenon DEF MultiRound
  <2> HIDE DEF State
  <2> QED
    BY <2>2, <2>3
<1>4. base \in Inv[0]
  BY <1>1
<1>5. ASSUME NEW i \in 1 .. n, NEW s \in Inv[i - 1]
      PROVE  round[i][s] \in Inv[i]
  <2>1. s \in State /\ Good(i - 1, s)
    BY <1>1
  <2>2. Met(i) <=> Met(i - 1) \/ list[i] = AppOf[task]
    OBVIOUS
  <2>3. Met(i - 1) => i - 1 # 0
    OBVIOUS
  <2> DEFINE t == round[i][s]
  <2>4. /\ t \in State
        /\ s.break => t = s
        /\ ~s.break => /\ t.show <=> list[i] # AppOf[task]
                       /\ t.break <=> list[i] = AppOf[task]
    BY <1>2, <2>1
  <2> HIDE DEF t, Met
  <2>5. Good(i, t)
    BY <2>1, <2>2, <2>3, <2>4
  <2> QED
    BY <1>1, <2>4, <2>5 DEF t
<1>6. Inv \in [0 .. n -> SUBSET State]
  OBVIOUS
<1> DEFINE r == Loop(base, n, round)
<1>7. r \in Inv[n]
  <2> HIDE DEF Inv, round, base, n, State
  <2>1. \A i \in 1 .. n : \A s \in Inv[i - 1] : round[i][s] \in Inv[i]
    BY <1>5
  <2> QED
    BY <1>1, <1>3, <1>4, <1>6, <2>1, LoopInvariant
<1> HIDE DEF r
<1>8. r.show <=> ~Met(n)
  BY <1>1, <1>7
<1>9. Met(n) <=> Blacklisted(task, list)
  BY DEF Blacklisted, ToSet
<1>10. ShownInMulti(task, list) = r.show
  BY DEF ShownInMulti, r
<1> QED
  BY <1>8, <1>9, <1>10

-------------------------------------------------------------------------------
(* The theorems.                                                           *)

\* The frames and lists are sequences, and a list is never empty.
THEOREM TypeCorrect == Spec => []TypeOK
<1>1. Init => TypeOK
  <2> SUFFICES ASSUME Init PROVE TypeOK
    OBVIOUS
  <2>1. PICK a \in Packages : blacklist = <<a>>
    BY DEF Init
  <2> QED
    BY <2>1 DEF Init, TypeOK
<1>2. TypeOK /\ [Next]_vars => TypeOK'
  <2> SUFFICES ASSUME TypeOK, [Next]_vars PROVE TypeOK'
    OBVIOUS
  <2> USE DEF TypeOK
  <2>1. CASE AddLayer
    BY <2>1 DEF AddLayer
  <2>2. CASE AddToBlacklist
    <3>1. PICK a \in Packages : blacklist' = Append(blacklist, a)
      BY <2>2 DEF AddToBlacklist
    <3> QED
      BY <2>2, <3>1 DEF AddToBlacklist
  <2>3. CASE NextFrame
    BY <2>3 DEF NextFrame
  <2>4. CASE UNCHANGED vars
    BY <2>4 DEF vars
  <2> QED
    BY <2>1, <2>2, <2>3, <2>4 DEF Next
<1> QED
  BY <1>1, <1>2, PTL DEF Spec

\* The case forms of the decisions compute what the loops of hwc_set compute.
THEOREM LoopsDecide == Spec => []LoopsAgree
<1>1. TypeOK => LoopsAgree
  <2> SUFFICES ASSUME TypeOK PROVE LoopsAgree
    OBVIOUS
  <2> DEFINE sel == SelectSingle(layers, blacklist)
  <2>1. /\ sel \in Selections
        /\ sel.show <=> ShowWindow(layers, blacklist)
        /\ SingleTask(layers, blacklist) = {sel.tid} \ {NoTask}
    BY SelectSingleIs DEF TypeOK
  <2>2. LeftoverLoop(Keys, candidates, layers) = Leftover(Keys, candidates, layers)
    BY KeysAssumption, LeftoverLoopIs
  <2>3. sel.show \in BOOLEAN /\ ShowWindow(layers, blacklist) \in BOOLEAN
    BY <2>1 DEF Selections, ShowWindow
  <2> HIDE DEF sel
  <2> QED
    BY <2>1, <2>2, <2>3 DEF LoopsAgree, sel
<1> QED
  BY <1>1, TypeCorrect, PTL

\* A list of one entry is honoured in single window mode, any list in multi
\* window mode.
THEOREM Honoured == Spec => []BlacklistHonoured
<1>1. TypeOK => BlacklistHonoured
  <2> SUFFICES ASSUME TypeOK PROVE BlacklistHonoured
    OBVIOUS
  <2>1. ASSUME Len(blacklist) = 1, ShowWindow(layers, blacklist)
        PROVE  /\ SingleTask(layers, blacklist) # {}
               /\ \A task \in SingleTask(layers, blacklist) :
                    task \in OnScreen(layers) /\ ~Blacklisted(task, blacklist)
    <3> DEFINE electable == {i \in DOMAIN layers :
                               IsTid(layers[i]) /\ AppOf[layers[i]] # Head(blacklist)}
    <3>1. \A p : p \in ToSet(blacklist) <=> p = Head(blacklist)
      <4>1. DOMAIN blacklist = {1} /\ Head(blacklist) = blacklist[1]
        BY <2>1 DEF TypeOK
      <4> QED
        BY <4>1 DEF ToSet
    <3>2. electable # {}
      BY <2>1, <3>1 DEF ShowWindow
    <3>3. electable \in SUBSET Nat
      BY DEF TypeOK
    <3>4. PICK first \in electable : \A k \in electable : first <= k
      <4> HIDE DEF electable
      <4> QED
        BY <3>2, <3>3, LeastNumber
    <3>5. layers[first] \in SingleTask(layers, blacklist)
      BY <3>4 DEF SingleTask
    <3>6. ASSUME NEW task \in SingleTask(layers, blacklist)
          PROVE  task \in OnScreen(layers) /\ ~Blacklisted(task, blacklist)
      <4>1. PICK i \in electable : task = layers[i]
        BY DEF SingleTask
      <4> QED
        BY <3>1, <4>1 DEF OnScreen, ToSet, Blacklisted, IsTid
    <3> QED
      BY <3>5, <3>6
  <2>2. \A task \in Tasks : ShownInMulti(task, blacklist) <=> ~Blacklisted(task, blacklist)
    BY ShownInMultiIs DEF TypeOK
  <2> QED
    BY <2>1, <2>2 DEF BlacklistHonoured
<1> QED
  BY <1>1, TypeCorrect, PTL
===============================================================================
