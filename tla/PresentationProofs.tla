-------------------------- MODULE PresentationProofs --------------------------
(***************************************************************************)
(* The masters of the datasources of a presentation form no circle, and    *)
(* masters and details know each other, for every number of datasources    *)
(* and every client, although the walk that searches for a circle changes  *)
(* masters while it searches, and although it need not come to an end.     *)
(***************************************************************************)
EXTENDS Presentation, TLAPS, SequenceTheorems

-----------------------------------------------------------------------------
(* The invariant.                                                          *)

\* Whatever the walk f has passed has a master it has passed too, or the
\* datasource it is at; the datasource the walk is for is not among them.
Passed(f) ==
  /\ Exists(f.this) /\ Exists(f.target) /\ f.this # f.target
  /\ f.this \notin f.seen
  /\ f.target \in f.seen \cup {f.tmp}
  /\ \A s \in f.seen : master[s] \in f.seen \cup {f.tmp}

\* Below the top each walk waits at a datasource, and no walk above it is for a
\* datasource it has passed: these keep their masters while it waits.
Waiting(i) ==
  /\ stack[i].tmp \in DS /\ stack[i].tmp # stack[i].this
  /\ \A j \in (i + 1)..Len(stack) : stack[j].this \notin stack[i].seen

Walks ==
  /\ \A i \in 1..Len(stack) : Passed(stack[i])
  /\ \A i \in 1..(Len(stack) - 1) : Waiting(i)

Inv == TypeOK /\ Acyclic /\ PointersAgree /\ Walks

-----------------------------------------------------------------------------
(* The stack.                                                              *)

\* A function on 1..n is a sequence of length n.
LEMMA FunctionLength ==
  ASSUME NEW S, NEW n \in Nat, NEW f \in [1..n -> S]
  PROVE  f \in Seq(S) /\ Len(f) = n
<1>1. f \in Seq(S)
  BY SeqDef
<1>2. Len(f) \in Nat /\ 1..Len(f) = 1..n
  BY <1>1, LenProperties
<1>3. CASE Len(f) < n
  <2>1. n \in 1..n /\ n \notin 1..Len(f)
    BY <1>2, <1>3
  <2>2. QED
    BY <1>2, <2>1
<1>4. CASE n < Len(f)
  <2>1. Len(f) \in 1..Len(f) /\ Len(f) \notin 1..n
    BY <1>2, <1>4
  <2>2. QED
    BY <1>2, <2>1
<1>5. QED
  BY <1>1, <1>2, <1>3, <1>4

LEMMA TopProperties ==
  ASSUME TypeOK, stack # <<>>
  PROVE  Len(stack) \in Nat \ {0} /\ Top \in Frame /\ Top = stack[Len(stack)]
BY DEF TypeOK, Top

\* A walk that goes on keeps its type.
LEMMA ClimbedType ==
  ASSUME NEW f \in Frame, f.tmp \in DS, NEW m \in [DS -> DS \cup {NoDS}]
  PROVE  /\ Climbed(f, m) \in Frame
         /\ Climbed(f, m).this = f.this /\ Climbed(f, m).target = f.target
         /\ Climbed(f, m).seen = f.seen \cup {f.tmp} /\ Climbed(f, m).tmp = m[f.tmp]
         /\ Climbed(f, m).old = f.old /\ Climbed(f, m).lazy = f.lazy
<1>1. m[f.tmp] \in DS \cup {NoDS} /\ f.seen \cup {f.tmp} \in SUBSET DS
  BY DEF Frame
<1>2. QED
  BY <1>1 DEF Climbed, Frame

\* What is left of the stack when the topmost walk returns.
LEMMA ReturnedProperties ==
  ASSUME TypeOK, Walks, stack # <<>>, NEW m \in [DS -> DS \cup {NoDS}],
         NEW n, n = Len(stack) - 1
  PROVE  /\ n \in Nat
         /\ Returned(m) \in Seq(Frame) /\ Len(Returned(m)) = n
         /\ \A i \in 1..n : i # n => Returned(m)[i] = stack[i]
         /\ n > 0 => /\ n \in 1..n /\ Waiting(n)
                     /\ Returned(m)[n] = Climbed(stack[n], m)
<1>1. n \in Nat /\ \A i \in 1..n : i \in 1..Len(stack) /\ stack[i] \in Frame
  BY DEF TypeOK
<1>2. \A i \in 1..n : Waiting(i)
  BY DEF Walks
<1>3. \A i \in 1..n : Climbed(stack[i], m) \in Frame
  BY <1>1, <1>2, ClimbedType DEF Waiting
<1>4. Returned(m) = [i \in 1..n |-> IF i = n THEN Climbed(stack[i], m) ELSE stack[i]]
  BY DEF Returned
<1>5. Returned(m) \in [1..n -> Frame]
  BY <1>1, <1>3, <1>4
<1>6. Returned(m) \in Seq(Frame) /\ Len(Returned(m)) = n
  BY <1>1, <1>5, FunctionLength
<1>7. QED
  BY <1>1, <1>2, <1>4, <1>6

-----------------------------------------------------------------------------
(* The steps of a walk.                                                    *)

\* The topmost walk returns, having changed no master but that of the datasource
\* it was for.
LEMMA PoppedWalks ==
  ASSUME Inv, stack # <<>>, NEW m \in [DS -> DS \cup {NoDS}],
         \A x \in DS : x # Top.this => m[x] = master[x],
         stack' = Returned(m), master' = m, place' = place
  PROVE  stack' \in Seq(Frame) /\ Walks'
<1> DEFINE n == Len(stack) - 1
<1>1. /\ n \in Nat /\ stack' \in Seq(Frame) /\ Len(stack') = n
      /\ \A i \in 1..n : i # n => stack'[i] = stack[i]
      /\ n > 0 => n \in 1..n /\ stack'[n] = Climbed(stack[n], m)
  BY ReturnedProperties DEF Inv
<1>2. \A i \in 1..n : /\ stack[i] \in Frame /\ Passed(stack[i]) /\ Waiting(i)
                      /\ Top.this \notin stack[i].seen
  <2> SUFFICES ASSUME NEW i \in 1..n
               PROVE  /\ stack[i] \in Frame /\ Passed(stack[i]) /\ Waiting(i)
                      /\ Top.this \notin stack[i].seen
    OBVIOUS
  <2>1. i \in 1..Len(stack) /\ Len(stack) \in (i + 1)..Len(stack)
    BY <1>1
  <2>2. stack[i] \in Frame /\ Passed(stack[i]) /\ Waiting(i)
    BY <2>1 DEF Inv, TypeOK, Walks
  <2>3. QED
    BY <2>1, <2>2 DEF Waiting, Top
<1>3. \A i \in 1..n : /\ stack'[i].this = stack[i].this
                      /\ stack'[i].target = stack[i].target
                      /\ i # n => stack'[i] = stack[i]
                      /\ i = n => /\ stack'[i].seen = stack[i].seen \cup {stack[i].tmp}
                                  /\ stack'[i].tmp = m[stack[i].tmp]
  BY <1>1, <1>2, ClimbedType DEF Waiting
<1>4. \A i \in 1..n : Passed(stack[i])'
  <2> SUFFICES ASSUME NEW i \in 1..n PROVE Passed(stack[i])'
    OBVIOUS
  <2>1. stack[i] \in Frame /\ Passed(stack[i]) /\ Waiting(i) /\ Top.this \notin stack[i].seen
    BY <1>2
  <2>2. \A x \in stack[i].seen : m[x] = master[x]
    BY <2>1 DEF Frame
  <2>3. CASE i # n
    BY <1>3, <2>1, <2>2, <2>3 DEF Passed, Exists
  <2>4. CASE i = n
    BY <1>3, <2>1, <2>2, <2>4 DEF Passed, Exists, Waiting
  <2>5. QED
    BY <2>3, <2>4
<1>5. \A i \in 1..(n - 1) : Waiting(i)'
  <2> SUFFICES ASSUME NEW i \in 1..(n - 1) PROVE Waiting(i)'
    OBVIOUS
  <2>1. i \in 1..n /\ i # n /\ \A j \in (i + 1)..n : j \in 1..n /\ j \in (i + 1)..Len(stack)
    BY <1>1
  <2>2. Waiting(i) /\ stack'[i] = stack[i]
    BY <1>2, <1>3, <2>1
  <2>3. QED
    BY <1>1, <1>3, <2>1, <2>2 DEF Waiting
<1>6. QED
  BY <1>1, <1>4, <1>5 DEF Walks

\* A walk of its own for d, which has no master yet or meets no other walk.
LEMMA PushedWalks ==
  ASSUME Inv, NEW d \in DS, NEW t \in DS, d # t, Exists(d), Exists(t),
         NEW old \in Nat \cup {NoNumber}, NEW lazy \in BOOLEAN,
         stack # <<>> => master[d] = NoDS /\ Top.tmp = d /\ Top.this # d,
         stack' = Append(stack, Depend(d, t, old, lazy)),
         master' = master, place' = place
  PROVE  stack' \in Seq(Frame) /\ Walks'
<1> DEFINE n == Len(stack)
           g == Depend(d, t, old, lazy)
<1>1. g \in Frame /\ g.this = d /\ g.target = t /\ g.seen = {} /\ g.tmp = t
  BY DEF Depend, Frame
<1>2. stack \in Seq(Frame) /\ n \in Nat
  BY DEF Inv, TypeOK
<1>3. /\ stack' \in Seq(Frame) /\ Len(stack') = n + 1 /\ stack'[n + 1] = g
      /\ \A i \in 1..n : stack'[i] = stack[i]
  BY <1>1, <1>2
<1>4. \A i \in 1..n : /\ stack[i] \in Frame /\ Passed(stack[i]) /\ stack[i].tmp \in DS
                      /\ stack[i].tmp # stack[i].this /\ d \notin stack[i].seen
  <2> SUFFICES ASSUME NEW i \in 1..n
               PROVE  /\ stack[i] \in Frame /\ Passed(stack[i]) /\ stack[i].tmp \in DS
                      /\ stack[i].tmp # stack[i].this /\ d \notin stack[i].seen
    OBVIOUS
  <2>1. stack # <<>> /\ i \in 1..Len(stack) /\ stack[i] \in Frame /\ Passed(stack[i])
    BY <1>2 DEF Inv, Walks
  <2>2. stack[i].tmp \in DS /\ stack[i].tmp # stack[i].this
    <3>1. CASE i = n
      BY <2>1, <3>1 DEF Top
    <3>2. CASE i # n
      BY <1>2, <3>2 DEF Inv, Walks, Waiting
    <3>3. QED
      BY <3>1, <3>2
  <2>3. d \notin stack[i].seen
    BY <2>1, <2>2, PresentationAssumption DEF Passed, Frame
  <2>4. QED
    BY <2>1, <2>2, <2>3
<1>5. \A i \in 1..(n + 1) : Passed(stack[i])'
  <2> SUFFICES ASSUME NEW i \in 1..(n + 1) PROVE Passed(stack[i])'
    OBVIOUS
  <2>1. CASE i = n + 1
    BY <1>1, <1>3, <2>1 DEF Passed, Exists
  <2>2. CASE i # n + 1
    <3>1. i \in 1..n
      BY <1>2, <2>2
    <3>2. QED
      BY <1>3, <1>4, <3>1 DEF Passed, Exists
  <2>3. QED
    BY <2>1, <2>2
<1>6. \A i \in 1..n : Waiting(i)'
  <2> SUFFICES ASSUME NEW i \in 1..n PROVE Waiting(i)'
    OBVIOUS
  <2>1. stack'[i] = stack[i] /\ stack[i].tmp \in DS /\ stack[i].tmp # stack[i].this
        /\ d \notin stack[i].seen
    BY <1>3, <1>4
  <2> SUFFICES ASSUME NEW j \in (i + 1)..(n + 1)
               PROVE  stack'[j].this \notin stack[i].seen
    BY <1>3, <2>1 DEF Waiting
  <2>2. CASE j = n + 1
    BY <1>1, <1>3, <2>1, <2>2
  <2>3. CASE j # n + 1
    <3>1. j \in 1..n /\ j \in (i + 1)..n /\ i \in 1..(n - 1)
      BY <1>2, <2>3
    <3>2. QED
      BY <1>3, <3>1 DEF Inv, Walks, Waiting
  <2>4. QED
    BY <2>2, <2>3
<1>7. QED
  BY <1>2, <1>3, <1>5, <1>6 DEF Walks

-----------------------------------------------------------------------------
(* The steps of a walk preserve the invariant.                             *)

LEMMA RefuseStep == ASSUME Inv, Refuse PROVE Inv'
<1>1. stack # <<>> /\ Top \in Frame /\ master \in [DS -> DS \cup {NoDS}]
  BY TopProperties DEF Inv, Refuse, AtDatasource, TypeOK
<1>2. master' = master /\ informed' = informed /\ place' = place /\ stack' = Returned(master)
  BY DEF Refuse, tree
<1>3. stack' \in Seq(Frame) /\ Walks'
  BY <1>1, <1>2, PoppedWalks
<1>4. TypeOK'
  BY <1>1, <1>2, <1>3 DEF Inv, TypeOK, Refuse, Restored, Frame
<1>5. QED
  BY <1>2, <1>3, <1>4 DEF Inv, Acyclic, PointersAgree, Exists

LEMMA ClimbStep == ASSUME Inv, Climb PROVE Inv'
<1> DEFINE n == Len(stack)
           g == Climbed(Top, master)
<1>1. /\ n \in Nat \ {0} /\ stack \in Seq(Frame) /\ Top \in Frame /\ Top = stack[n]
      /\ Top.tmp \in DS /\ Top.tmp # Top.this /\ Passed(Top)
  <2>1. n \in Nat \ {0} /\ Top \in Frame /\ Top = stack[n]
    BY TopProperties DEF Inv, Climb, AtDatasource
  <2>2. Top.tmp \in DS /\ Top.tmp # Top.this
    BY <2>1 DEF Climb, AtDatasource, Circular, Frame
  <2>3. n \in 1..n
    BY <2>1
  <2>4. Passed(Top)
    BY <2>1, <2>3 DEF Inv, Walks
  <2>5. QED
    BY <2>1, <2>2, <2>4 DEF Inv, TypeOK
<1>2. /\ g \in Frame /\ g.this = Top.this /\ g.target = Top.target
      /\ g.seen = Top.seen \cup {Top.tmp} /\ g.tmp = master[Top.tmp]
  BY <1>1, ClimbedType DEF Inv, TypeOK
<1> HIDE DEF g
<1>3. master' = master /\ informed' = informed /\ place' = place
      /\ stack' = [stack EXCEPT ![n] = g]
  BY DEF Climb, tree, g
<1>4. /\ stack' \in Seq(Frame) /\ Len(stack') = n /\ stack'[n] = g
      /\ \A i \in 1..(n - 1) : stack'[i] = stack[i]
  BY <1>1, <1>2, <1>3
<1>5. \A i \in 1..n : Passed(stack[i])'
  <2> SUFFICES ASSUME NEW i \in 1..n PROVE Passed(stack[i])'
    OBVIOUS
  <2>1. CASE i = n
    <3>1. stack'[i] = g /\ Passed(Top)
      BY <1>1, <1>4, <2>1
    <3>2. QED
      BY <1>1, <1>2, <1>3, <3>1 DEF Passed, Exists
  <2>2. CASE i # n
    <3>1. i \in 1..(n - 1) /\ Passed(stack[i])
      BY <1>1, <2>2 DEF Inv, Walks
    <3>2. QED
      BY <1>3, <1>4, <3>1 DEF Passed, Exists
  <2>3. QED
    BY <2>1, <2>2
<1>6. \A i \in 1..(n - 1) : Waiting(i)'
  <2> SUFFICES ASSUME NEW i \in 1..(n - 1) PROVE Waiting(i)'
    OBVIOUS
  <2>1. Waiting(i) /\ stack'[i] = stack[i]
    BY <1>4 DEF Inv, Walks
  <2>2. \A j \in (i + 1)..n : stack'[j].this = stack[j].this
    BY <1>1, <1>2, <1>4, SMTT(20)
  <2>3. QED
    BY <1>4, <2>1, <2>2 DEF Waiting
<1>7. TypeOK'
  BY <1>3, <1>4 DEF Inv, TypeOK, Climb
<1>8. QED
  BY <1>3, <1>4, <1>5, <1>6, <1>7, ZenonT(40) DEF Inv, Walks, Acyclic, PointersAgree, Exists

LEMMA LookUpStep == ASSUME Inv, LookUp PROVE Inv'
<1>1. /\ stack # <<>> /\ Top \in Frame /\ Top.tmp \in DS /\ Top.tmp # Top.this
  BY TopProperties DEF Inv, LookUp, AtDatasource, Circular, Frame
<1>2. PICK t \in ByNumber(wants[Top.tmp]) :
        stack' = Append(stack, Depend(Top.tmp, t, wants[Top.tmp], TRUE))
  BY DEF LookUp
<1>3. /\ t \in DS /\ t # Top.tmp /\ Exists(t) /\ Exists(Top.tmp)
      /\ master[Top.tmp] = NoDS /\ wants[Top.tmp] \in Nat \cup {NoNumber}
  BY <1>1, <1>2 DEF LookUp, Unresolved, ByNumber, Exists, Inv, TypeOK
<1>4. master' = master /\ informed' = informed /\ place' = place
  BY DEF LookUp, tree
<1>5. stack' \in Seq(Frame) /\ Walks'
  BY <1>1, <1>2, <1>3, <1>4, PushedWalks
<1>6. TypeOK'
  BY <1>4, <1>5 DEF Inv, TypeOK, LookUp
<1>7. QED
  BY <1>4, <1>5, <1>6 DEF Inv, Acyclic, PointersAgree, Exists

\* Taking d out of the list of its master leaves it in no list.
LEMMA UnlinkedProperties ==
  ASSUME TypeOK, PointersAgree, NEW d \in DS
  PROVE  /\ Unlinked(d) \in [DS -> [DS -> Nat]]
         /\ \A x, e \in DS : Unlinked(d)[x][e] = IF e = d THEN 0 ELSE informed[x][e]
BY DEF TypeOK, PointersAgree, Unlinked

\* The set of the datasources a walk has passed is closed: none of them depends
\* on the datasource that now gets a master.
LEMMA AttachAcyclic ==
  ASSUME TypeOK, Acyclic, NEW f \in Frame, Passed(f), f.tmp = NoDS,
         master' = [master EXCEPT ![f.this] = f.target]
  PROVE  Acyclic'
<1> SUFFICES ASSUME NEW S \in SUBSET DS, S # {}
             PROVE  \E x \in S : master'[x] \notin S
  BY DEF Acyclic
<1>1. /\ f.this \in DS /\ f.target \in f.seen /\ f.seen \in SUBSET DS /\ NoDS \notin S
      /\ f.this \notin f.seen /\ \A x \in f.seen : master[x] \in f.seen \cup {NoDS}
  BY PresentationAssumption DEF Passed, Frame
<1>2. \A x \in DS : master'[x] = IF x = f.this THEN f.target ELSE master[x]
  BY <1>1 DEF TypeOK
<1>3. CASE f.this \notin S
  BY <1>2, <1>3 DEF Acyclic
<1>4. CASE f.this \in S /\ f.target \notin S
  BY <1>1, <1>2, <1>4
<1>5. CASE f.this \in S /\ f.target \in S
  <2>1. S \cap f.seen \in SUBSET DS /\ S \cap f.seen # {}
    BY <1>1, <1>5
  <2>2. PICK x \in S \cap f.seen : master[x] \notin S \cap f.seen
    BY <2>1 DEF Acyclic
  <2>3. x # f.this /\ master[x] \notin S
    BY <1>1, <2>2
  <2>4. QED
    BY <1>2, <2>2, <2>3
<1>6. QED
  BY <1>3, <1>4, <1>5

LEMMA AttachStep == ASSUME Inv, Attach PROVE Inv'
<1> DEFINE n == Len(stack)
           d == Top.this
           t == Top.target
<1>1. stack # <<>> /\ Top \in Frame /\ Top.tmp = NoDS /\ Passed(Top)
  <2>1. stack # <<>> /\ Top.tmp = NoDS
    BY DEF Attach
  <2>2. n \in 1..n /\ Top \in Frame /\ Top = stack[n]
    BY <2>1, TopProperties DEF Inv
  <2>3. Passed(Top)
    BY <2>2 DEF Inv, Walks
  <2>4. QED
    BY <2>1, <2>2, <2>3
<1>2. d \in DS /\ t \in DS /\ d # t /\ Exists(d) /\ Exists(t)
  BY <1>1 DEF Passed, Frame
<1>3. /\ master' = [master EXCEPT ![d] = t]
      /\ informed' = [Unlinked(d) EXCEPT ![t][d] = @ + 1]
      /\ stack' = Returned(master') /\ place' = place
  BY DEF Attach
<1> HIDE DEF d, t
<1>4. master' \in [DS -> DS \cup {NoDS}] /\ \A x \in DS : x # d => master'[x] = master[x]
  BY <1>2, <1>3 DEF Inv, TypeOK
<1>5. stack' \in Seq(Frame) /\ Walks'
  <2>1. PICK m : m = master'
    OBVIOUS
  <2>2. m \in [DS -> DS \cup {NoDS}] /\ \A x \in DS : x # Top.this => m[x] = master[x]
    BY <1>4, <2>1 DEF d
  <2>3. stack' = Returned(m) /\ master' = m
    BY <1>3, <2>1
  <2>4. QED
    BY <1>1, <1>3, <2>2, <2>3, PoppedWalks
<1>6. Acyclic'
  BY <1>1, <1>3, AttachAcyclic DEF Inv, d, t
<1>7. /\ Unlinked(d) \in [DS -> [DS -> Nat]]
      /\ \A x, e \in DS : Unlinked(d)[x][e] = IF e = d THEN 0 ELSE informed[x][e]
  BY <1>2, UnlinkedProperties DEF Inv
<1>8. /\ informed' \in [DS -> [DS -> Nat]]
      /\ \A x, e \in DS : informed'[x][e] = IF e = d THEN (IF x = t THEN 1 ELSE 0) ELSE informed[x][e]
  BY <1>2, <1>3, <1>7
<1>9. PointersAgree'
  <2> SUFFICES ASSUME NEW x \in DS, NEW e \in DS
               PROVE  /\ informed'[x][e] = (IF master'[e] = x THEN 1 ELSE 0)
                      /\ master'[e] = x => Exists(x)' /\ Exists(e)'
    BY DEF PointersAgree
  <2>1. CASE e = d
    BY <1>2, <1>3, <1>8, <2>1 DEF Inv, TypeOK, Exists
  <2>2. CASE e # d
    BY <1>3, <1>4, <1>8, <2>2 DEF Inv, PointersAgree, Exists
  <2>3. QED
    BY <2>1, <2>2
<1>10. asked' \in [DS -> DS \cup {NoDS}]
  BY <1>2 DEF Attach, Inv, TypeOK, d, t
<1>11. TypeOK'
  BY <1>4, <1>5, <1>8, <1>10 DEF Inv, TypeOK, Attach
<1>12. QED
  BY <1>5, <1>6, <1>9, <1>11 DEF Inv

-----------------------------------------------------------------------------
(* The calls of the client preserve the invariant.                         *)

LEMMA NoWalks == ASSUME stack' = <<>> PROVE stack' \in Seq(Frame) /\ Walks'
BY DEF Walks

\* Where masters are only cleared, no circle is closed.
LEMMA FewerMasters ==
  ASSUME Acyclic, \A x \in DS : master'[x] \in {master[x], NoDS}
  PROVE  Acyclic'
BY PresentationAssumption DEF Acyclic

LEMMA NewStep == ASSUME Inv, NEW d \in DS, New(d) PROVE Inv'
<1>1. /\ master' = master /\ informed' = informed /\ stack' = <<>>
      /\ \A x \in DS : Exists(x) => Exists(x)'
  BY DEF New, Call, tree, Exists, Inv, TypeOK
<1>2. TypeOK'
  BY <1>1, NoWalks DEF Inv, TypeOK, New, NextNumber, tree
<1>3. PointersAgree'
  BY <1>1 DEF Inv, PointersAgree
<1>4. QED
  BY <1>1, <1>2, <1>3, NoWalks DEF Inv, Acyclic

LEMMA SetMasterStep == ASSUME Inv, NEW d \in DS, SetMaster(d) PROVE Inv'
<1>1. PICK t \in DS : /\ place[t] = "listed" /\ number[t] # number[d]
                      /\ \E x \in ByNumber(number[t]) :
                            stack' = <<Depend(d, x, wants[d], FALSE)>>
                      /\ wants' = [wants EXCEPT ![d] = number[t]]
  BY DEF SetMaster
<1>2. PICK x \in ByNumber(number[t]) : stack' = <<Depend(d, x, wants[d], FALSE)>>
  BY <1>1
<1>3. /\ stack = <<>> /\ x \in DS /\ x # d /\ Exists(x) /\ Exists(d)
      /\ wants[d] \in Nat \cup {NoNumber}
  BY <1>1 DEF SetMaster, Call, ByNumber, Exists, Inv, TypeOK
<1>4. stack' = Append(stack, Depend(d, x, wants[d], FALSE))
  BY <1>2, <1>3
<1>5. master' = master /\ informed' = informed /\ place' = place
  BY DEF SetMaster, tree
<1>6. stack' \in Seq(Frame) /\ Walks'
  BY <1>3, <1>4, <1>5, PushedWalks
<1>7. wants' \in [DS -> Nat \cup {NoNumber}]
  BY <1>1 DEF Inv, TypeOK
<1>8. TypeOK'
  BY <1>5, <1>6, <1>7 DEF Inv, TypeOK, SetMaster
<1>9. QED
  BY <1>5, <1>6, <1>8 DEF Inv, Acyclic, PointersAgree, Exists

LEMMA ResolveStep == ASSUME Inv, NEW d \in DS, Resolve(d) PROVE Inv'
<1>1. PICK t \in ByNumber(wants[d]) : stack' = <<Depend(d, t, wants[d], TRUE)>>
  BY DEF Resolve
<1>2. /\ stack = <<>> /\ t \in DS /\ t # d /\ Exists(t) /\ Exists(d)
      /\ wants[d] \in Nat \cup {NoNumber}
  BY <1>1 DEF Resolve, Call, Unresolved, ByNumber, Exists, Inv, TypeOK
<1>3. stack' = Append(stack, Depend(d, t, wants[d], TRUE))
  BY <1>1, <1>2
<1>4. master' = master /\ informed' = informed /\ place' = place
  BY DEF Resolve, tree
<1>5. stack' \in Seq(Frame) /\ Walks'
  BY <1>2, <1>3, <1>4, PushedWalks
<1>6. TypeOK'
  BY <1>4, <1>5 DEF Inv, TypeOK, Resolve
<1>7. QED
  BY <1>4, <1>5, <1>6 DEF Inv, Acyclic, PointersAgree, Exists

LEMMA ClearMasterStep == ASSUME Inv, NEW d \in DS, ClearMaster(d) PROVE Inv'
<1>1. stack' = <<>> /\ place' = place /\ master' = [master EXCEPT ![d] = NoDS]
      /\ informed' = Unlinked(d)
  BY DEF ClearMaster, Call
<1>2. \A x \in DS : master'[x] = IF x = d THEN NoDS ELSE master[x]
  BY <1>1 DEF Inv, TypeOK
<1>3. /\ informed' \in [DS -> [DS -> Nat]]
      /\ \A x, e \in DS : informed'[x][e] = IF e = d THEN 0 ELSE informed[x][e]
  BY <1>1, UnlinkedProperties DEF Inv
<1>4. PointersAgree'
  BY <1>1, <1>2, <1>3, PresentationAssumption DEF Inv, PointersAgree, Exists
<1>5. TypeOK'
  BY <1>1, <1>3, NoWalks DEF Inv, TypeOK, ClearMaster
<1>6. QED
  BY <1>1, <1>2, <1>4, <1>5, NoWalks, FewerMasters DEF Inv

LEMMA VanishStep == ASSUME Inv, NEW d \in DS, Vanish(d) PROVE Inv'
<1>1. /\ master' = master /\ informed' = informed /\ stack' = <<>>
      /\ \A x \in DS : Exists(x) => Exists(x)'
  BY DEF Vanish, Call, tree, Exists, Inv, TypeOK
<1>2. TypeOK'
  BY <1>1, NoWalks DEF Inv, TypeOK, Vanish
<1>3. PointersAgree'
  BY <1>1 DEF Inv, PointersAgree
<1>4. QED
  BY <1>1, <1>2, <1>3, NoWalks DEF Inv, Acyclic

LEMMA DestroyStep == ASSUME Inv, NEW d \in DS, Destroy(d) PROVE Inv'
<1>1. /\ stack' = <<>> /\ master' = Orphaned(d) /\ informed' = Destroyed(d)
      /\ place' = [place EXCEPT ![d] = "gone"]
  BY DEF Destroy, Call
<1>2. \A e \in DS : informed[d][e] > 0 <=> master[e] = d
  BY DEF Inv, PointersAgree
<1>3. /\ master' \in [DS -> DS \cup {NoDS}]
      /\ \A e \in DS : master'[e] = IF e = d \/ master[e] = d THEN NoDS ELSE master[e]
  BY <1>1, <1>2 DEF Orphaned, Inv, TypeOK
<1>4. /\ Unlinked(d) \in [DS -> [DS -> Nat]]
      /\ \A x, e \in DS : Unlinked(d)[x][e] = IF e = d THEN 0 ELSE informed[x][e]
  BY UnlinkedProperties DEF Inv
<1>5. /\ informed' \in [DS -> [DS -> Nat]]
      /\ \A x, e \in DS : informed'[x][e] = IF x = d \/ e = d THEN 0 ELSE informed[x][e]
  BY <1>1, <1>4 DEF Destroyed
<1>6. \A x \in DS : x # d /\ Exists(x) => Exists(x)'
  BY <1>1 DEF Exists, Inv, TypeOK
<1>7. PointersAgree'
  <2> SUFFICES ASSUME NEW x \in DS, NEW e \in DS
               PROVE  /\ informed'[x][e] = (IF master'[e] = x THEN 1 ELSE 0)
                      /\ master'[e] = x => Exists(x)' /\ Exists(e)'
    BY DEF PointersAgree
  <2>1. CASE x = d \/ e = d
    BY <1>3, <1>5, <2>1, PresentationAssumption
  <2>2. CASE x # d /\ e # d
    BY <1>3, <1>5, <1>6, <2>2, PresentationAssumption DEF Inv, PointersAgree
  <2>3. QED
    BY <2>1, <2>2
<1>8. TypeOK'
  BY <1>1, <1>3, <1>5, NoWalks DEF Inv, TypeOK, Destroy
<1>9. QED
  BY <1>1, <1>3, <1>7, <1>8, NoWalks, FewerMasters DEF Inv

LEMMA SaveStep == ASSUME Inv, Save PROVE Inv'
<1>1. /\ master' = master /\ informed' = informed /\ stack' = <<>> /\ place' = place
  BY DEF Save, Call, tree
<1>2. DOMAIN file' \subseteq DS /\ file' \in [DOMAIN file' -> Entry]
  BY DEF Save, Inv, TypeOK, Entry
<1>3. TypeOK'
  BY <1>1, <1>2, NoWalks DEF Inv, TypeOK, Save
<1>4. QED
  BY <1>1, <1>3, NoWalks DEF Inv, Acyclic, PointersAgree, Exists

LEMMA LoadStep == ASSUME Inv, Load PROVE Inv'
<1>1. /\ stack' = <<>> /\ file' = file /\ client' = client
      /\ master' = [d \in DS |-> NoDS] /\ informed' = [d \in DS |-> [e \in DS |-> 0]]
  BY DEF Load, Call
<1>2. \A d \in DOMAIN file : /\ file[d].number \in Nat
                             /\ file[d].wants \in Nat \cup {NoNumber}
                             /\ file[d].asked \in DS \cup {NoDS}
  BY DEF Inv, TypeOK, Entry
<1>3. /\ number' \in [DS -> Nat] /\ wants' \in [DS -> Nat \cup {NoNumber}]
      /\ asked' \in [DS -> DS \cup {NoDS}] /\ counter' \in Nat
      /\ place' \in [DS -> {"none", "listed", "vanished", "gone"}]
  BY <1>2, PresentationAssumption DEF Load, Inv, TypeOK
<1>4. TypeOK'
  BY <1>1, <1>3, NoWalks DEF Inv, TypeOK
<1>5. PointersAgree'
  BY <1>1, PresentationAssumption DEF PointersAgree
<1>6. \A x \in DS : master'[x] = NoDS
  BY <1>1
<1>7. QED
  BY <1>1, <1>4, <1>5, <1>6, NoWalks, FewerMasters DEF Inv

-----------------------------------------------------------------------------
(* The theorems.                                                           *)

LEMMA InitInv == Init => Inv
<1> SUFFICES ASSUME Init PROVE Inv
  OBVIOUS
<1>1. TypeOK /\ PointersAgree
  BY PresentationAssumption DEF Init, TypeOK, PointersAgree
<1>2. Acyclic
  BY PresentationAssumption DEF Init, Acyclic
<1>3. Walks
  BY DEF Init, Walks
<1>4. QED
  BY <1>1, <1>2, <1>3 DEF Inv

LEMMA NextInv == Inv /\ [Next]_vars => Inv'
<1> SUFFICES ASSUME Inv, [Next]_vars PROVE Inv'
  OBVIOUS
<1>1. CASE Refuse
  BY <1>1, RefuseStep
<1>2. CASE Climb
  BY <1>2, ClimbStep
<1>3. CASE LookUp
  BY <1>3, LookUpStep
<1>4. CASE Attach
  BY <1>4, AttachStep
<1>5. ASSUME NEW d \in DS,
             New(d) \/ SetMaster(d) \/ ClearMaster(d) \/ Resolve(d) \/ Vanish(d) \/ Destroy(d)
      PROVE  Inv'
  BY <1>5, NewStep, SetMasterStep, ClearMasterStep, ResolveStep, VanishStep, DestroyStep
<1>6. CASE Save
  BY <1>6, SaveStep
<1>7. CASE Load
  BY <1>7, LoadStep
<1>8. CASE UNCHANGED vars
  <2>1. TypeOK' /\ Acyclic' /\ PointersAgree'
    BY <1>8 DEF vars, Inv, TypeOK, Acyclic, PointersAgree, Exists
  <2>2. stack' = stack /\ master' = master /\ place' = place
    BY <1>8 DEF vars
  <2>3. Walks'
    BY <2>2 DEF Inv, Walks, Passed, Waiting, Exists
  <2>4. QED
    BY <2>1, <2>3 DEF Inv
<1>9. QED
  BY <1>1, <1>2, <1>3, <1>4, <1>5, <1>6, <1>7, <1>8 DEF Next

\* What the theorems on types, circles and pointers are conclusions of.
THEOREM AlwaysInv == Spec => []Inv
BY InitInv, NextInv, PTL DEF Spec

\* Every variable keeps its type, the calls under way included.
THEOREM PresentationTypes == Spec => []TypeOK
<1>1. Inv => TypeOK
  BY DEF Inv
<1>2. QED
  BY AlwaysInv, <1>1, PTL

\* set_depending_on never closes a circle of masters, although depending_on()
\* sets masters while the walk that searches for one is under way.
THEOREM NoCircles == Spec => []Acyclic
<1>1. Inv => Acyclic
  BY DEF Inv
<1>2. QED
  BY AlwaysInv, <1>1, PTL

\* The lists of details and the pointers to masters agree, and neither leads to
\* a datasource that ~hk_datasource has deleted.
THEOREM MastersKnowDetails == Spec => []PointersAgree
<1>1. Inv => PointersAgree
  BY DEF Inv
<1>2. QED
  BY AlwaysInv, <1>1, PTL

\* The numbers given are below the one to be given next, and the file keeps the
\* numbers of the moment it was saved.
Numbered ==
  /\ \A d \in DS : place[d] = "listed" => number[d] < counter
  /\ \A d, e \in DOMAIN file : file[d].number = file[e].number => d = e
  /\ NumbersUnique

LEMMA NewNumbered ==
  ASSUME TypeOK, Numbered, NEW d \in DS, New(d) PROVE Numbered'
<1>1. /\ file' = file /\ counter' = counter + 1
      /\ \A x \in DS : place'[x] = IF x = d THEN "listed" ELSE place[x]
      /\ \A x \in DS : number'[x] = IF x = d THEN counter ELSE number[x]
  BY DEF New, NextNumber, TypeOK
<1>2. counter \in Nat /\ \A x \in DS : number[x] \in Nat
  BY DEF TypeOK
<1>3. QED
  BY <1>1, <1>2 DEF Numbered, NumbersUnique

LEMMA LoadNumbered == ASSUME TypeOK, Numbered, Load PROVE Numbered'
<1>1. /\ file' = file
      /\ \A x \in DS : place'[x] = "listed" => x \in DOMAIN file /\ number'[x] = file[x].number
  BY DEF Load, TypeOK
<1>2. \A x \in DOMAIN file : file[x].number < counter'
  BY DEF Load, CounterAfterLoading
<1>3. QED
  BY <1>1, <1>2 DEF Numbered, NumbersUnique

LEMMA NumberedStep == TypeOK /\ Numbered /\ [Next]_vars => Numbered'
<1> SUFFICES ASSUME TypeOK, Numbered, [Next]_vars PROVE Numbered'
  OBVIOUS
<1>1. CASE Refuse \/ Climb \/ LookUp \/ Attach
  BY <1>1 DEF Refuse, Climb, LookUp, Attach, Numbered, NumbersUnique
<1>2. ASSUME NEW d \in DS, New(d) PROVE Numbered'
  BY <1>2, NewNumbered
<1>3. ASSUME NEW d \in DS, SetMaster(d) \/ ClearMaster(d) \/ Resolve(d) PROVE Numbered'
  BY <1>3 DEF SetMaster, ClearMaster, Resolve, Numbered, NumbersUnique
<1>4. ASSUME NEW d \in DS, Vanish(d) \/ Destroy(d) PROVE Numbered'
  <2>1. /\ file' = file /\ counter' = counter /\ number' = number
        /\ \A x \in DS : place'[x] = "listed" => place[x] = "listed"
    BY <1>4 DEF Vanish, Destroy, TypeOK
  <2>2. QED
    BY <2>1 DEF Numbered, NumbersUnique
<1>5. CASE Save
  <2>1. /\ place' = place /\ counter' = counter /\ number' = number
        /\ \A x \in DOMAIN file' : x \in DS /\ place[x] = "listed" /\ file'[x].number = number[x]
    BY <1>5 DEF Save
  <2>2. QED
    BY <2>1 DEF Numbered, NumbersUnique
<1>6. CASE Load
  BY <1>6, LoadNumbered
<1>7. CASE UNCHANGED vars
  BY <1>7 DEF vars, Numbered, NumbersUnique
<1>8. QED
  BY <1>1, <1>2, <1>3, <1>4, <1>5, <1>6, <1>7 DEF Next

\* A number stands for one datasource of the presentation at a time, whatever
\* was deleted, saved and loaded.
THEOREM UniqueNumbers == Spec => []NumbersUnique
<1>1. Init => Numbered
  BY DEF Init, Numbered, NumbersUnique
<1>2. Numbered => NumbersUnique
  BY DEF Numbered
<1>3. QED
  BY PresentationTypes, <1>1, <1>2, NumberedStep, PTL DEF Spec

-----------------------------------------------------------------------------
(* The master that was meant.                                              *)

(***************************************************************************)
(* Clients that keep to what the library can tell apart: they set a master *)
(* only once the pointers are known, and they do not load a presentation   *)
(* after a datasource has gone whose number others remember.               *)
(***************************************************************************)
CarefulClients ==
  \A c \in Clients :
    /\ "setearly" \notin c
    /\ "load" \in c => "vanish" \notin c /\ "destroymaster" \notin c

\* Number n is what is remembered of master m.
Remembered(n, m) ==
  IF m = NoDS THEN n = NoNumber ELSE place[m] # "none" /\ n = number[m]

\* The number that d goes back to when the call under way is refused.
OwnNumber(d) ==
  IF stack # <<>> /\ ~Top.lazy /\ Top.this = d THEN Top.old ELSE wants[d]

\* A call that looks up a master looks up the one that was set; one that sets a
\* master is alone, since there is nothing left to look up on its way.
Meant(i) ==
  LET f == stack[i]
  IN  /\ f.lazy  => f.target = asked[f.this] /\ f.old = wants[f.this]
      /\ ~f.lazy => /\ Len(stack) = 1
                    /\ place[f.this] = "listed" /\ place[f.target] = "listed"
                    /\ wants[f.this] = number[f.target]
                    /\ \A e \in DS : e # f.this => ~Unresolved(e)

\* The file remembers as the datasources do.
Kept(d) ==
  /\ place[d] # "none" /\ file[d].number = number[d]
  /\ Remembered(file[d].wants, file[d].asked)
  /\ "load" \in client => file[d].asked \in {NoDS} \cup DOMAIN file

\* Why a number leads back to its datasource: within a session none is given
\* twice; over several of them the master is still there.
Unmistakable ==
  IF "load" \in client
  THEN \A d \in DS : place[d] = "listed" =>
         asked[d] = NoDS \/ place[asked[d]] = "listed"
  ELSE \A d, e \in DS :
         place[d] # "none" =>
           /\ number[d] < counter
           /\ place[e] # "none" /\ number[d] = number[e] => d = e

Meaning ==
  /\ \A d \in DS : /\ Remembered(OwnNumber(d), asked[d])
                   /\ place[d] = "none" => asked[d] = NoDS
                   /\ master[d] \in {NoDS, asked[d]}
  /\ \A i \in 1..Len(stack) : Meant(i)
  /\ \A d \in DOMAIN file : Kept(d)
  /\ Unmistakable

\* The datasource a number is looked up as is the master that was set.
LEMMA Recognised ==
  ASSUME TypeOK, NumbersUnique, Meaning, NEW d \in DS, Unresolved(d),
         OwnNumber(d) = wants[d], NEW t \in ByNumber(wants[d])
  PROVE  t = asked[d]
<1>1. /\ t \in DS /\ place[t] = "listed" /\ number[t] = wants[d]
      /\ place[d] = "listed" /\ wants[d] # NoNumber
  BY DEF ByNumber, Unresolved
<1>2. asked[d] # NoDS /\ place[asked[d]] # "none" /\ number[asked[d]] = wants[d]
  BY <1>1 DEF Meaning, Remembered
<1>3. asked[d] \in DS
  BY <1>2 DEF TypeOK
<1>4. CASE "load" \in client
  <2>1. place[asked[d]] = "listed"
    BY <1>1, <1>2, <1>4 DEF Meaning, Unmistakable
  <2> QED
    BY <1>1, <1>2, <1>3, <2>1 DEF NumbersUnique
<1>5. CASE "load" \notin client
  BY <1>1, <1>2, <1>3, <1>5 DEF Meaning, Unmistakable
<1> QED
  BY <1>4, <1>5

\* When no call that sets a master is under way, the numbers are those shown.
LEMMA OwnIsShown ==
  ASSUME stack = <<>> \/ Top.lazy
  PROVE  \A d : OwnNumber(d) = wants[d]
  BY DEF OwnNumber

\* The calls left when the topmost returns are for what they were before, and
\* all of them look something up.
LEMMA CallsBelow ==
  ASSUME TypeOK, Walks, Meaning, stack # <<>>,
         NEW m \in [DS -> DS \cup {NoDS}], stack' = Returned(m)
  PROVE  /\ Len(stack') = Len(stack) - 1
         /\ \A i \in 1..Len(stack') :
              /\ Top.lazy /\ stack'[i].lazy /\ stack[i].lazy /\ Meant(i)
              /\ stack'[i].this = stack[i].this
              /\ stack'[i].target = stack[i].target
              /\ stack'[i].old = stack[i].old
<1> DEFINE n == Len(stack) - 1
<1>1. /\ n \in Nat /\ Len(stack') = n
      /\ \A i \in 1..n : i # n => stack'[i] = stack[i]
      /\ n > 0 => n \in 1..n /\ Waiting(n) /\ stack'[n] = Climbed(stack[n], m)
  BY ReturnedProperties
<1> SUFFICES ASSUME NEW i \in 1..n
             PROVE  /\ Top.lazy /\ stack'[i].lazy /\ stack[i].lazy /\ Meant(i)
                    /\ stack'[i].this = stack[i].this
                    /\ stack'[i].target = stack[i].target
                    /\ stack'[i].old = stack[i].old
  BY <1>1
<1>2. i \in 1..Len(stack) /\ Len(stack) \in 1..Len(stack) /\ Len(stack) # 1
  BY <1>1
<1>3. Meant(i) /\ stack[i].lazy /\ Top.lazy
  BY <1>2 DEF Meaning, Meant, Top
<1>4. CASE i # n
  BY <1>1, <1>3, <1>4
<1>5. CASE i = n
  <2>1. stack[i] \in Frame /\ stack[i].tmp \in DS /\ stack'[i] = Climbed(stack[i], m)
    BY <1>1, <1>2, <1>5 DEF TypeOK, Waiting
  <2> QED
    BY <1>3, <2>1, ClimbedType
<1> QED
  BY <1>4, <1>5

\* The topmost call returns, and those below stay meant.
LEMMA PoppedMeant ==
  ASSUME TypeOK, Walks, Meaning, stack # <<>>,
         NEW m \in [DS -> DS \cup {NoDS}], stack' = Returned(m),
         Top.lazy => wants' = wants /\ asked' = asked
  PROVE  /\ \A i \in 1..Len(stack') : Meant(i)'
         /\ \A d : OwnNumber(d)' = wants'[d]
<1>1. \A i \in 1..Len(stack') :
        /\ Top.lazy /\ stack'[i].lazy /\ stack[i].lazy /\ Meant(i)
        /\ stack'[i].this = stack[i].this
        /\ stack'[i].target = stack[i].target
        /\ stack'[i].old = stack[i].old
  BY CallsBelow
<1>2. \A i \in 1..Len(stack') : Meant(i)'
  BY <1>1 DEF Meant
<1>3. stack' = <<>> \/ Top'.lazy
  <2>1. Len(stack') = Len(stack) - 1 /\ Len(stack) \in Nat \ {0}
    BY CallsBelow, TopProperties
  <2>2. stack' \in Seq(Frame)
    BY ReturnedProperties
  <2>3. CASE Len(stack') = 0
    BY <2>2, <2>3
  <2>4. CASE Len(stack') # 0
    <3>1. Len(stack') \in 1..Len(stack')
      BY <2>1, <2>4
    <3> QED
      BY <1>1, <3>1 DEF Top
  <2> QED
    BY <2>3, <2>4
<1> QED
  BY <1>2, <1>3 DEF OwnNumber

-----------------------------------------------------------------------------
(* The steps of a walk keep it.                                            *)

LEMMA RefuseMeaning ==
  ASSUME Inv, Meaning, Refuse
  PROVE  Meaning'
<1>1. stack # <<>> /\ Top \in Frame /\ Top = stack[Len(stack)] /\ Top.this \in DS
  BY TopProperties DEF Inv, Refuse, AtDatasource, Frame
<1>2. /\ UNCHANGED <<client, place, number, master, counter, file, asked>>
      /\ wants' = [wants EXCEPT ![Top.this] = Top.old] /\ stack' = Returned(master)
  BY DEF Refuse, tree, Restored
<1>3. \A d \in DS : wants'[d] = OwnNumber(d)
  <2>1. \A d \in DS : wants'[d] = IF d = Top.this THEN Top.old ELSE wants[d]
    BY <1>1, <1>2 DEF Inv, TypeOK
  <2>2. Top.lazy => Top.old = wants[Top.this]
    <3>1. Len(stack) \in 1..Len(stack)
      BY TopProperties, <1>1 DEF Inv
    <3> QED
      BY <1>1, <3>1 DEF Meaning, Meant
  <2> QED
    BY <1>1, <2>1, <2>2 DEF OwnNumber
<1>4. Top.lazy => wants' = wants
  <2> SUFFICES ASSUME Top.lazy PROVE wants' = wants
    OBVIOUS
  <2>1. \A d \in DS : wants'[d] = wants[d]
    BY <1>3 DEF OwnNumber
  <2>2. wants \in [DS -> Nat \cup {NoNumber}] /\ wants' \in [DS -> Nat \cup {NoNumber}]
    BY <1>1, <1>2 DEF Inv, TypeOK, Frame
  <2> QED
    BY <2>1, <2>2
<1>5. master \in [DS -> DS \cup {NoDS}]
  BY DEF Inv, TypeOK
<1>6. /\ \A i \in 1..Len(stack') : Meant(i)'
      /\ \A d : OwnNumber(d)' = wants'[d]
  BY <1>1, <1>2, <1>4, <1>5, PoppedMeant DEF Inv
<1> QED
  BY <1>2, <1>3, <1>6 DEF Meaning, Remembered, Kept, Unmistakable

LEMMA ClimbMeaning ==
  ASSUME Inv, Meaning, Climb
  PROVE  Meaning'
<1> DEFINE n == Len(stack)
           g == Climbed(Top, master)
<1>1. /\ n \in Nat \ {0} /\ n \in 1..n /\ stack \in Seq(Frame)
      /\ Top \in Frame /\ Top = stack[n] /\ Top.tmp \in DS
  <2>1. stack # <<>> /\ Top.tmp # NoDS
    BY DEF Climb, AtDatasource
  <2>2. n \in Nat \ {0} /\ Top \in Frame /\ Top = stack[n] /\ stack \in Seq(Frame)
    BY <2>1, TopProperties DEF Inv, TypeOK
  <2>3. Top.tmp \in DS
    BY <2>1, <2>2 DEF Frame
  <2> QED
    BY <2>2, <2>3
<1>2. /\ g \in Frame /\ g.this = Top.this /\ g.target = Top.target
      /\ g.old = Top.old /\ g.lazy = Top.lazy
  BY <1>1, ClimbedType, ZenonT(40) DEF Inv, TypeOK
<1> HIDE DEF g
<1>3. /\ UNCHANGED <<client, place, number, wants, master, counter, file, asked>>
      /\ stack' = [stack EXCEPT ![n] = g]
  BY DEF Climb, tree, g
<1>4. /\ Len(stack') = n /\ stack' # <<>> /\ stack # <<>>
      /\ \A i \in 1..n : /\ stack'[i].this = stack[i].this
                         /\ stack'[i].target = stack[i].target
                         /\ stack'[i].old = stack[i].old
                         /\ stack'[i].lazy = stack[i].lazy
  BY <1>1, <1>2, <1>3
<1>5. \A d \in DS : OwnNumber(d)' = OwnNumber(d)
  BY <1>1, <1>3, <1>4 DEF OwnNumber, Top
<1>6. \A d \in DS : Unresolved(d)' = Unresolved(d)
  BY <1>3 DEF Unresolved, ByNumber
<1>7. \A i \in 1..n : Meant(i)'
  BY <1>3, <1>4, <1>6, ZenonT(40) DEF Meaning, Meant
<1> QED
  BY <1>3, <1>4, <1>5, <1>7, ZenonT(40) DEF Meaning, Remembered, Kept, Unmistakable

\* A call that looks up a master is pushed on a stack of such calls.
LEMMA PushedMeant ==
  ASSUME Inv, NumbersUnique, Meaning, stack = <<>> \/ Top.lazy,
         NEW d \in DS, Unresolved(d), NEW t \in ByNumber(wants[d]),
         stack' = Append(stack, Depend(d, t, wants[d], TRUE)),
         UNCHANGED <<client, place, number, wants, tree, counter, file, asked>>
  PROVE  Meaning'
<1> DEFINE f == Depend(d, t, wants[d], TRUE)
<1>1. f.this = d /\ f.target = t /\ f.old = wants[d] /\ f.lazy /\ f \in Frame
  <2>1. wants[d] \in Nat \cup {NoNumber} /\ t \in DS
    BY DEF Inv, TypeOK, ByNumber
  <2> QED
    BY <2>1 DEF Depend, Frame
<1>8. stack' = Append(stack, f)
  OBVIOUS
<1>9. client' = client /\ place' = place /\ number' = number /\ wants' = wants
      /\ master' = master /\ counter' = counter /\ file' = file /\ asked' = asked
  BY DEF tree
<1> HIDE DEF f
<1>2. t = asked[d]
  BY OwnIsShown, Recognised DEF Inv
<1>3. stack \in Seq(Frame) /\ Len(stack) \in Nat
  BY DEF Inv, TypeOK
<1>4. /\ Len(stack') = Len(stack) + 1 /\ stack'[Len(stack')] = f /\ stack' # <<>>
      /\ \A i \in 1..Len(stack) : stack'[i] = stack[i]
  <2>1. /\ Append(stack, f) # <<>> /\ Len(Append(stack, f)) = Len(stack) + 1
        /\ \A i \in 1..Len(stack) : Append(stack, f)[i] = stack[i]
        /\ Append(stack, f)[Len(stack) + 1] = f
    BY <1>1, <1>3, AppendProperties
  <2> QED
    BY <1>8, <2>1
<1>5. \A i \in 1..Len(stack) : stack[i].lazy
  <2> SUFFICES ASSUME NEW i \in 1..Len(stack), ~stack[i].lazy PROVE FALSE
    OBVIOUS
  <2>1. Len(stack) = 1 /\ i = Len(stack) /\ stack # <<>>
    BY <1>3 DEF Meaning, Meant
  <2> QED
    BY <2>1 DEF Top
<1>6. \A i \in 1..Len(stack') : Meant(i)'
  <2> SUFFICES ASSUME NEW i \in 1..Len(stack') PROVE Meant(i)'
    OBVIOUS
  <2>1. CASE i = Len(stack')
    <3>1. stack'[i] = f
      BY <1>4, <2>1
    <3> QED
      BY <1>1, <1>2, <1>9, <3>1 DEF Meant
  <2>2. CASE i # Len(stack')
    <3>1. i \in 1..Len(stack)
      BY <1>3, <1>4, <2>2
    <3>2. stack'[i] = stack[i] /\ stack[i].lazy /\ Meant(i)
      BY <1>4, <1>5, <3>1 DEF Meaning
    <3> QED
      BY <1>9, <3>2 DEF Meant
  <2> QED
    BY <2>1, <2>2
<1>7. \A x : OwnNumber(x)' = wants[x] /\ OwnNumber(x) = wants[x]
  BY <1>1, <1>4 DEF OwnNumber, Top
<1> QED
  BY <1>6, <1>7, <1>9 DEF Meaning, Remembered, Kept, Unmistakable

LEMMA LookUpMeaning ==
  ASSUME Inv, NumbersUnique, Meaning, LookUp
  PROVE  Meaning'
<1>1. /\ stack # <<>> /\ Top \in Frame /\ Top.tmp \in DS /\ Top.tmp # Top.this
      /\ Unresolved(Top.tmp) /\ Len(stack) \in 1..Len(stack)
  BY TopProperties DEF Inv, LookUp, AtDatasource, Circular, Frame
<1>2. Top.lazy
  BY <1>1 DEF Meaning, Meant, Top
<1> QED
  BY <1>1, <1>2, PushedMeant DEF LookUp

LEMMA AttachMeaning ==
  ASSUME Inv, Meaning, Attach
  PROVE  Meaning'
<1> DEFINE d == Top.this
           t == Top.target
<1>1. /\ stack # <<>> /\ Top \in Frame /\ Top = stack[Len(stack)]
      /\ Len(stack) \in 1..Len(stack) /\ d \in DS /\ t \in DS
  BY TopProperties DEF Inv, Attach, Frame
<1>2. /\ UNCHANGED <<client, place, number, wants, counter, file>>
      /\ master' = [master EXCEPT ![d] = t] /\ stack' = Returned(master')
      /\ asked' = IF Top.lazy THEN asked ELSE [asked EXCEPT ![d] = t]
  BY DEF Attach
<1> HIDE DEF d, t
<1>3. /\ master' \in [DS -> DS \cup {NoDS}]
      /\ \A x \in DS : master'[x] = IF x = d THEN t ELSE master[x]
  BY <1>1, <1>2 DEF Inv, TypeOK
<1>4. PICK m : m = master'
  OBVIOUS
<1>5. m \in [DS -> DS \cup {NoDS}] /\ stack' = Returned(m)
  BY <1>2, <1>3, <1>4
<1>6. /\ \A i \in 1..Len(stack') : Meant(i)'
      /\ \A x : OwnNumber(x)' = wants[x]
  BY <1>1, <1>2, <1>5, PoppedMeant DEF Inv
<1>7. Meant(Len(stack))
  BY <1>1 DEF Meaning
<1>8. CASE Top.lazy
  <2>1. t = asked[d] /\ asked' = asked
    BY <1>1, <1>2, <1>7, <1>8 DEF Meant, d, t
  <2>2. \A x \in DS : OwnNumber(x) = wants[x]
    BY <1>8 DEF OwnNumber
  <2> QED
    <3>1. \A x \in DS : /\ Remembered(OwnNumber(x), asked[x])'
                        /\ place'[x] = "none" => asked'[x] = NoDS
                        /\ master'[x] \in {NoDS, asked'[x]}
      BY <1>2, <1>3, <1>6, <2>1, <2>2 DEF Meaning, Remembered
    <3>2. Unmistakable'
      BY <1>2, <2>1 DEF Meaning, Unmistakable
    <3>3. \A x \in DOMAIN file : Kept(x)'
      BY <1>2 DEF Meaning, Kept, Remembered
    <3> QED
      BY <1>2, <1>6, <3>1, <3>2, <3>3 DEF Meaning
<1>9. CASE ~Top.lazy
  <2>1. /\ place[d] = "listed" /\ place[t] = "listed" /\ wants[d] = number[t]
    BY <1>1, <1>7, <1>9 DEF Meant, d, t
  <2>2. \A x \in DS : asked'[x] = IF x = d THEN t ELSE asked[x]
    BY <1>1, <1>2, <1>9 DEF Inv, TypeOK
  <2>3. \A x \in DS : x # d => OwnNumber(x) = wants[x]
    BY DEF OwnNumber, d
  <2>4. t # NoDS
    BY <1>1, PresentationAssumption
  <2>5. \A x \in DS : /\ Remembered(OwnNumber(x), asked[x])'
                      /\ place'[x] = "none" => asked'[x] = NoDS
                      /\ master'[x] \in {NoDS, asked'[x]}
    BY <1>2, <1>3, <1>6, <2>1, <2>2, <2>3, <2>4 DEF Meaning, Remembered
  <2>6. Unmistakable'
    BY <1>2, <2>1, <2>2 DEF Meaning, Unmistakable
  <2>7. \A x \in DOMAIN file : Kept(x)'
    BY <1>2 DEF Meaning, Kept, Remembered
  <2> QED
    BY <1>2, <1>6, <2>5, <2>6, <2>7 DEF Meaning
<1> QED
  BY <1>8, <1>9

-----------------------------------------------------------------------------
(* The calls of the client keep it.                                        *)

LEMMA NewMeaning ==
  ASSUME Inv, Meaning, NEW d \in DS, New(d)
  PROVE  Meaning'
<1>1. /\ UNCHANGED <<client, wants, master, file, asked>> /\ stack = <<>> /\ stack' = <<>>
      /\ place[d] = "none" /\ counter' = counter + 1 /\ counter \in Nat
      /\ \A x \in DS : place'[x] = IF x = d THEN "listed" ELSE place[x]
      /\ \A x \in DS : number'[x] = IF x = d THEN counter ELSE number[x]
      /\ \A x \in DS : number[x] \in Nat
  BY DEF New, Call, NextNumber, tree, Inv, TypeOK
<1>2. \A n, m : m \in DS \cup {NoDS} /\ Remembered(n, m) => Remembered(n, m)'
  BY <1>1 DEF Remembered
<1>3. \A x \in DS : asked[x] \in DS \cup {NoDS}
  BY DEF Inv, TypeOK
<1>4. \A x \in DS : OwnNumber(x) = wants[x] /\ OwnNumber(x)' = wants[x]
  BY <1>1 DEF OwnNumber
<1>5. \A x \in DOMAIN file : Kept(x)'
  <2>1. \A x \in DOMAIN file : x \in DS /\ file[x].asked \in DS \cup {NoDS} /\ Kept(x)
    BY DEF Inv, TypeOK, Entry, Meaning
  <2> QED
    BY <1>1, <1>2, <2>1 DEF Kept
<1>6. Unmistakable'
  <2>1. CASE "load" \in client
    BY <1>1, <1>3, <2>1 DEF Meaning, Unmistakable
  <2>2. CASE "load" \notin client
    BY <1>1, <2>2 DEF Meaning, Unmistakable
  <2> QED
    BY <2>1, <2>2
<1>7. \A x \in DS : /\ Remembered(OwnNumber(x), asked[x])'
                    /\ place'[x] = "none" => asked'[x] = NoDS
                    /\ master'[x] \in {NoDS, asked'[x]}
  <2>1. \A x \in DS : Remembered(wants[x], asked[x])'
    BY <1>1, <1>2, <1>3, <1>4 DEF Meaning
  <2> QED
    BY <1>1, <1>4, <2>1 DEF Meaning, Remembered
<1> QED
  BY <1>1, <1>5, <1>6, <1>7 DEF Meaning

LEMMA SetMasterMeaning ==
  ASSUME CarefulClients, Inv, Meaning, NEW d \in DS, SetMaster(d)
  PROVE  Meaning'
<1>1. PICK t \in DS : /\ place[t] = "listed" /\ number[t] # number[d]
                      /\ \E x \in ByNumber(number[t]) :
                            stack' = <<Depend(d, x, wants[d], FALSE)>>
                      /\ wants' = [wants EXCEPT ![d] = number[t]]
  BY DEF SetMaster
<1>2. PICK x \in ByNumber(number[t]) : stack' = <<Depend(d, x, wants[d], FALSE)>>
  BY <1>1
<1>3. /\ place[d] = "listed" /\ place[x] = "listed" /\ number[x] = number[t]
      /\ \A e \in DS : wants'[e] = IF e = d THEN number[x] ELSE wants[e]
  BY <1>1 DEF SetMaster, ByNumber, Inv, TypeOK
<1>4. /\ UNCHANGED <<client, place, number, master, counter, file, asked>>
      /\ stack = <<>>
  BY DEF SetMaster, Call, tree
<1>5. \A e \in DS : ~Unresolved(e)
  BY DEF SetMaster, Call, CarefulClients, Inv, TypeOK
<1>6. /\ Len(stack') = 1 /\ stack' # <<>> /\ stack'[1] = Top'
      /\ Top'.this = d /\ Top'.target = x /\ Top'.old = wants[d] /\ ~Top'.lazy
  BY <1>2 DEF Depend, Top
<1>7. \A e \in DS : e # d => ~Unresolved(e)'
  BY <1>3, <1>4, <1>5 DEF Unresolved, ByNumber
<1>8. \A i \in 1..Len(stack') : Meant(i)'
  <2>1. Meant(1)'
    BY <1>3, <1>4, <1>6, <1>7 DEF Meant
  <2> QED
    BY <1>6, <2>1
<1>9. \A e \in DS : OwnNumber(e) = wants[e] /\ OwnNumber(e)' = wants[e]
  BY <1>3, <1>4, <1>6 DEF OwnNumber
<1> QED
  BY <1>4, <1>8, <1>9 DEF Meaning, Remembered, Kept, Unmistakable

LEMMA ClearMasterMeaning ==
  ASSUME Inv, Meaning, NEW d \in DS, ClearMaster(d)
  PROVE  Meaning'
<1>1. /\ UNCHANGED <<client, place, number, counter, file>>
      /\ stack = <<>> /\ stack' = <<>>
      /\ \A x \in DS : /\ wants'[x] = IF x = d THEN NoNumber ELSE wants[x]
                       /\ asked'[x] = IF x = d THEN NoDS ELSE asked[x]
                       /\ master'[x] = IF x = d THEN NoDS ELSE master[x]
  BY DEF ClearMaster, Call, Inv, TypeOK
<1>2. \A x \in DS : OwnNumber(x) = wants[x] /\ OwnNumber(x)' = wants'[x]
  BY <1>1 DEF OwnNumber
<1>3. \A x \in DS : /\ Remembered(OwnNumber(x), asked[x])'
                    /\ place'[x] = "none" => asked'[x] = NoDS
                    /\ master'[x] \in {NoDS, asked'[x]}
  BY <1>1, <1>2 DEF Meaning, Remembered
<1>4. Unmistakable'
  BY <1>1 DEF Meaning, Unmistakable
<1>5. \A x \in DOMAIN file : Kept(x)'
  BY <1>1 DEF Meaning, Kept, Remembered
<1> QED
  BY <1>1, <1>3, <1>4, <1>5 DEF Meaning

LEMMA ResolveMeaning ==
  ASSUME Inv, NumbersUnique, Meaning, NEW d \in DS, Resolve(d)
  PROVE  Meaning'
<1>1. PICK t \in ByNumber(wants[d]) : stack' = <<Depend(d, t, wants[d], TRUE)>>
  BY DEF Resolve
<1>2. stack = <<>> /\ Unresolved(d)
  BY DEF Resolve, Call
<1>3. stack' = Append(stack, Depend(d, t, wants[d], TRUE))
  BY <1>1, <1>2
<1> QED
  BY <1>2, <1>3, PushedMeant DEF Resolve

\* A datasource goes: what others remember of it stays, unless the presentation
\* may be loaded again, and then nobody remembers it.
LEMMA GoneMeaning ==
  ASSUME CarefulClients, Inv, Meaning, NEW d \in DS, Vanish(d) \/ Destroy(d)
  PROVE  Meaning'
<1>1. /\ UNCHANGED <<client, number, wants, counter, file, asked>>
      /\ stack = <<>> /\ stack' = <<>>
      /\ place[d] # "none" /\ place'[d] \in {"vanished", "gone"}
      /\ \A x \in DS : x # d => place'[x] = place[x]
      /\ \A x \in DS : master'[x] \in {NoDS, master[x]}
  BY DEF Vanish, Destroy, Call, Exists, Orphaned, tree, Inv, TypeOK
<1>2. \A x \in DS : OwnNumber(x) = wants[x] /\ OwnNumber(x)' = wants[x]
  BY <1>1 DEF OwnNumber
<1>3. \A x \in DS : (place[x] = "none") = (place'[x] = "none")
  BY <1>1
<1>4. \A n, m : m \in DS \cup {NoDS} => Remembered(n, m)' = Remembered(n, m)
  BY <1>1, <1>3 DEF Remembered
<1>5. \A x \in DS : /\ Remembered(OwnNumber(x), asked[x])'
                    /\ place'[x] = "none" => asked'[x] = NoDS
                    /\ master'[x] \in {NoDS, asked'[x]}
  <2>1. \A x \in DS : Remembered(wants[x], asked[x]) /\ asked[x] \in DS \cup {NoDS}
    BY <1>2 DEF Meaning, Inv, TypeOK
  <2>2. \A x \in DS : Remembered(wants[x], asked[x])'
    BY <1>1, <1>3, <2>1 DEF Remembered
  <2> QED
    BY <1>1, <1>2, <1>3, <2>2 DEF Meaning, Remembered
<1>6. \A x \in DOMAIN file : Kept(x)'
  <2>1. \A x \in DOMAIN file : x \in DS /\ file[x].asked \in DS \cup {NoDS} /\ Kept(x)
    BY DEF Inv, TypeOK, Entry, Meaning
  <2> QED
    BY <1>1, <1>3, <1>4, <2>1 DEF Kept
<1>7. Unmistakable'
  <2>1. CASE "load" \notin client
    BY <1>1, <1>3, <2>1 DEF Meaning, Unmistakable
  <2>2. CASE "load" \in client
    <3>1. client \in Clients
      BY DEF Inv, TypeOK
    <3>2. Destroy(d) /\ \A e \in DS : place[e] = "listed" => wants[e] # number[d]
      BY <2>2, <3>1 DEF CarefulClients, Vanish, Destroy, Call
    <3>3. \A e \in DS : place[e] = "listed" => asked[e] # d
      BY <1>2, <3>2, PresentationAssumption DEF Meaning, Remembered
    <3>4. \A e \in DS : place'[e] = "listed" => e # d /\ place[e] = "listed"
      BY <1>1
    <3>5. \A e \in DS : place[e] = "listed" =>
            asked[e] = NoDS \/ (place[asked[e]] = "listed" /\ asked[e] \in DS \ {d})
      BY <2>2, <3>3 DEF Meaning, Unmistakable, Inv, TypeOK
    <3> QED
      BY <1>1, <2>2, <3>4, <3>5 DEF Unmistakable
  <2> QED
    BY <2>1, <2>2
<1> QED
  BY <1>1, <1>5, <1>6, <1>7 DEF Meaning

LEMMA SaveMeaning ==
  ASSUME Inv, Meaning, Save
  PROVE  Meaning'
<1>1. /\ UNCHANGED <<client, place, number, wants, master, counter, asked>>
      /\ stack = <<>> /\ stack' = <<>>
      /\ DOMAIN file' = { x \in DS : place[x] = "listed" }
      /\ \A x \in DOMAIN file' : /\ file'[x].number = number[x]
                                 /\ file'[x].wants = wants[x]
                                 /\ file'[x].asked = asked[x]
  BY DEF Save, Call, tree
<1>2. \A x \in DS : OwnNumber(x) = wants[x] /\ OwnNumber(x)' = wants[x]
  BY <1>1 DEF OwnNumber
<1>3. \A x \in DOMAIN file' : Kept(x)'
  <2> SUFFICES ASSUME NEW x \in DOMAIN file' PROVE Kept(x)'
    OBVIOUS
  <2>1. x \in DS /\ place[x] = "listed" /\ asked[x] \in DS \cup {NoDS}
    BY <1>1 DEF Inv, TypeOK
  <2>2. Remembered(wants[x], asked[x])
    BY <1>2, <2>1 DEF Meaning
  <2>3. "load" \in client => asked[x] \in {NoDS} \cup DOMAIN file'
    BY <1>1, <2>1 DEF Meaning, Unmistakable
  <2> QED
    BY <1>1, <2>1, <2>2, <2>3 DEF Kept, Remembered
<1>4. Unmistakable'
  BY <1>1 DEF Meaning, Unmistakable
<1> QED
  BY <1>1, <1>2, <1>3, <1>4 DEF Meaning, Remembered

LEMMA LoadMeaning ==
  ASSUME Inv, Meaning, Load
  PROVE  Meaning'
<1>1. /\ client' = client /\ "load" \in client /\ file' = file
      /\ stack = <<>> /\ stack' = <<>>
      /\ \A x \in DS :
           /\ place'[x] = IF x \in DOMAIN file THEN "listed"
                          ELSE IF place[x] = "none" THEN "none" ELSE "gone"
           /\ number'[x] = IF x \in DOMAIN file THEN file[x].number ELSE number[x]
           /\ wants'[x] = IF x \in DOMAIN file THEN file[x].wants ELSE NoNumber
           /\ asked'[x] = IF x \in DOMAIN file THEN file[x].asked ELSE NoDS
           /\ master'[x] = NoDS
  BY DEF Load, Call
<1>2. \A x \in DOMAIN file : x \in DS /\ Kept(x)
  BY DEF Inv, TypeOK, Meaning
<1>3. \A x \in DS : number'[x] = number[x]
  BY <1>1, <1>2 DEF Kept
<1>4. \A x \in DOMAIN file :
        /\ file[x].asked \in {NoDS} \cup DOMAIN file
        /\ file[x].asked # NoDS => file[x].wants = number[file[x].asked]
        /\ file[x].asked = NoDS => file[x].wants = NoNumber
  BY <1>1, <1>2 DEF Kept, Remembered
<1>5. \A x \in DOMAIN file : place'[x] = "listed"
  BY <1>1, <1>2
<1>6. \A x \in DOMAIN file : Remembered(file[x].wants, file[x].asked)'
  BY <1>1, <1>2, <1>3, <1>4, <1>5 DEF Remembered
<1>7. \A x \in DS : OwnNumber(x)' = wants'[x]
  BY <1>1 DEF OwnNumber
<1>8. \A x \in DS : /\ Remembered(OwnNumber(x), asked[x])'
                    /\ place'[x] = "none" => asked'[x] = NoDS
                    /\ master'[x] \in {NoDS, asked'[x]}
  <2> SUFFICES ASSUME NEW x \in DS
               PROVE  /\ Remembered(wants[x], asked[x])'
                      /\ place'[x] = "none" => asked'[x] = NoDS
                      /\ master'[x] \in {NoDS, asked'[x]}
    BY <1>7 DEF Remembered
  <2>1. CASE x \in DOMAIN file
    BY <1>1, <1>6, <2>1 DEF Remembered
  <2>2. CASE x \notin DOMAIN file
    BY <1>1, <2>2 DEF Remembered
  <2> QED
    BY <2>1, <2>2
<1>9. \A x \in DOMAIN file : Kept(x)'
  BY <1>1, <1>2, <1>3, <1>5, <1>6 DEF Kept
<1>10. Unmistakable'
  <2> SUFFICES ASSUME NEW x \in DS, place'[x] = "listed"
               PROVE  asked'[x] = NoDS \/ place'[asked'[x]] = "listed"
    BY <1>1 DEF Unmistakable
  <2>1. x \in DOMAIN file
    BY <1>1
  <2> QED
    BY <1>1, <1>4, <1>5, <2>1
<1> QED
  BY <1>1, <1>8, <1>9, <1>10 DEF Meaning

LEMMA MeaningInit == Init => Meaning
  BY DEF Init, Meaning, Remembered, OwnNumber, Unmistakable

LEMMA MeaningNext ==
  ASSUME CarefulClients
  PROVE  Inv /\ NumbersUnique /\ Meaning /\ [Next]_vars => Meaning'
<1> SUFFICES ASSUME Inv, NumbersUnique, Meaning, [Next]_vars PROVE Meaning'
  OBVIOUS
<1>1. CASE Refuse \/ Climb \/ LookUp \/ Attach
  BY <1>1, RefuseMeaning, ClimbMeaning, LookUpMeaning, AttachMeaning
<1>2. ASSUME NEW d \in DS, New(d) \/ SetMaster(d) \/ ClearMaster(d) \/ Resolve(d)
      PROVE  Meaning'
  BY <1>2, NewMeaning, SetMasterMeaning, ClearMasterMeaning, ResolveMeaning
<1>3. ASSUME NEW d \in DS, Vanish(d) \/ Destroy(d) PROVE Meaning'
  BY <1>3, GoneMeaning
<1>4. CASE Save \/ Load
  BY <1>4, SaveMeaning, LoadMeaning
<1>5. CASE UNCHANGED vars
  <2>1. \A d : Unresolved(d)' = Unresolved(d) /\ OwnNumber(d)' = OwnNumber(d)
    BY <1>5 DEF vars, Unresolved, ByNumber, OwnNumber, Top
  <2>2. \A i : Meant(i)' = Meant(i)
    BY <1>5, <2>1 DEF vars, Meant
  <2> QED
    BY <1>5, <2>1, <2>2 DEF vars, Meaning, Remembered, Kept, Unmistakable
<1> QED
  BY <1>1, <1>2, <1>3, <1>4, <1>5 DEF Next

THEOREM AlwaysMeant == ASSUME CarefulClients PROVE Spec => []Meaning
<1>1. Inv /\ NumbersUnique /\ Meaning /\ [Next]_vars => Meaning'
  BY MeaningNext
<1> QED
  BY <1>1, AlwaysInv, UniqueNumbers, MeaningInit, PTL DEF Spec

\* Between two calls the number a datasource would be saved with as that of its
\* master is the master's, although set_depending_on_presentationdatasource()
\* sets it before it knows whether the master will be accepted.
THEOREM MastersAreSaved == ASSUME CarefulClients PROVE Spec => []SavedAsShown
<1>1. Inv /\ Meaning => SavedAsShown
  <2> SUFFICES ASSUME Inv, Meaning, stack = <<>>,
                      NEW d \in DS, NEW m \in DS, master[d] = m
               PROVE  wants[d] = number[m]
    BY DEF SavedAsShown
  <2>1. m # NoDS /\ asked[d] = m /\ OwnNumber(d) = wants[d]
    BY PresentationAssumption DEF Meaning, OwnNumber
  <2> QED
    BY <2>1 DEF Meaning, Remembered
<1> QED
  BY <1>1, AlwaysInv, AlwaysMeant, PTL

\* A datasource follows the master that was set and no other, whatever is
\* deleted, saved and loaded, and whoever looks the master up by its number.
THEOREM MastersAreMeant == ASSUME CarefulClients PROVE Spec => []MasterAsAsked
<1>1. Meaning => MasterAsAsked
  BY DEF Meaning, MasterAsAsked
<1> QED
  BY <1>1, AlwaysMeant, PTL
=============================================================================
