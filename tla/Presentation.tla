----------------------------- MODULE Presentation -----------------------------
(***************************************************************************)
(* The datasources of a form or report: the numbers they get, the masters  *)
(* they depend on, and the file both are saved in (hk_presentation.cpp and *)
(* set_depending_on, depending_on, ~hk_datasource of hk_datasource.cpp).   *)
(*                                                                         *)
(* A datasource remembers its master twice: as a number, which is saved,   *)
(* and as a pointer, which is looked up when it is first needed.  To look  *)
(* it up is to call set_depending_on, which walks from the new master      *)
(* upwards in search of a circle, and every step of that walk may have to  *)
(* look up a pointer in turn.  The walks under way are the variable stack, *)
(* one action is one step of the topmost.                                  *)
(***************************************************************************)
EXTENDS Integers, Sequences

CONSTANTS
  DS,          \* datasources; each is created once and keeps its identity when
               \* it is saved and loaded again
  NoDS,        \* no datasource, a null pointer
  Clients,     \* sets of calls, one of which the client makes
  MaxNumber,   \* bound: no datasource is created beyond this number
  MaxDepth     \* bound: the walks that can be under way

NoNumber == -1

ASSUME PresentationAssumption ==
  NoDS \notin DS /\ MaxNumber \in Nat /\ MaxDepth \in Nat

VARIABLES
  client,      \* the calls the client makes
  place,       \* whether p_datasources lists d; its source may have vanished
  number,      \* p_dscounter
  wants,       \* p_depending_on_presentationdatasource
  master,      \* p_depending_on_datasource
  informed,    \* informed[d][e]: how often e is in d's p_dependinglist
  counter,     \* p_counter of the presentation
  file,        \* what is saved
  asked,       \* history: the master that was set last
  stack        \* the calls of set_depending_on that are under way

vars == <<client, place, number, wants, master, informed, counter, file, asked, stack>>

tree == <<master, informed>>

Entry == [number : Nat, wants : Nat \cup {NoNumber}, asked : DS \cup {NoDS}]

Frame ==
  [this : DS, target : DS,          \* this is to depend on target
   tmp  : DS \cup {NoDS},           \* where the walk has come to
   seen : SUBSET DS,                \* history: where it has been
   old  : Nat \cup {NoNumber},      \* the number to go back to (tmpds)
   lazy : BOOLEAN]                  \* called by depending_on()

TypeOK ==
  /\ client \in Clients
  /\ place \in [DS -> {"none", "listed", "vanished", "gone"}]
  /\ number \in [DS -> Nat] /\ counter \in Nat
  /\ wants \in [DS -> Nat \cup {NoNumber}]
  /\ master \in [DS -> DS \cup {NoDS}]
  /\ informed \in [DS -> [DS -> Nat]]
  /\ DOMAIN file \subseteq DS /\ file \in [DOMAIN file -> Entry]
  /\ asked \in [DS -> DS \cup {NoDS}]
  /\ stack \in Seq(Frame)

-----------------------------------------------------------------------------
(* Looking up and setting a master.                                        *)

Exists(d) == place[d] \in {"listed", "vanished"}

ByNumber(n) == { d \in DS : place[d] = "listed" /\ number[d] = n }   \* get_datasource

\* The master of d is known by its number only, and there is one of that number.
Unresolved(d) ==
  /\ place[d] = "listed" /\ master[d] = NoDS
  /\ wants[d] # NoNumber /\ wants[d] # number[d] /\ ByNumber(wants[d]) # {}

Depend(d, t, old, lazy) ==
  [this |-> d, target |-> t, tmp |-> t, seen |-> {}, old |-> old, lazy |-> lazy]

Top == stack[Len(stack)]

\* Faulty variant: only the new master itself is compared.
CircularFirst(f) == f.target = f.this

Circular(f) == f.tmp = f.this

\* Faulty variant: the walk starts at the new master again and again.
ClimbedFromTarget(f, m) == [f EXCEPT !.seen = @ \cup {f.tmp}, !.tmp = m[f.target]]

\* tmp=tmp->depending_on()
Climbed(f, m) == [f EXCEPT !.seen = @ \cup {f.tmp}, !.tmp = m[f.tmp]]

\* The topmost call returns: the walk below, which it was looking up a master
\* for, goes on.
Returned(m) ==
  LET n == Len(stack) - 1
  IN  [i \in 1..n |-> IF i = n THEN Climbed(stack[i], m) ELSE stack[i]]

\* Faulty variant: a refused number is kept.
RestoredNever(f) == wants

Restored(f) == [wants EXCEPT ![f.this] = f.old]

\* depending_ds_remove()
Unlinked(d) ==
  [x \in DS |-> [e \in DS |-> IF e = d /\ x = master[d] THEN 0 ELSE informed[x][e]]]

\* while(tmp): the walk is at a datasource
AtDatasource == stack # <<>> /\ Top.tmp # NoDS

Refuse ==
  /\ AtDatasource /\ Circular(Top)
  /\ wants' = Restored(Top)
  /\ stack' = Returned(master)
  /\ UNCHANGED <<client, place, number, tree, counter, file, asked>>

Climb ==
  /\ AtDatasource /\ ~Circular(Top) /\ ~Unresolved(Top.tmp)
  /\ stack' = [stack EXCEPT ![Len(stack)] = Climbed(Top, master)]
  /\ UNCHANGED <<client, place, number, wants, tree, counter, file, asked>>

\* depending_on() of a datasource whose pointer is not known yet
LookUp ==
  /\ AtDatasource /\ ~Circular(Top) /\ Unresolved(Top.tmp)
  /\ Len(stack) < MaxDepth
  /\ \E t \in ByNumber(wants[Top.tmp]) :
       stack' = Append(stack, Depend(Top.tmp, t, wants[Top.tmp], TRUE))
  /\ UNCHANGED <<client, place, number, wants, tree, counter, file, asked>>

Attach ==
  /\ stack # <<>> /\ Top.tmp = NoDS
  /\ LET d == Top.this
         t == Top.target
     IN  /\ master' = [master EXCEPT ![d] = t]
         /\ informed' = [Unlinked(d) EXCEPT ![t][d] = @ + 1]
         /\ asked' = IF Top.lazy THEN asked ELSE [asked EXCEPT ![d] = t]
  /\ stack' = Returned(master')
  /\ UNCHANGED <<client, place, number, wants, counter, file>>

Walk == Refuse \/ Climb \/ LookUp \/ Attach

-----------------------------------------------------------------------------
(* The calls of the client.  The library is single threaded: no call begins *)
(* before the one under way has returned.                                  *)

Call(c) == c \in client /\ stack = <<>>

\* Faulty variant: the first number that is free.
LowestNumber == CHOOSE n \in 0..counter : ByNumber(n) = {} /\ \A k \in 0..(n - 1) : ByNumber(k) # {}

NextNumber == counter

New(d) ==
  /\ Call("new") /\ place[d] = "none" /\ d \notin DOMAIN file
  /\ counter <= MaxNumber
  /\ place' = [place EXCEPT ![d] = "listed"]
  /\ number' = [number EXCEPT ![d] = NextNumber]
  /\ counter' = counter + 1
  /\ UNCHANGED <<client, wants, tree, file, asked, stack>>

\* set_depending_on_presentationdatasource(): the number is set at once, and set
\* back when the call is refused.  A client that waits until the datasources
\* have been enabled, which looks up their masters, is worth a name.
SetMaster(d) ==
  /\ Call(IF \E e \in DS : Unresolved(e) THEN "setearly" ELSE "set")
  /\ place[d] = "listed"
  /\ \E t \in DS : /\ place[t] = "listed" /\ number[t] # number[d]
                   /\ \E x \in ByNumber(number[t]) :
                        stack' = <<Depend(d, x, wants[d], FALSE)>>
                   /\ wants' = [wants EXCEPT ![d] = number[t]]
  /\ UNCHANGED <<client, place, number, tree, counter, file, asked>>

ClearMaster(d) ==
  /\ Call("clear") /\ place[d] = "listed"
  /\ wants' = [wants EXCEPT ![d] = NoNumber]
  /\ informed' = Unlinked(d)
  /\ master' = [master EXCEPT ![d] = NoDS]
  /\ asked' = [asked EXCEPT ![d] = NoDS]
  /\ UNCHANGED <<client, place, number, counter, file, stack>>

\* depending_on(), and enable() before it does anything else
Resolve(d) ==
  /\ Call("enable") /\ Unresolved(d)
  /\ \E t \in ByNumber(wants[d]) : stack' = <<Depend(d, t, wants[d], TRUE)>>
  /\ UNCHANGED <<client, place, number, wants, tree, counter, file, asked>>

\* before_source_vanishes(): the table of d is deleted.  The presentation forgets
\* d, d and its details do not forget each other.
Vanish(d) ==
  /\ Call("vanish") /\ place[d] = "listed"
  /\ place' = [place EXCEPT ![d] = "vanished"]
  /\ UNCHANGED <<client, number, wants, tree, counter, file, asked, stack>>

\* Faulty variant: the details keep their pointers.
OrphanedNever(d) == [master EXCEPT ![d] = NoDS]

\* ~hk_datasource goes through p_dependinglist.
Orphaned(d) == [e \in DS |-> IF e = d \/ informed[d][e] > 0 THEN NoDS ELSE master[e]]

Destroyed(d) == [Unlinked(d) EXCEPT ![d] = [e \in DS |-> 0]]

\* The details keep the number of the master that is gone.
Destroy(d) ==
  /\ Call(IF \E e \in DS : place[e] = "listed" /\ wants[e] = number[d] THEN "destroymaster" ELSE "destroy")
  /\ Exists(d)
  /\ place' = [place EXCEPT ![d] = "gone"]
  /\ master' = Orphaned(d)
  /\ informed' = Destroyed(d)
  /\ UNCHANGED <<client, number, wants, counter, file, asked, stack>>

Save ==
  /\ Call("save")
  /\ file' = [d \in { x \in DS : place[x] = "listed" } |->
                [number |-> number[d], wants |-> wants[d], asked |-> asked[d]]]
  /\ UNCHANGED <<client, place, number, wants, tree, counter, asked, stack>>

\* Faulty variant: the numbers loaded do not count.
CounterUnraised(c) == c = 0

\* Each datasource takes a number when it is created and gives it up for the one
\* it was saved with, which are in the order of the file.
CounterAfterLoading(c) ==
  /\ \A d \in DOMAIN file : file[d].number < c
  /\ c = 0 \/ \E d \in DOMAIN file : c = file[d].number + 1

\* The presentation is closed, which destroys what it lists, and opened from its
\* file by a new program.
Load ==
  /\ Call("load")
  /\ place' = [d \in DS |-> IF d \in DOMAIN file THEN "listed"
                            ELSE IF place[d] = "none" THEN "none" ELSE "gone"]
  /\ number' = [d \in DS |-> IF d \in DOMAIN file THEN file[d].number ELSE number[d]]
  /\ wants' = [d \in DS |-> IF d \in DOMAIN file THEN file[d].wants ELSE NoNumber]
  /\ asked' = [d \in DS |-> IF d \in DOMAIN file THEN file[d].asked ELSE NoDS]
  /\ master' = [d \in DS |-> NoDS]
  /\ informed' = [d \in DS |-> [e \in DS |-> 0]]
  /\ counter' \in 0..(MaxNumber + 1) /\ CounterAfterLoading(counter')
  /\ UNCHANGED <<client, file, stack>>

Init ==
  /\ client \in Clients
  /\ place = [d \in DS |-> "none"]
  /\ number = [d \in DS |-> 0] /\ counter = 0
  /\ wants = [d \in DS |-> NoNumber]
  /\ master = [d \in DS |-> NoDS]
  /\ informed = [d \in DS |-> [e \in DS |-> 0]]
  /\ file = [d \in {} |-> NoNumber]
  /\ asked = [d \in DS |-> NoDS]
  /\ stack = <<>>

Next == \/ Refuse \/ Climb \/ LookUp \/ Attach
        \/ \E d \in DS : \/ New(d) \/ SetMaster(d) \/ ClearMaster(d) \/ Resolve(d)
                         \/ Vanish(d) \/ Destroy(d)
        \/ Save \/ Load

\* A call under way goes on; nobody has to call.
Spec == Init /\ [][Next]_vars /\ WF_vars(Walk)

-----------------------------------------------------------------------------
(* Properties.                                                             *)

\* No datasource depends on itself through others, whatever masters the walk
\* looks up while it searches for a circle: every set of datasources has one
\* whose master is not in it.
Acyclic == \A S \in SUBSET DS : S # {} => \E d \in S : master[d] \notin S

\* A master and its details know each other: a detail is in the list of its
\* master, once, and in no other list, and no pointer leads to a datasource that
\* was deleted.
PointersAgree ==
  \A d, e \in DS : /\ informed[d][e] = (IF master[e] = d THEN 1 ELSE 0)
                   /\ master[e] = d => Exists(d) /\ Exists(e)

\* A number stands for one datasource of the presentation, also after loading.
NumbersUnique ==
  \A d, e \in DS : place[d] = "listed" /\ place[e] = "listed" /\ number[d] = number[e] => d = e

\* The number that would be saved is that of the master the datasource follows,
\* also after a refusal.
SavedAsShown ==
  stack = <<>> => \A d, m \in DS : place[d] = "listed" /\ place[m] = "listed" /\ master[d] = m
                                    => wants[d] = number[m]

\* A datasource follows the master that was set for it and never another one.
MasterAsAsked == stack = <<>> => \A d \in DS : master[d] \in {NoDS, asked[d]}

\* The search for a circle comes to an end and the call returns.
WalkReturns == stack # <<>> ~> stack = <<>>
=============================================================================
