----------------------------- MODULE ActionProofs -----------------------------
(***************************************************************************)
(* Proofs about the tree of actions of a job, about the locks of what its  *)
(* steps use, for every tree, and about the environments that the          *)
(* processes of its steps start with, for every job.                       *)
(***************************************************************************)
EXTENDS NestedActions, ActionLocks, StepEffects, FiniteSetTheorems, SequenceTheorems, WellFoundedInduction, TLAPS

\* A node and the composite actions it is in: what is in every set that has
\* the node and, with a node, the action it is in.
Closed(S) == \A m \in S : Parent[m] # 0 => Parent[m] \in S
Above(n) == {a \in Nodes : \A S \in SUBSET Nodes : n \in S /\ Closed(S) => a \in S}

\* The actions a walk is in, and what it is done with, at a place of it.
OpenAt(g, n) == IF g = "leave" THEN Above(n) ELSE Above(n) \ {n}
DoneAt(x, g, n) ==
    \/ g = "leave" /\ n \in Above(x)
    \/ \E a \in Above(x), b \in Above(n) : Parent[a] = Parent[b] /\ a < b

Pre(n) == <<"pre", n>>
PreFailures == {"pre"} \X Nodes
Failures == {"pre", "main"} \X Nodes

\* What the variables hold.
TreeTypeOK ==
    /\ walk \in {"pre", "main", "end", "over"} /\ going \in {"enter", "leave"} /\ node \in Nodes
    /\ forgiving \subseteq Nodes /\ jobCancelled \in BOOLEAN
    /\ joined \in [Nodes \cup {0} -> SUBSET Failures]
    /\ preFailed \subseteq Nodes
    /\ preErrors \in [Nodes -> SUBSET PreFailures]
    /\ pending \subseteq PreFailures
    /\ warned \in Seq(SUBSET Failures)

\* Errors are joined in the actions the walk is in, of what it is done with.
JoinedInv ==
    \A m \in Nodes : \A f \in joined[m] :
        /\ walk \in {"pre", "main"}
        /\ m \in OpenAt(going, node) /\ m \in Above(f[2])
        /\ DoneAt(f[2], going, node)
        /\ walk = "pre" => f \in PreFailures

\* The failure of a pre is in one of them.
JoinedOnce ==
    \A n \in Nodes : \A l, m \in Nodes : Pre(n) \in joined[l] /\ Pre(n) \in joined[m] => l = m

\* What waits for its main to be told of was forgiven by an action it is in, or
\* by itself, which is not a step.
PendingInv ==
    \A n \in Nodes : Pre(n) \in pending => \E a \in Above(n) : Parent[a] # 0 /\ a \in forgiving

\* The failures of pres that are told of are those of actions with one.
FailuresInv ==
    \A n \in Nodes \ preFailed :
        Pre(n) \notin pending /\ \A m \in Nodes : Pre(n) \notin joined[m] /\ Pre(n) \notin preErrors[m]

\* The error of the preparation of a step has the failures in that step.
PreErrorsInv ==
    \A r \in Nodes : \A f \in preErrors[r] : Parent[r] = 0 /\ Root(f[2]) = r

\* The walk of the pres.
PreparingInv ==
    walk = "pre" =>
        /\ joined[0] = {} /\ warned = <<>>
        /\ \A r \in Nodes : preErrors[r] # {} => r < Root(node)
        /\ \A n \in preFailed : DoneAt(n, going, node)

\* The walk of the mains has got into the step, or past it.
Entered(r) ==
    \/ walk \in {"end", "over"}
    \/ walk = "main" /\ r < Root(node)
    \/ walk = "main" /\ r = Root(node) /\ (going = "leave" \/ Parent[node] # 0)

\* Before, the failure is in one place.
InAction(n) == \E m \in Nodes : Pre(n) \in joined[m]
Waiting(n) ==
    /\ Pre(n) \notin joined[0] /\ Reports(Pre(n)) = {}
    /\ \/ walk = "pre" /\ InAction(n) /\ Pre(n) \notin pending /\ Pre(n) \notin preErrors[Root(n)]
       \/ ~InAction(n) /\ Pre(n) \in pending /\ Pre(n) \notin preErrors[Root(n)]
       \/ ~InAction(n) /\ Pre(n) \notin pending /\ Pre(n) \in preErrors[Root(n)]

\* From then on it waits to be told of, is told of or fails the job, and only
\* one of these unless the job or the step was cut short.
Clean(n) == ~jobCancelled /\ <<"main", Root(n)>> \notin expired
Known(n) == Pre(n) \in pending \/ Reports(Pre(n)) # {} \/ Pre(n) \in joined[0]
Untold(n) == Pre(n) \in pending /\ Reports(Pre(n)) = {} /\ Pre(n) \notin joined[0]
Once(n) ==
    \/ Untold(n)
    \/ Pre(n) \notin pending /\ (\E i \in DOMAIN warned : Reports(Pre(n)) = {i}) /\ Pre(n) \notin joined[0]
    \/ Pre(n) \notin pending /\ Reports(Pre(n)) = {} /\ Pre(n) \in joined[0]

FateInv ==
    \A n \in preFailed :
        /\ ~Entered(Root(n)) => Waiting(n)
        /\ Entered(Root(n)) => Known(n) /\ (Clean(n) => Once(n))

\* In the error of an action it still waits: nothing it got through forgives it.
MeetInv ==
    walk = "main" =>
      \A n \in preFailed : \A m \in Nodes :
        Pre(n) \in joined[m] /\ Clean(n) =>
            /\ Pre(n) \in pending
            /\ \A a \in Above(n) \ Above(m) : Parent[a] # 0 => a \notin forgiving

\* What a step that is walked has not come to yet waits to be told of.
AheadInv ==
    walk = "main" =>
      \A n \in preFailed : Entered(Root(n)) /\ ~DoneAt(n, going, node) => Untold(n)

OverInv == walk = "over" => pending = {}

TreeInv ==
    /\ TreeTypeOK /\ JoinedInv /\ JoinedOnce /\ PendingInv /\ FailuresInv /\ PreErrorsInv /\ PreparingInv
    /\ FateInv /\ MeetInv /\ AheadInv /\ OverInv

-----------------------------------------------------------------------------
(* Natural numbers, and nodes.                                             *)

LEMMA BelowWellFounded == IsWellFoundedOn({ss \in Nat \X Nat : ss[1] < ss[2]}, Nat)
BY ONLY NatLessThanWellFounded DEF OpToRel

\* Every set of natural numbers has a least element.
LEMMA LeastNatural ==
    ASSUME NEW S \in SUBSET Nat, S # {}
    PROVE  \E m \in S : \A k \in S : m <= k
<1> DEFINE R == {ss \in Nat \X Nat : ss[1] < ss[2]}
<1>1. \A k, m \in Nat : <<k, m>> \in R <=> k < m
  OBVIOUS
<1>2. IsWellFoundedOn(R, Nat)
  BY BelowWellFounded
<1> HIDE DEF R
<1>3. PICK m \in S : \A k \in S : <<k, m>> \notin R
  BY <1>2, WFMin
<1>4. \A k \in S : m <= k
  <2> TAKE k \in S
  <2>1. ~ (k < m)
    BY <1>1, <1>3
  <2> QED
    BY <2>1
<1> QED
  BY <1>4

LEMMA MinOf ==
    ASSUME NEW S \in SUBSET Nat, S # {}
    PROVE  Min(S) \in S /\ \A k \in S : Min(S) <= k
BY LeastNatural DEF Min

LEMMA NodesAre ==
    /\ Nodes \subseteq Nat /\ 0 \notin Nodes /\ 1 \in Nodes /\ Parent[1] = 0
    /\ \A n \in Nodes : Parent[n] \in Nat /\ Parent[n] < n /\ (Parent[n] # 0 => Parent[n] \in Nodes)
<1>1. Parent \in Seq(Nat) /\ Len(Parent) \in Nat /\ Nodes = 1..Len(Parent) /\ Len(Parent) # 0
  BY TreeAssumption, EmptySeq, LenProperties DEF Nodes
<1>2. \A n \in Nodes : Parent[n] \in Nat /\ Parent[n] < n
  BY <1>1, TreeAssumption, ElementOfSeq
<1>3. 1 \in Nodes
  BY <1>1
<1>4. Parent[1] = 0
  BY <1>2, <1>3
<1> QED
  BY <1>1, <1>2, <1>3, <1>4

\* What holds of a node if it holds of the action it is in holds of all.
LEMMA NodeInduction ==
    ASSUME NEW S, \A n \in Nodes : (Parent[n] # 0 => Parent[n] \in S) => n \in S
    PROVE  Nodes \subseteq S
<1> SUFFICES ASSUME Nodes \ S # {}
             PROVE  FALSE
  OBVIOUS
<1>1. PICK n \in Nodes \ S : \A k \in Nodes \ S : n <= k
  BY LeastNatural, NodesAre
<1>2. Parent[n] # 0 => Parent[n] \in S
  BY <1>1, NodesAre
<1> QED
  BY <1>1, <1>2

LEMMA AboveClosed ==
    ASSUME NEW n \in Nodes
    PROVE  n \in Above(n) /\ Closed(Above(n)) /\ Above(n) \subseteq Nodes
BY NodesAre DEF Above, Closed

LEMMA AboveIn ==
    ASSUME NEW n, NEW S, S \subseteq Nodes, n \in S, Closed(S)
    PROVE  Above(n) \subseteq S
BY DEF Above

LEMMA AboveOf ==
    ASSUME NEW n \in Nodes, NEW a \in Above(n)
    PROVE  Above(a) \subseteq Above(n)
BY AboveClosed, AboveIn

LEMMA AboveStep ==
    ASSUME NEW n \in Nodes
    PROVE  Above(n) = {n} \cup (IF Parent[n] = 0 THEN {} ELSE Above(Parent[n]))
<1>1. CASE Parent[n] = 0
  <2>1. Closed({n})
    BY <1>1 DEF Closed
  <2> QED
    BY <1>1, <2>1, AboveClosed, AboveIn
<1>2. CASE Parent[n] # 0
  <2>1. Parent[n] \in Nodes
    BY <1>2, NodesAre
  <2>2. Closed({n} \cup Above(Parent[n])) /\ {n} \cup Above(Parent[n]) \subseteq Nodes
    BY <2>1, AboveClosed DEF Closed
  <2>3. Above(n) \subseteq {n} \cup Above(Parent[n])
    BY <2>2, AboveIn
  <2>4. n \in Above(n) /\ Parent[n] \in Above(n)
    BY <1>2, AboveClosed DEF Closed
  <2> QED
    BY <1>2, <2>3, <2>4, AboveOf
<1> QED
  BY <1>1, <1>2

LEMMA AboveBefore ==
    ASSUME NEW n \in Nodes, NEW a \in Above(n)
    PROVE  a <= n
<1>1. Closed({k \in Nodes : k <= n})
  BY NodesAre DEF Closed
<1> QED
  BY <1>1, AboveIn, NodesAre

\* A node is in one of some siblings at most.
LEMMA OneOfSiblings ==
    ASSUME NEW n \in Nodes, NEW a \in Above(n), NEW b \in Above(n), Parent[a] = Parent[b]
    PROVE  a = b
<1> DEFINE S == {k \in Nodes : \A c, d \in Above(k) : Parent[c] = Parent[d] => c = d}
<1>1. ASSUME NEW k \in Nodes, Parent[k] # 0 => Parent[k] \in S, NEW c \in Above(k), NEW d \in Above(k),
             Parent[c] = Parent[d], c # d, c = k
      PROVE  FALSE
  <2>1. Parent[k] # 0 /\ Parent[k] \in Nodes /\ d \in Above(Parent[k])
    BY <1>1, AboveStep, NodesAre
  <2>2. d <= Parent[k] /\ d \in Nodes
    BY <2>1, AboveBefore, AboveClosed
  <2> QED
    BY <1>1, <2>1, <2>2, NodesAre
<1>2. ASSUME NEW k \in Nodes, Parent[k] # 0 => Parent[k] \in S
      PROVE  k \in S
  <2>1. SUFFICES ASSUME NEW c \in Above(k), NEW d \in Above(k), Parent[c] = Parent[d], c # d
                 PROVE  FALSE
    OBVIOUS
  <2>2. c # k /\ d # k
    BY <1>1, <1>2, <2>1
  <2> QED
    BY <1>2, <2>1, <2>2, AboveStep
<1>3. Nodes \subseteq S
  BY <1>2, NodeInduction
<1> QED
  BY <1>3

LEMMA RootIs ==
    ASSUME NEW n \in Nodes
    PROVE  /\ Root(n) \in Nodes /\ Parent[Root(n)] = 0
           /\ Root(n) = IF Parent[n] = 0 THEN n ELSE Root(Parent[n])
<1> DEFINE Top(m) == CHOOSE r \in Above(m) : Parent[r] = 0
           Is(f) == f = [m \in Nodes |-> IF Parent[m] = 0 THEN m ELSE f[Parent[m]]]
           g == [m \in Nodes |-> Top(m)]
           root == CHOOSE f : Is(f)
           S == {m \in Nodes : \E r \in Above(m) : Parent[r] = 0}
<1>1. \A m \in Nodes : Root(m) = root[m]
  BY DEF Root
<1>2. Nodes \subseteq S
  <2>1. ASSUME NEW m \in Nodes, Parent[m] # 0 => Parent[m] \in S
        PROVE  m \in S
    BY <2>1, AboveStep
  <2> HIDE DEF S
  <2> QED
    BY <2>1, NodeInduction
<1>3. \A m \in Nodes : Top(m) \in Above(m) /\ Parent[Top(m)] = 0
  BY <1>2
<1>4. ASSUME NEW m \in Nodes
      PROVE  Top(m) = IF Parent[m] = 0 THEN m ELSE Top(Parent[m])
  <2>1. m \in Above(m) /\ Top(m) \in Above(m) /\ Parent[Top(m)] = 0
    BY <1>3, AboveClosed
  <2>2. Parent[m] # 0 => Parent[m] \in Nodes /\ Top(Parent[m]) \in Above(m) /\ Parent[Top(Parent[m])] = 0
    BY <1>3, AboveStep, NodesAre
  <2> HIDE DEF Top
  <2> QED
    BY <2>1, <2>2, OneOfSiblings
<1>5. Is(g)
  <2> HIDE DEF Top
  <2>1. \A m \in Nodes : Parent[m] # 0 => Parent[m] \in Nodes
    BY NodesAre
  <2>2. \A m \in Nodes : Top(m) = IF Parent[m] = 0 THEN m ELSE g[Parent[m]]
    BY <1>4, <2>1
  <2> QED
    BY <2>2
<1>6. Is(root)
  <2> HIDE DEF Is, g
  <2> QED
    BY <1>5
<1>7. \A m \in Nodes : root[m] = IF Parent[m] = 0 THEN m ELSE root[Parent[m]]
  BY ONLY <1>6
<1> HIDE DEF root
<1>8. Nodes \subseteq {m \in Nodes : root[m] \in Nodes /\ Parent[root[m]] = 0}
  <2> DEFINE T == {m \in Nodes : root[m] \in Nodes /\ Parent[root[m]] = 0}
  <2>1. ASSUME NEW m \in Nodes, Parent[m] # 0 => Parent[m] \in T
        PROVE  m \in T
    BY <1>7, <2>1
  <2> HIDE DEF T
  <2>2. Nodes \subseteq T
    BY <2>1, NodeInduction
  <2> QED
    BY <2>2 DEF T
<1> QED
  BY <1>1, <1>7, <1>8, NodesAre

\* All a node is in has its root.
LEMMA RootAbove ==
    ASSUME NEW n \in Nodes, NEW a \in Above(n)
    PROVE  Root(a) = Root(n)
<1> DEFINE S == {m \in Nodes : Root(m) = Root(n)}
<1>1. Closed(S)
  <2> SUFFICES ASSUME NEW m \in S, Parent[m] # 0 PROVE Parent[m] \in S
    BY DEF Closed
  <2> QED
    BY RootIs, NodesAre
<1>2. n \in S /\ S \subseteq Nodes
  OBVIOUS
<1> HIDE DEF S
<1>3. Above(n) \subseteq S
  BY <1>1, <1>2, AboveIn
<1> QED
  BY <1>3 DEF S

-----------------------------------------------------------------------------
(* The moves of a walk.                                                    *)

Goes(g, n, h, k) ==
    \/ h = "leave" /\ k = n
    \/ g = "enter" /\ h = "enter" /\ Parent[k] = n
    \/ h = "enter" /\ Parent[k] = Parent[n] /\ n < k
    \/ h = "leave" /\ Parent[n] = k

\* What a walk is done with it stays done with.
LEMMA DoneGrows ==
    ASSUME NEW n \in Nodes, NEW k \in Nodes, NEW x \in Nodes, NEW g, NEW h,
           Goes(g, n, h, k), DoneAt(x, g, n)
    PROVE  DoneAt(x, h, k)
<1>1. CASE h = "leave" /\ k = n
  BY <1>1 DEF DoneAt
<1>2. CASE g = "enter" /\ h = "enter" /\ Parent[k] = n
  <2>1. Above(n) \subseteq Above(k)
    BY <1>2, AboveStep, NodesAre
  <2> QED
    BY <1>2, <2>1 DEF DoneAt
<1>3. CASE h = "enter" /\ Parent[k] = Parent[n] /\ n < k
  <2>1. k \in Above(k) /\ n \in Above(n) /\ \A b \in Above(n) \ {n} : b \in Above(k)
    BY <1>3, AboveStep, AboveClosed, NodesAre
  <2>2. CASE g = "leave" /\ n \in Above(x)
    BY <1>3, <2>1, <2>2 DEF DoneAt
  <2>3. ASSUME NEW a \in Above(x), NEW b \in Above(n), Parent[a] = Parent[b], a < b
        PROVE  DoneAt(x, h, k)
    <3>1. CASE b = n
      <4>1. a \in Nat /\ n \in Nat /\ k \in Nat
        BY AboveClosed, NodesAre
      <4>2. a < k /\ Parent[a] = Parent[k]
        BY <1>3, <2>3, <3>1, <4>1
      <4> QED
        BY <2>1, <4>2 DEF DoneAt
    <3>2. CASE b # n
      BY <2>1, <2>3, <3>2 DEF DoneAt
    <3> QED
      BY <3>1, <3>2
  <2> QED
    BY <2>2, <2>3 DEF DoneAt
<1>4. CASE h = "leave" /\ Parent[n] = k
  <2>0. k # 0
    BY NodesAre
  <2>1. \A b \in Above(n) : b = n \/ b \in Above(k)
    BY <1>4, <2>0, AboveStep
  <2>2. ASSUME n \in Above(x)
        PROVE  k \in Above(x)
    BY <1>4, <2>0, <2>2, AboveClosed DEF Closed
  <2>3. ASSUME NEW a \in Above(x), Parent[a] = Parent[n]
        PROVE  k \in Above(x)
    BY <1>4, <2>0, <2>3, AboveClosed DEF Closed
  <2> QED
    BY <1>4, <2>1, <2>2, <2>3 DEF DoneAt
<1> QED
  BY <1>1, <1>2, <1>3, <1>4 DEF Goes

\* It stays in what it is in, but for the node it leaves.
LEMMA OpenStays ==
    ASSUME NEW n \in Nodes, NEW k \in Nodes, NEW g, NEW h, Goes(g, n, h, k),
           NEW m \in OpenAt(g, n), m = n => h = "leave" /\ k = n
    PROVE  m \in OpenAt(h, k)
<1>0. m \in Above(n) /\ (m = n => h = "leave" /\ k = n)
  BY DEF OpenAt
<1>1. CASE h = "leave" /\ k = n
  BY <1>0, <1>1 DEF OpenAt
<1>2. CASE g = "enter" /\ h = "enter" /\ Parent[k] = n
  <2>1. m \in Above(k) /\ m # k
    BY <1>0, <1>2, AboveStep, AboveBefore, NodesAre
  <2> QED
    BY <1>2, <2>1 DEF OpenAt
<1>3. CASE h = "enter" /\ Parent[k] = Parent[n] /\ n < k
  <2>1. m # n /\ m \in Above(k)
    BY <1>0, <1>3, AboveStep, NodesAre
  <2>2. m # k
    BY <1>0, <1>3, <2>1, AboveBefore, NodesAre
  <2> QED
    BY <1>3, <2>1, <2>2 DEF OpenAt
<1>4. CASE h = "leave" /\ Parent[n] = k
  <2>1. k # n /\ k # 0
    BY <1>4, NodesAre
  <2> QED
    BY <1>0, <1>4, <2>1, AboveStep DEF OpenAt
<1> QED
  BY <1>1, <1>2, <1>3, <1>4 DEF Goes

\* It is not done with a node it enters.
LEMMA NotDone ==
    ASSUME NEW n \in Nodes
    PROVE  ~DoneAt(n, "enter", n)
<1> SUFFICES ASSUME NEW a \in Above(n), NEW b \in Above(n), Parent[a] = Parent[b], a < b
             PROVE  FALSE
  BY DEF DoneAt
<1>1. a = b
  BY OneOfSiblings
<1>2. a \in Nat
  BY AboveClosed, NodesAre
<1> QED
  BY <1>1, <1>2

Place == node \in Nodes /\ going \in {"enter", "leave"}

LEMMA IntoGoes ==
    ASSUME Place, going = "enter", Into(node)
    PROVE  /\ Place' /\ walk' = walk /\ Goes(going, node, going', node') /\ Root(node') = Root(node)
           /\ going' = "leave" \/ Parent[node'] # 0
<1>1. CASE Children(node) = {}
  BY <1>1 DEF Into, Out, Goes, Place
<1>2. CASE Children(node) # {}
  <2>1. node' \in Nodes /\ Parent[node'] = node /\ going' = "enter" /\ walk' = walk
    BY <1>2, MinOf, NodesAre DEF Into, Children
  <2>2. Parent[node'] # 0
    BY <2>1, NodesAre DEF Place
  <2>3. Root(node') = Root(node)
    BY <2>1, <2>2, RootIs
  <2> QED
    BY <2>1, <2>2, <2>3 DEF Goes, Place
<1> QED
  BY <1>1, <1>2

\* The next place of a walk, or the end of it.
LEMMA OnwardGoes ==
    ASSUME Place, Onward(node)
    PROVE  /\ Place'
           /\ \/ /\ walk' = walk /\ Goes(going, node, going', node') /\ ~(going' = "leave" /\ node' = node)
                 /\ Parent[node'] # node
                 /\ IF Parent[node] # 0 THEN Root(node') = Root(node) /\ (going' = "leave" \/ Parent[node'] # 0)
                    ELSE /\ going' = "enter" /\ Parent[node'] = 0 /\ node < node'
                         /\ \A r \in Nodes : Parent[r] = 0 => r <= node \/ node' <= r
              \/ /\ Parent[node] = 0 /\ going' = "enter" /\ node' = 1
                 /\ walk' = (IF walk = "pre" THEN "main" ELSE "end")
                 /\ \A r \in Nodes : Parent[r] = 0 => r <= node
<1>0. node \in Nodes /\ node \in Nat
  BY NodesAre DEF Place
<1>1. CASE Later(node) # {}
  <2>1. node' \in Nodes /\ Parent[node'] = Parent[node] /\ node < node' /\ going' = "enter" /\ walk' = walk
        /\ \A r \in Later(node) : node' <= r
    BY <1>0, <1>1, MinOf, NodesAre DEF Onward, Later, Children
  <2>2. \A r \in Nodes : Parent[r] = Parent[node] => r <= node \/ node' <= r
    BY <1>0, <2>1, NodesAre DEF Later, Children
  <2>3. Parent[node] # 0 => Root(node') = Root(node)
    BY <1>0, <2>1, RootIs
  <2>4. Parent[node'] # node
    BY <1>0, <2>1, NodesAre
  <2> QED
    BY <2>1, <2>2, <2>3, <2>4 DEF Goes, Place
<1>2. CASE Later(node) = {} /\ Parent[node] # 0
  <2>1. Parent[node] \in Nodes /\ Parent[node] < node
    BY <1>0, <1>2, NodesAre
  <2>2. going' = "leave" /\ node' = Parent[node] /\ walk' = walk
    BY <1>2 DEF Onward
  <2>3. Root(node') = Root(node)
    BY <1>0, <1>2, <2>2, RootIs
  <2>4. Parent[node'] # node /\ node' # node
    BY <1>0, <2>1, <2>2, NodesAre
  <2> QED
    BY <1>0, <1>2, <2>1, <2>2, <2>3, <2>4 DEF Goes, Place
<1>3. CASE Later(node) = {} /\ Parent[node] = 0
  <2>1. going' = "enter" /\ node' = 1 /\ walk' = (IF walk = "pre" THEN "main" ELSE "end")
    BY <1>3 DEF Onward
  <2>2. \A r \in Nodes : Parent[r] = 0 => r <= node
    BY <1>0, <1>3, NodesAre DEF Later, Children
  <2> QED
    BY <1>3, <2>1, <2>2, NodesAre DEF Place
<1> QED
  BY <1>1, <1>2, <1>3

\* A move of the walk of the mains is into the step it is at, in it or past it.
LEMMA MainMoves ==
    ASSUME Place, walk = "main", Out(node) \/ (going = "enter" /\ Into(node)) \/ Onward(node),
           NEW r \in Nodes, Parent[r] = 0
    PROVE  Entered(r)' <=> Entered(r) \/ r = Root(node)
<1>0. /\ node \in Nodes /\ node \in Nat /\ r \in Nat /\ Root(node) \in Nodes /\ Parent[Root(node)] = 0
      /\ Root(node) \in Nat /\ (Parent[node] = 0 => Root(node) = node)
  BY NodesAre, RootIs DEF Place
<1>1. CASE Out(node) \/ (going = "enter" /\ Into(node))
  <2>1. walk' = "main" /\ node' \in Nodes /\ Root(node') = Root(node) /\ (going' = "leave" \/ Parent[node'] # 0)
    BY <1>1, IntoGoes DEF Out, Place
  <2> QED
    BY <1>0, <2>1 DEF Entered
<1>2. CASE Onward(node)
  <2>1. CASE walk' = walk /\ Parent[node] # 0
    <3>1. Root(node') = Root(node) /\ (going' = "leave" \/ Parent[node'] # 0)
      BY <1>2, <2>1, OnwardGoes
    <3> QED
      BY <1>0, <2>1, <3>1 DEF Entered
  <2>2. CASE walk' = walk /\ Parent[node] = 0
    <3>1. /\ going' = "enter" /\ Parent[node'] = 0 /\ node < node' /\ node' \in Nodes
          /\ r <= node \/ node' <= r
      BY <1>0, <1>2, <2>2, OnwardGoes DEF Place
    <3>2. Root(node') = node' /\ node' \in Nat
      BY <3>1, RootIs, NodesAre
    <3> QED
      BY <1>0, <2>2, <3>1, <3>2 DEF Entered
  <2>3. CASE walk' # walk
    <3>1. walk' = "end" /\ r <= node /\ Parent[node] = 0
      BY <1>0, <1>2, <2>3, OnwardGoes
    <3> QED
      BY <1>0, <3>1 DEF Entered
  <2> QED
    BY <2>1, <2>2, <2>3
<1> QED
  BY <1>1, <1>2

-----------------------------------------------------------------------------
(* Types.                                                                  *)

LEMMA SetToSeqOf ==
    ASSUME NEW S, IsFiniteSet(S)
    PROVE  /\ SetToSeq(S) \in Seq(S)
           /\ \A x \in S : \E i \in DOMAIN SetToSeq(S) : SetToSeq(S)[i] = x
           /\ \A i, j \in DOMAIN SetToSeq(S) : SetToSeq(S)[i] = SetToSeq(S)[j] => i = j
<1> DEFINE N == Cardinality(S)
           s == SetToSeq(S)
<1>1. N \in Nat /\ \E f : f \in Bijection(1..N, S)
  BY FS_CardinalityType DEF ExistsBijection
<1>2. \E f \in [1..N -> S] : IsInjective(f)
  BY <1>1 DEF Bijection, Injection
<1>3. s \in [1..N -> S] /\ IsInjective(s)
  BY <1>2 DEF SetToSeq
<1> HIDE DEF s
<1>4. IsFiniteSet(1..N) /\ Cardinality(1..N) = N
  BY <1>1, FS_Interval
<1>5. s \in Surjection(1..N, S)
  BY <1>3, <1>4, FS_Injection DEF Injection
<1>6. s \in Seq(S) /\ DOMAIN s = 1..N
  BY <1>1, <1>3
<1>7. \A x \in S : \E i \in DOMAIN s : s[i] = x
  BY <1>5, <1>6 DEF Surjection
<1>8. \A i, j \in DOMAIN s : s[i] = s[j] => i = j
  BY <1>3 DEF IsInjective
<1> QED
  BY <1>6, <1>7, <1>8 DEF s

\* What is told of at the end, each failure by itself.
LEMMA FlushedSeq ==
    ASSUME NEW P \in SUBSET PreFailures
    PROVE  IsFiniteSet({{f} : f \in P})
<1>1. IsFiniteSet(Nodes)
  BY TreeAssumption, FS_Interval DEF Nodes
<1>2. IsFiniteSet({"pre"})
  BY FS_Singleton
<1>3. IsFiniteSet(PreFailures)
  BY <1>1, <1>2, FS_Product DEF PreFailures
<1>4. IsFiniteSet(P)
  BY <1>3, FS_Subset
<1> DEFINE T == {{f} : f \in P}
           b == [f \in P |-> {f}]
<1>5. b \in [P -> T] /\ (\A f, g \in P : b[f] = b[g] => f = g) /\ \A s \in T : \E f \in P : b[f] = s
  OBVIOUS
<1> HIDE DEF T, b
<1>6. b \in Bijection(P, T)
  BY <1>5, Zenon DEF Bijection, Injection, Surjection, IsInjective
<1>7. ExistsBijection(P, T)
  BY <1>6 DEF ExistsBijection
<1> QED
  BY <1>4, <1>7, FS_Bijection DEF T

LEMMA ConcludeTypes ==
    ASSUME TreeTypeOK, NEW n \in Nodes, NEW error \in SUBSET Failures, NEW forgiven, Conclude(n, error, forgiven)
    PROVE  /\ joined' \in [Nodes \cup {0} -> SUBSET Failures]
           /\ pending' \subseteq PreFailures
           /\ warned' \in Seq(SUBSET Failures)
<1>0. Parent[n] \in Nodes \cup {0} /\ n \in Nodes \cup {0}
  BY NodesAre
<1>1. CASE error = {}
  BY <1>1 DEF Conclude, TreeTypeOK
<1>2. CASE error # {} /\ forgiven
  BY <1>0, <1>2 DEF Conclude, TreeTypeOK, Consumed
<1>3. CASE error # {} /\ ~forgiven
  BY <1>0, <1>3 DEF Conclude, TreeTypeOK
<1> QED
  BY <1>1, <1>2, <1>3 DEF Conclude

LEMMA TreeTypeStep ==
    ASSUME TreeTypeOK, [TreeNext]_treeVars
    PROVE  TreeTypeOK'
<1>0. Place
  BY DEF TreeTypeOK, Place
<1>o. ASSUME Onward(node), walk \in {"pre", "main"}
      PROVE  walk' \in {"pre", "main", "end", "over"} /\ going' \in {"enter", "leave"} /\ node' \in Nodes
  BY <1>0, <1>o, OnwardGoes DEF Place
<1>i. ASSUME (going = "enter" /\ Into(node)) \/ Out(node), walk \in {"pre", "main"}
      PROVE  walk' \in {"pre", "main", "end", "over"} /\ going' \in {"enter", "leave"} /\ node' \in Nodes
  BY <1>0, <1>i, IntoGoes DEF Place, Out
<1>p. Parent[node] \in Nodes \cup {0} /\ node \in Nodes \cup {0}
  BY <1>0, NodesAre DEF Place
<1>1. CASE SkipPre
  BY <1>1, <1>o DEF SkipPre, At, TreeTypeOK
<1>2. CASE EnterPre
  BY <1>2, <1>i DEF EnterPre, At, TreeTypeOK
<1>3. CASE RunPre
  <2>1. {<<"pre", node>>} \in SUBSET Failures
    BY <1>0 DEF Failures, Place
  <2>2. joined' \in [Nodes \cup {0} -> SUBSET Failures]
    BY <1>3, <1>p, <2>1 DEF RunPre, Failing, TreeTypeOK
  <2> QED
    BY <1>3, <1>0, <1>i, <2>2 DEF RunPre, At, TreeTypeOK, Place
<1>4. CASE LeavePre
  <2>1. joined[node] \in SUBSET Failures
    BY <1>p DEF TreeTypeOK
  <2>2. joined' \in [Nodes \cup {0} -> SUBSET Failures]
    BY <1>4, <1>p, <2>1 DEF LeavePre, TreeTypeOK
  <2> QED
    BY <1>4, <1>0, <1>o, <2>2 DEF LeavePre, At, TreeTypeOK, Place
<1>5. CASE MeetPreFailure
  <2>1. preErrors[node] \in SUBSET Failures /\ {<<"pre", node>>} \in SUBSET Failures
    BY <1>0 DEF TreeTypeOK, Place, Failures, PreFailures
  <2>2. /\ joined' \in [Nodes \cup {0} -> SUBSET Failures] /\ pending' \subseteq PreFailures
        /\ warned' \in Seq(SUBSET Failures)
    BY <1>5, <1>0, <2>1, ConcludeTypes DEF MeetPreFailure, Place
  <2> QED
    BY <1>5, <1>o, <2>2 DEF MeetPreFailure, At, TreeTypeOK
<1>6. CASE SkipMain
  BY <1>6, <1>o DEF SkipMain, At, TreeTypeOK
<1>7. CASE EnterMain
  BY <1>7, <1>i DEF EnterMain, At, TreeTypeOK
<1>8. CASE RunMain
  <2>1. {<<"main", node>>} \in SUBSET Failures
    BY <1>0 DEF Failures, Place
  <2>2. joined' \in [Nodes \cup {0} -> SUBSET Failures]
    BY <1>8, <1>p, <2>1 DEF RunMain, Failing, TreeTypeOK
  <2> QED
    BY <1>8, <1>i, <2>2 DEF RunMain, At, TreeTypeOK
<1>9. CASE LeaveMain
  <2>1. joined[node] \in SUBSET Failures /\ {<<"main", node>>} \in SUBSET Failures
    BY <1>0, <1>p DEF TreeTypeOK, Place, Failures
  <2>2. /\ joined' \in [Nodes \cup {0} -> SUBSET Failures] /\ pending' \subseteq PreFailures
        /\ warned' \in Seq(SUBSET Failures)
    <3>1. PICK own \in {{}, {<<"main", node>>}} : Conclude(node, joined[node] \cup own, Forgiven(node))
      BY <1>9 DEF LeaveMain
    <3>2. joined[node] \cup own \in SUBSET Failures
      BY <2>1
    <3> QED
      BY <1>0, <3>1, <3>2, ConcludeTypes DEF Place
  <2> QED
    BY <1>9, <1>o, <2>2 DEF LeaveMain, At, TreeTypeOK
<1>10. CASE Flush
  <2> DEFINE s == SetToSeq({{f} : f \in pending})
  <2>1. s \in Seq({{f} : f \in pending})
    BY FlushedSeq, SetToSeqOf DEF TreeTypeOK
  <2>2. {{f} : f \in pending} \subseteq SUBSET Failures
    BY DEF TreeTypeOK, PreFailures, Failures
  <2> HIDE DEF s
  <2>3. s \in Seq(SUBSET Failures)
    BY <2>1, <2>2
  <2>4. warned' = warned \o s
    BY <1>10 DEF Flush, s
  <2>5. warned' \in Seq(SUBSET Failures)
    BY <2>3, <2>4 DEF TreeTypeOK
  <2> QED
    BY <1>10, <2>5 DEF Flush, TreeTypeOK
<1>11. CASE Cancel
  BY <1>11 DEF Cancel, TreeTypeOK
<1>12. CASE StepExpires
  BY <1>12 DEF StepExpires, TreeTypeOK
<1>13. CASE TreeWalked \/ UNCHANGED treeVars
  BY <1>13 DEF TreeWalked, treeVars, TreeTypeOK
<1> QED
  BY <1>1, <1>2, <1>3, <1>4, <1>5, <1>6, <1>7, <1>8, <1>9, <1>10, <1>11, <1>12, <1>13 DEF TreeNext

-----------------------------------------------------------------------------
(* Where failures are joined.                                              *)

LEMMA FailureOf ==
    ASSUME TreeTypeOK, NEW m \in Nodes, NEW f \in joined[m]
    PROVE  f \in Failures /\ f[2] \in Nodes
BY DEF TreeTypeOK, Failures

\* At the end of a walk, at a step, nothing is joined but in that step.
LEMMA OpenStep ==
    ASSUME NEW n \in Nodes, Parent[n] = 0, NEW g, NEW m \in OpenAt(g, n)
    PROVE  m = n /\ g = "leave"
BY AboveStep DEF OpenAt

LEMMA JoinedMoves ==
    ASSUME TreeTypeOK, TreeTypeOK', JoinedInv, walk \in {"pre", "main"},
           \/ walk' = walk /\ Goes(going, node, going', node')
           \/ walk' # walk /\ Parent[node] = 0,
           \A m \in Nodes : \A f \in joined'[m] :
               \/ f \in joined[m] /\ (m = node => going' = "leave" /\ node' = node /\ walk' = walk)
               \/ /\ walk' = walk /\ m \in OpenAt(going', node') /\ m \in Above(f[2])
                  /\ DoneAt(f[2], going', node') /\ (walk = "pre" => f \in PreFailures)
    PROVE  JoinedInv'
<1>0. node \in Nodes /\ node' \in Nodes
  BY DEF TreeTypeOK
<1> SUFFICES ASSUME NEW m \in Nodes, NEW f \in joined'[m]
             PROVE  /\ walk' \in {"pre", "main"} /\ m \in OpenAt(going', node') /\ m \in Above(f[2])
                    /\ DoneAt(f[2], going', node') /\ (walk' = "pre" => f \in PreFailures)
  BY DEF JoinedInv
<1>1. CASE f \in joined[m] /\ (m = node => going' = "leave" /\ node' = node /\ walk' = walk)
  <2>1. /\ m \in OpenAt(going, node) /\ m \in Above(f[2]) /\ DoneAt(f[2], going, node)
        /\ walk = "pre" => f \in PreFailures
    BY <1>1 DEF JoinedInv
  <2>2. f[2] \in Nodes
    BY <1>1, FailureOf
  <2>3. walk' = walk /\ Goes(going, node, going', node')
    BY <1>0, <1>1, <2>1, OpenStep
  <2>4. DoneAt(f[2], going', node')
    BY <1>0, <2>1, <2>2, <2>3, DoneGrows
  <2>5. m \in OpenAt(going', node')
    BY <1>0, <1>1, <2>1, <2>3, OpenStays
  <2> QED
    BY <2>1, <2>3, <2>4, <2>5
<1>2. CASE /\ walk' = walk /\ m \in OpenAt(going', node') /\ m \in Above(f[2])
           /\ DoneAt(f[2], going', node') /\ (walk = "pre" => f \in PreFailures)
  BY <1>2
<1> QED
  BY <1>1, <1>2

\* What was joined in the node that is left, and is joined in that around it.
LEMMA JoinedAround ==
    ASSUME TreeTypeOK, TreeTypeOK', JoinedInv, walk \in {"pre", "main"}, going = "leave", Parent[node] # 0,
           walk' = walk, Goes(going, node, going', node'), ~(going' = "leave" /\ node' = node),
           NEW f \in joined[node] \cup {<<"main", node>>}
    PROVE  /\ Parent[node] \in OpenAt(going', node') /\ Parent[node] \in Above(f[2])
           /\ DoneAt(f[2], going', node')
<1>0. node \in Nodes /\ node' \in Nodes /\ Parent[node] \in Nodes /\ Parent[node] # node
  BY NodesAre DEF TreeTypeOK
<1>1. f[2] \in Nodes /\ node \in Above(f[2])
  <2>1. CASE f = <<"main", node>>
    BY <1>0, <2>1, AboveClosed
  <2>2. CASE f \in joined[node]
    BY <1>0, <2>2, FailureOf DEF JoinedInv
  <2> QED
    BY <2>1, <2>2
<1>2. DoneAt(f[2], going, node)
  BY <1>1 DEF DoneAt
<1>3. DoneAt(f[2], going', node')
  BY <1>0, <1>1, <1>2, DoneGrows
<1>4. Parent[node] \in Above(node) /\ Parent[node] \in Above(f[2])
  BY <1>0, <1>1, AboveClosed DEF Closed
<1>5. Parent[node] \in OpenAt(going, node)
  BY <1>4 DEF OpenAt
<1> QED
  BY <1>0, <1>3, <1>4, <1>5, OpenStays

\* The same of the failure of a pre that is met.
LEMMA JoinedMet ==
    ASSUME TreeTypeOK, TreeTypeOK', going = "enter", Parent[node] # 0,
           Goes(going, node, going', node'), ~(going' = "leave" /\ node' = node), Parent[node'] # node
    PROVE  /\ Parent[node] \in OpenAt(going', node') /\ Parent[node] \in Above(node)
           /\ DoneAt(node, going', node')
<1>0. node \in Nodes /\ node' \in Nodes /\ Parent[node] \in Nodes /\ Parent[node] # node
  BY NodesAre DEF TreeTypeOK
<1>1. Parent[node] \in Above(node) /\ node \in Above(node)
  BY <1>0, AboveClosed DEF Closed
<1>2. Parent[node] \in OpenAt(going', node')
  BY <1>0, <1>1, OpenStays DEF OpenAt
<1>3. CASE going' = "enter" /\ Parent[node'] = Parent[node] /\ node < node'
  BY <1>0, <1>1, <1>2, <1>3, AboveClosed DEF DoneAt
<1>4. CASE going' = "leave" /\ Parent[node] = node'
  BY <1>1, <1>2, <1>4 DEF DoneAt
<1> QED
  BY <1>1, <1>2, <1>3, <1>4 DEF Goes

LEMMA JoinedStep ==
    ASSUME TreeTypeOK, TreeTypeOK', JoinedInv, [TreeNext]_treeVars
    PROVE  JoinedInv'
<1>0. Place /\ node \in Nodes /\ node' \in Nodes /\ Parent[node] \in Nodes \cup {0} /\ Parent[node] # node
  BY NodesAre DEF TreeTypeOK, Place
<1>o. ASSUME Onward(node), walk \in {"pre", "main"}
      PROVE  /\ \/ walk' = walk /\ Goes(going, node, going', node') /\ ~(going' = "leave" /\ node' = node)
                   /\ Parent[node'] # node
                \/ walk' # walk /\ Parent[node] = 0
             /\ Parent[node] # 0 => walk' = walk
  BY <1>0, <1>o, OnwardGoes
<1>q. ASSUME walk \in {"pre", "main"}, going = "enter" /\ (Into(node) \/ Onward(node)), joined' = joined
      PROVE  JoinedInv'
  <2>1. \A m \in Nodes : \A f \in joined[m] : m # node
    BY <1>q DEF JoinedInv, OpenAt
  <2>2. \/ walk' = walk /\ Goes(going, node, going', node')
        \/ walk' # walk /\ Parent[node] = 0
    BY <1>0, <1>o, <1>q, IntoGoes
  <2> QED
    BY <1>q, <2>1, <2>2, JoinedMoves
<1>r. ASSUME walk \in {"pre", "main"}, Out(node), NEW f \in Failures, f[2] = node, walk = "pre" => f \in PreFailures,
             \A m \in Nodes : joined'[m] \subseteq joined[m] \cup (IF m = node THEN {f} ELSE {})
      PROVE  JoinedInv'
  <2>1. walk' = walk /\ Goes(going, node, going', node') /\ going' = "leave" /\ node' = node
    BY <1>r DEF Out, Goes
  <2>2. node \in OpenAt(going', node') /\ node \in Above(f[2]) /\ DoneAt(f[2], going', node')
    BY <1>0, <1>r, <2>1, AboveClosed DEF OpenAt, DoneAt
  <2>3. \A m \in Nodes : \A e \in joined'[m] : e \in joined[m] \/ (m = node /\ e = f)
    BY <1>r
  <2> QED
    BY <1>r, <2>1, <2>2, <2>3, JoinedMoves
<1>1. CASE SkipPre \/ EnterPre
  BY <1>1, <1>q DEF SkipPre, EnterPre, At
<1>2. CASE SkipMain \/ EnterMain
  BY <1>2, <1>q DEF SkipMain, EnterMain, At
<1>3. CASE RunPre
  <2>1. <<"pre", node>> \in PreFailures /\ <<"pre", node>> \in Failures
    BY <1>0 DEF PreFailures, Failures
  <2>2. \A m \in Nodes : joined'[m] \subseteq joined[m] \cup (IF m = node THEN {<<"pre", node>>} ELSE {})
    BY <1>3 DEF RunPre, Failing, TreeTypeOK
  <2> QED
    BY <1>3, <1>r, <2>1, <2>2 DEF RunPre, At
<1>4. CASE LeavePre
  <2>1. walk = "pre" /\ going = "leave" /\ Onward(node)
    BY <1>4 DEF LeavePre, At
  <2>2. \A m \in Nodes : joined'[m] \subseteq IF m = node THEN {} ELSE joined[m] \cup (IF m = Parent[node] THEN joined[node] ELSE {})
    BY <1>0, <1>4 DEF LeavePre, TreeTypeOK
  <2>3. ASSUME NEW m \in Nodes, NEW f \in joined'[m]
        PROVE  \/ f \in joined[m] /\ m # node
               \/ m = Parent[node] /\ f \in joined[node] /\ Parent[node] # 0
    BY <2>2, <2>3, <1>0, NodesAre
  <2>4. ASSUME Parent[node] # 0, NEW f \in joined[node]
        PROVE  /\ walk' = walk /\ Parent[node] \in OpenAt(going', node') /\ Parent[node] \in Above(f[2])
               /\ DoneAt(f[2], going', node') /\ f \in PreFailures
    <3>1. f \in PreFailures
      BY <1>0, <2>1 DEF JoinedInv
    <3> QED
      BY <1>o, <2>1, <2>4, <3>1, JoinedAround
  <2> QED
    BY <1>o, <2>1, <2>3, <2>4, JoinedMoves
<1>5. CASE MeetPreFailure
  <2>1. walk = "main" /\ going = "enter" /\ Onward(node)
    BY <1>5 DEF MeetPreFailure, At
  <2>2. \A m \in Nodes : m # node => joined'[m] \subseteq joined[m] \cup (IF m = Parent[node] THEN {<<"pre", node>>} ELSE {})
    BY <1>0, <1>5, NodesAre DEF MeetPreFailure, Conclude, TreeTypeOK
  <2>3. joined[node] = {} /\ joined'[node] = {}
    <3>1. joined[node] = {}
      BY <1>0, <2>1 DEF JoinedInv, OpenAt
    <3> QED
      BY <1>0, <1>5, <3>1, NodesAre DEF MeetPreFailure, Conclude, TreeTypeOK
  <2>4. ASSUME NEW m \in Nodes, NEW f \in joined'[m]
        PROVE  \/ f \in joined[m] /\ m # node
               \/ m = Parent[node] /\ f = <<"pre", node>> /\ Parent[node] # 0
    BY <2>2, <2>3, <2>4, <1>0, NodesAre
  <2>5. ASSUME Parent[node] # 0
        PROVE  /\ walk' = walk /\ Parent[node] \in OpenAt(going', node') /\ Parent[node] \in Above(node)
               /\ DoneAt(node, going', node')
    BY <1>o, <2>1, <2>5, JoinedMet
  <2>6. <<"pre", node>>[2] = node
    OBVIOUS
  <2> QED
    BY <1>o, <2>1, <2>4, <2>5, <2>6, JoinedMoves
<1>6. CASE RunMain
  <2>1. <<"main", node>> \in Failures
    BY <1>0 DEF Failures
  <2>2. \A m \in Nodes : joined'[m] \subseteq joined[m] \cup (IF m = node THEN {<<"main", node>>} ELSE {})
    BY <1>6 DEF RunMain, Failing, TreeTypeOK
  <2> QED
    BY <1>6, <1>r, <2>1, <2>2 DEF RunMain, At
<1>7. CASE LeaveMain
  <2>1. walk = "main" /\ going = "leave" /\ Onward(node)
    BY <1>7 DEF LeaveMain, At
  <2>2. PICK own \in {{}, {<<"main", node>>}} : Conclude(node, joined[node] \cup own, Forgiven(node))
    BY <1>7 DEF LeaveMain
  <2>3. /\ joined'[node] = {}
        /\ \A m \in Nodes : m # node =>
              joined'[m] \subseteq joined[m] \cup (IF m = Parent[node] THEN joined[node] \cup {<<"main", node>>} ELSE {})
    <3>1. CASE joined[node] \cup own = {}
      BY <2>2, <3>1 DEF Conclude
    <3>2. CASE joined[node] \cup own # {}
      BY <1>0, <2>2, <3>2 DEF Conclude, TreeTypeOK
    <3> QED
      BY <3>1, <3>2
  <2>4. ASSUME NEW m \in Nodes, NEW f \in joined'[m]
        PROVE  \/ f \in joined[m] /\ m # node
               \/ m = Parent[node] /\ f \in joined[node] \cup {<<"main", node>>} /\ Parent[node] # 0
    BY <2>3, <2>4, <1>0, NodesAre
  <2>5. ASSUME Parent[node] # 0, NEW f \in joined[node] \cup {<<"main", node>>}
        PROVE  /\ walk' = walk /\ Parent[node] \in OpenAt(going', node') /\ Parent[node] \in Above(f[2])
               /\ DoneAt(f[2], going', node')
    BY <1>o, <2>1, <2>5, JoinedAround
  <2> QED
    BY <1>o, <2>1, <2>4, <2>5, JoinedMoves
<1>8. CASE Flush
  BY <1>8 DEF Flush, JoinedInv
<1>9. CASE Cancel
  BY <1>9 DEF Cancel, JoinedInv
<1>10. CASE StepExpires
  BY <1>10 DEF StepExpires, JoinedInv
<1>11. CASE TreeWalked \/ UNCHANGED treeVars
  BY <1>11 DEF TreeWalked, treeVars, JoinedInv
<1> QED
  BY <1>1, <1>2, <1>3, <1>4, <1>5, <1>6, <1>7, <1>8, <1>9, <1>10, <1>11 DEF TreeNext

-----------------------------------------------------------------------------
(* Which failures of pres are joined, wait or are those of a step.         *)

LEMMA RootOf ==
    ASSUME NEW n \in Nodes
    PROVE  Root(n) \in Above(n)
<1> DEFINE S == {m \in Nodes : Root(m) \in Above(m)}
<1>1. ASSUME NEW m \in Nodes, Parent[m] # 0 => Parent[m] \in S
      PROVE  m \in S
  <2>1. m \in Above(m)
    BY AboveClosed
  <2> QED
    BY <1>1, <2>1, RootIs, AboveStep
<1> HIDE DEF S
<1>2. Nodes \subseteq S
  BY <1>1, NodeInduction
<1> QED
  BY <1>2 DEF S

\* What a node that is left does to what is joined in it.
LeavesTo(error) ==
    /\ joined'[node] = {}
    /\ \A m \in Nodes : m # node => joined'[m] \in {joined[m], joined[m] \cup (IF m = Parent[node] THEN error ELSE {})}

LEMMA ConcludeLeaves ==
    ASSUME TreeTypeOK, NEW error \in SUBSET Failures, NEW forgiven, joined[node] \subseteq error,
           Conclude(node, error, forgiven)
    PROVE  LeavesTo(error)
<1>0. node \in Nodes /\ Parent[node] \in Nodes \cup {0} /\ Parent[node] # node
  BY NodesAre DEF TreeTypeOK
<1>1. CASE error = {}
  BY <1>0, <1>1 DEF Conclude, LeavesTo
<1>2. CASE error # {} /\ forgiven
  BY <1>0, <1>2 DEF Conclude, LeavesTo, TreeTypeOK
<1>3. CASE error # {} /\ ~forgiven
  BY <1>0, <1>3 DEF Conclude, LeavesTo, TreeTypeOK
<1> QED
  BY <1>1, <1>2, <1>3 DEF Conclude

\* What leaves a node, or meets a failure, by what it does to the failures joined.
LEMMA JoinedBy ==
    ASSUME TreeTypeOK, JoinedInv
    PROVE  /\ LeavePre => LeavesTo(joined[node])
           /\ LeaveMain => \E own \in {{}, {<<"main", node>>}} :
                  Conclude(node, joined[node] \cup own, Forgiven(node)) /\ LeavesTo(joined[node] \cup own)
           /\ MeetPreFailure /\ Parent[node] = 0 =>
                  /\ joined[node] = {} /\ LeavesTo({})
                  /\ Conclude(node, preErrors[node], node \in excused)
           /\ MeetPreFailure /\ Parent[node] # 0 =>
                  /\ joined[node] = {} /\ node \in preFailed /\ LeavesTo({Pre(node)})
                  /\ Conclude(node, {Pre(node)}, Forgiven(node))
<1>0. node \in Nodes /\ 0 \notin Nodes
  BY NodesAre DEF TreeTypeOK
<1>1. ASSUME LeavePre
      PROVE  LeavesTo(joined[node])
  BY <1>0, <1>1, NodesAre DEF LeavePre, LeavesTo, TreeTypeOK
<1>2. ASSUME LeaveMain
      PROVE  \E own \in {{}, {<<"main", node>>}} :
                Conclude(node, joined[node] \cup own, Forgiven(node)) /\ LeavesTo(joined[node] \cup own)
  <2>1. PICK own \in {{}, {<<"main", node>>}} : Conclude(node, joined[node] \cup own, Forgiven(node))
    BY <1>2 DEF LeaveMain
  <2>2. joined[node] \cup own \in SUBSET Failures
    BY <1>0 DEF TreeTypeOK, Failures
  <2>3. LeavesTo(joined[node] \cup own)
    BY <2>1, <2>2, ConcludeLeaves
  <2> QED
    BY <2>1, <2>3
<1>3. ASSUME MeetPreFailure
      PROVE  joined[node] = {}
  BY <1>0, <1>3 DEF MeetPreFailure, At, JoinedInv, OpenAt
<1>4. ASSUME MeetPreFailure, Parent[node] = 0
      PROVE  Conclude(node, preErrors[node], node \in excused) /\ LeavesTo({})
  <2>1. Conclude(node, preErrors[node], node \in excused)
    BY <1>4 DEF MeetPreFailure
  <2>2. preErrors[node] \in SUBSET Failures
    BY <1>0 DEF TreeTypeOK, Failures, PreFailures
  <2>3. LeavesTo(preErrors[node])
    BY <1>3, <1>4, <2>1, <2>2, ConcludeLeaves
  <2> QED
    BY <1>0, <1>4, <2>1, <2>3 DEF LeavesTo
<1>5. ASSUME MeetPreFailure, Parent[node] # 0
      PROVE  node \in preFailed /\ Conclude(node, {Pre(node)}, Forgiven(node)) /\ LeavesTo({Pre(node)})
  <2>1. node \in preFailed /\ Conclude(node, {Pre(node)}, Forgiven(node))
    BY <1>5 DEF MeetPreFailure, Pre
  <2>2. {Pre(node)} \in SUBSET Failures
    BY <1>0 DEF Failures, Pre
  <2> QED
    BY <1>3, <1>5, <2>1, <2>2, ConcludeLeaves
<1> QED
  BY <1>1, <1>2, <1>3, <1>4, <1>5

\* The failures of pres that are joined come from where they are.
LEMMA JoinedFrom ==
    ASSUME TreeTypeOK, JoinedInv, [TreeNext]_treeVars,
           NEW n \in Nodes, NEW m \in Nodes, Pre(n) \in joined'[m]
    PROVE  \/ Pre(n) \in joined[m] /\ (m = node => ~LeavePre /\ ~LeaveMain)
           \/ RunPre /\ n = node /\ m = node /\ node \in preFailed'
           \/ (LeavePre \/ LeaveMain) /\ Pre(n) \in joined[node] /\ m = Parent[node]
           \/ MeetPreFailure /\ n = node /\ m = Parent[node] /\ node \in preFailed
<1>0. node \in Nodes /\ Parent[node] # node /\ Pre(n) # <<"main", node>> /\ (Pre(n) = Pre(node) => n = node)
  BY NodesAre DEF TreeTypeOK, Pre
<1>1. CASE LeavePre
  <2>1. LeavesTo(joined[node])
    BY <1>1, JoinedBy
  <2> QED
    BY <1>0, <1>1, <2>1 DEF LeavesTo
<1>2. CASE LeaveMain
  <2>1. PICK own \in {{}, {<<"main", node>>}} : LeavesTo(joined[node] \cup own)
    BY <1>2, JoinedBy
  <2> QED
    BY <1>0, <1>2, <2>1 DEF LeavesTo
<1>3. CASE MeetPreFailure /\ ~LeavePre /\ ~LeaveMain
  <2>1. CASE Parent[node] = 0
    BY <1>0, <1>3, <2>1, JoinedBy DEF LeavesTo
  <2>2. CASE Parent[node] # 0
    BY <1>0, <1>3, <2>2, JoinedBy DEF LeavesTo
  <2> QED
    BY <2>1, <2>2
<1>4. CASE RunPre /\ ~LeavePre /\ ~LeaveMain
  BY <1>0, <1>4 DEF RunPre, Failing, TreeTypeOK, Pre
<1>5. CASE RunMain /\ ~LeavePre /\ ~LeaveMain
  BY <1>0, <1>5 DEF RunMain, Failing, TreeTypeOK, Pre
<1>6. CASE joined' = joined /\ ~LeavePre /\ ~LeaveMain
  BY <1>6
<1>7. SkipPre \/ EnterPre \/ SkipMain \/ EnterMain \/ Flush \/ Cancel \/ StepExpires \/ TreeWalked \/ UNCHANGED treeVars
      => joined' = joined
  BY DEF SkipPre, EnterPre, SkipMain, EnterMain, Flush, Cancel, StepExpires, TreeWalked, treeVars
<1> QED
  BY <1>1, <1>2, <1>3, <1>4, <1>5, <1>6, <1>7 DEF TreeNext

LEMMA JoinedOnceStep ==
    ASSUME TreeTypeOK, JoinedInv, JoinedOnce, FailuresInv, PreparingInv, [TreeNext]_treeVars
    PROVE  JoinedOnce'
<1> SUFFICES ASSUME NEW n \in Nodes, NEW l \in Nodes, NEW m \in Nodes, Pre(n) \in joined'[l], Pre(n) \in joined'[m], l # m
             PROVE  FALSE
  BY DEF JoinedOnce
<1>0. node \in Nodes /\ Parent[node] # node
  BY NodesAre DEF TreeTypeOK
<1>1. RunPre => \A k \in Nodes : Pre(node) \notin joined[k]
  <2> SUFFICES ASSUME RunPre, NEW k \in Nodes, Pre(node) \in joined[k] PROVE FALSE
    OBVIOUS
  <2>1. walk = "pre" /\ going = "enter" /\ node \in preFailed
    BY <1>0 DEF RunPre, At, FailuresInv
  <2> QED
    BY <1>0, <2>1, NotDone DEF PreparingInv
<1>2. MeetPreFailure => \A k \in Nodes : Pre(node) \notin joined[k]
  <2> SUFFICES ASSUME MeetPreFailure, NEW k \in Nodes, Pre(node) \in joined[k] PROVE FALSE
    OBVIOUS
  <2>1. going = "enter" /\ Pre(node)[2] = node
    BY DEF MeetPreFailure, At, Pre
  <2> QED
    BY <1>0, <2>1, NotDone DEF JoinedInv
<1>4. \A k \in Nodes : Pre(n) \in joined[k] => k = m \/ Pre(n) \notin joined[m]
  BY DEF JoinedOnce
<1>5. \A k \in Nodes : Pre(n) \in joined[k] => k = l \/ Pre(n) \notin joined[l]
  BY DEF JoinedOnce
<1>6. \/ Pre(n) \in joined[m] /\ (m = node => ~LeavePre /\ ~LeaveMain)
      \/ RunPre /\ n = node /\ m = node
      \/ (LeavePre \/ LeaveMain) /\ Pre(n) \in joined[node] /\ m = Parent[node]
      \/ MeetPreFailure /\ n = node /\ m = Parent[node]
  BY JoinedFrom
<1>7. \/ Pre(n) \in joined[l] /\ (l = node => ~LeavePre /\ ~LeaveMain)
      \/ RunPre /\ n = node /\ l = node
      \/ (LeavePre \/ LeaveMain) /\ Pre(n) \in joined[node] /\ l = Parent[node]
      \/ MeetPreFailure /\ n = node /\ l = Parent[node]
  BY JoinedFrom
<1>8. ~(RunPre /\ MeetPreFailure)
  BY DEF RunPre, MeetPreFailure, At
<1> QED
  BY <1>0, <1>1, <1>2, <1>4, <1>5, <1>6, <1>7, <1>8

LEMMA PendingStep ==
    ASSUME TreeTypeOK, JoinedInv, PendingInv, [TreeNext]_treeVars
    PROVE  PendingInv' /\ forgiving' = forgiving
<1>0. node \in Nodes
  BY DEF TreeTypeOK
<1>1. forgiving' = forgiving
  BY DEF TreeNext, SkipPre, EnterPre, RunPre, LeavePre, MeetPreFailure, SkipMain, EnterMain, RunMain,
         LeaveMain, Flush, Cancel, StepExpires, TreeWalked, treeVars
<1>2. CASE LeavePre
  <2>1. pending' = pending \/ (pending' = pending \cup joined[node] /\ Parent[node] # 0 /\ node \in forgiving)
    BY <1>2 DEF LeavePre, Forgiven
  <2>2. ASSUME NEW n \in Nodes, Pre(n) \in joined[node]
        PROVE  node \in Above(n)
    BY <1>0, <2>2 DEF JoinedInv, Pre
  <2> QED
    BY <1>1, <2>1, <2>2 DEF PendingInv
<1>3. MeetPreFailure \/ LeaveMain => pending' \subseteq pending
  BY DEF MeetPreFailure, LeaveMain, Conclude, Consumed
<1>4. (TreeNext /\ ~LeavePre) \/ UNCHANGED treeVars => pending' \subseteq pending
  BY <1>3 DEF TreeNext, SkipPre, EnterPre, RunPre, SkipMain, EnterMain, RunMain,
         Flush, Cancel, StepExpires, TreeWalked, treeVars
<1>5. CASE pending' \subseteq pending
  BY <1>1, <1>5 DEF PendingInv
<1> QED
  BY <1>1, <1>2, <1>4, <1>5

LEMMA FailuresStep ==
    ASSUME TreeTypeOK, JoinedInv, FailuresInv, [TreeNext]_treeVars
    PROVE  FailuresInv' /\ preFailed \subseteq preFailed'
<1>0. node \in Nodes
  BY DEF TreeTypeOK
<1>1. preFailed \subseteq preFailed'
  BY DEF TreeNext, SkipPre, EnterPre, RunPre, LeavePre, MeetPreFailure, SkipMain, EnterMain, RunMain,
         LeaveMain, Flush, Cancel, StepExpires, TreeWalked, treeVars
<1> SUFFICES ASSUME NEW n \in Nodes \ preFailed'
             PROVE  Pre(n) \notin pending' /\ \A m \in Nodes : Pre(n) \notin joined'[m] /\ Pre(n) \notin preErrors'[m]
  BY <1>1 DEF FailuresInv
<1>2. Pre(n) \notin pending /\ \A m \in Nodes : Pre(n) \notin joined[m] /\ Pre(n) \notin preErrors[m]
  BY <1>1 DEF FailuresInv
<1>3. \A m \in Nodes : Pre(n) \notin joined'[m]
  BY <1>0, <1>1, <1>2, JoinedFrom
<1>4. MeetPreFailure \/ LeaveMain => pending' \subseteq pending
  BY DEF MeetPreFailure, LeaveMain, Conclude, Consumed
<1>5. LeavePre => pending' \subseteq pending \cup joined[node]
  BY DEF LeavePre
<1>6. Pre(n) \notin pending'
  BY <1>0, <1>2, <1>4, <1>5 DEF TreeNext, SkipPre, EnterPre, RunPre, SkipMain, EnterMain, RunMain,
         Flush, Cancel, StepExpires, TreeWalked, treeVars
<1>7. LeavePre => \A m \in Nodes : preErrors'[m] \in {preErrors[m], joined[node]}
  BY <1>0 DEF LeavePre, TreeTypeOK
<1>8. ~LeavePre => preErrors' = preErrors
  BY DEF TreeNext, SkipPre, EnterPre, RunPre, MeetPreFailure, SkipMain, EnterMain, RunMain,
         LeaveMain, Flush, Cancel, StepExpires, TreeWalked, treeVars
<1> QED
  BY <1>0, <1>1, <1>2, <1>3, <1>6, <1>7, <1>8

LEMMA PreErrorsStep ==
    ASSUME TreeTypeOK, JoinedInv, PreErrorsInv, [TreeNext]_treeVars
    PROVE  PreErrorsInv'
<1>0. node \in Nodes
  BY DEF TreeTypeOK
<1>1. CASE LeavePre /\ preErrors' # preErrors
  <2>1. Parent[node] = 0 /\ preErrors' = [preErrors EXCEPT ![node] = joined[node]]
    BY <1>1 DEF LeavePre
  <2>2. ASSUME NEW f \in joined[node]
        PROVE  Root(f[2]) = node
    <3>1. f[2] \in Nodes /\ node \in Above(f[2])
      BY <1>0, FailureOf DEF JoinedInv
    <3> QED
      BY <1>0, <2>1, <3>1, RootAbove, RootIs
  <2>3. \A r \in Nodes : preErrors'[r] = IF r = node THEN joined[node] ELSE preErrors[r]
    BY <1>0, <2>1 DEF TreeTypeOK
  <2>4. ASSUME NEW r \in Nodes, NEW f \in preErrors'[r]
        PROVE  Parent[r] = 0 /\ Root(f[2]) = r
    BY <2>1, <2>2, <2>3 DEF PreErrorsInv
  <2> QED
    BY <2>4 DEF PreErrorsInv
<1>2. ~LeavePre => preErrors' = preErrors
  BY DEF TreeNext, SkipPre, EnterPre, RunPre, MeetPreFailure, SkipMain, EnterMain, RunMain,
         LeaveMain, Flush, Cancel, StepExpires, TreeWalked, treeVars
<1> QED
  BY <1>1, <1>2 DEF PreErrorsInv

\* Each step of the walk of the pres is one of these, and goes on as these do.
LEMMA PreparingMoves ==
    ASSUME TreeTypeOK, [TreeNext]_treeVars, walk = "pre"
    PROVE  /\ \/ SkipPre \/ EnterPre \/ RunPre \/ LeavePre
              \/ UNCHANGED <<walk, going, node, forgiving, joined, preFailed, preErrors, pending, warned>>
           /\ warned' = warned
           /\ \/ walk' = walk /\ going' = going /\ node' = node
              \/ walk' = "pre" /\ Goes(going, node, going', node')
              \/ walk' = "main" /\ going' = "enter" /\ node' = 1
           /\ walk' = "pre" => Root(node') = Root(node) \/ (Parent[node] = 0 /\ Root(node) < Root(node'))
           /\ LeavePre /\ Parent[node] = 0 /\ walk' = "pre" => Root(node) < Root(node')
<1>0. Place /\ node \in Nodes /\ (Parent[node] = 0 => Root(node) = node)
  BY RootIs DEF TreeTypeOK, Place
<1>1. \/ SkipPre \/ EnterPre \/ RunPre \/ LeavePre
      \/ UNCHANGED <<walk, going, node, forgiving, joined, preFailed, preErrors, pending, warned>>
  BY DEF TreeNext, MeetPreFailure, SkipMain, EnterMain, RunMain, LeaveMain, Flush, Cancel, StepExpires,
         TreeWalked, treeVars, At
<1>2. warned' = warned
  BY <1>1 DEF SkipPre, EnterPre, RunPre, LeavePre
<1>3. CASE Onward(node)
  <2>1. \/ walk' = "pre" /\ Goes(going, node, going', node')
        \/ walk' = "main" /\ going' = "enter" /\ node' = 1
    BY <1>0, <1>3, OnwardGoes
  <2>2. walk' = "pre" /\ Parent[node] # 0 => Root(node') = Root(node)
    BY <1>0, <1>3, OnwardGoes
  <2>3. ASSUME walk' = "pre", Parent[node] = 0
        PROVE  Root(node) < Root(node')
    <3>1. Parent[node'] = 0 /\ node < node' /\ node' \in Nodes
      BY <1>0, <1>3, <2>3, OnwardGoes DEF Place
    <3> QED
      BY <1>0, <2>3, <3>1, RootIs
  <2> QED
    BY <1>1, <1>2, <2>1, <2>2, <2>3
<1>4. CASE (going = "enter" /\ Into(node)) \/ Out(node)
  <2>1. walk' = "pre" /\ Goes(going, node, going', node') /\ Root(node') = Root(node)
    BY <1>0, <1>4, IntoGoes DEF Out, Goes
  <2>2. ASSUME LeavePre, Parent[node] = 0
        PROVE  Root(node) < Root(node')
    <3>1. Onward(node)
      BY <2>2 DEF LeavePre
    <3> QED
      BY <1>0, <2>1, <2>2, <3>1, OnwardGoes, RootIs DEF Place
  <2> QED
    BY <1>1, <1>2, <2>1, <2>2
<1>5. CASE UNCHANGED <<walk, going, node, forgiving, joined, preFailed, preErrors, pending, warned>> /\ ~LeavePre
  BY <1>1, <1>2, <1>5
<1> QED
  BY <1>1, <1>3, <1>4, <1>5 DEF SkipPre, EnterPre, RunPre, LeavePre, At

LEMMA PreparingStep ==
    ASSUME TreeTypeOK, TreeTypeOK', JoinedInv, PreparingInv, [TreeNext]_treeVars
    PROVE  PreparingInv'
<1>0. node \in Nodes /\ node' \in Nodes /\ 0 \notin Nodes
  BY NodesAre DEF TreeTypeOK
<1> SUFFICES ASSUME walk' = "pre"
             PROVE  /\ joined'[0] = {} /\ warned' = <<>>
                    /\ \A r \in Nodes : preErrors'[r] # {} => r < Root(node')
                    /\ \A n \in preFailed' : DoneAt(n, going', node')
  BY DEF PreparingInv
<1>1. walk = "pre"
  BY DEF TreeNext, SkipPre, EnterPre, RunPre, LeavePre, MeetPreFailure, SkipMain, EnterMain, RunMain,
         LeaveMain, Flush, Cancel, StepExpires, TreeWalked, treeVars, At, Onward, Into, Out
<1>2. /\ SkipPre \/ EnterPre \/ RunPre \/ LeavePre
         \/ UNCHANGED <<walk, going, node, forgiving, joined, preFailed, preErrors, pending, warned>>
      /\ warned' = warned
      /\ (going' = going /\ node' = node) \/ Goes(going, node, going', node')
      /\ Root(node') = Root(node) \/ (Parent[node] = 0 /\ Root(node) < Root(node'))
      /\ LeavePre /\ Parent[node] = 0 => Root(node) < Root(node')
  BY <1>1, PreparingMoves
<1>3. joined'[0] = {}
  <2>1. CASE LeavePre
    BY <1>0, <1>1, <2>1 DEF LeavePre, TreeTypeOK, PreparingInv
  <2>2. CASE RunPre
    BY <1>0, <1>1, <2>2 DEF RunPre, Failing, TreeTypeOK, PreparingInv
  <2> QED
    BY <1>1, <1>2, <2>1, <2>2 DEF SkipPre, EnterPre, PreparingInv
<1>4. \A r \in Nodes : preErrors'[r] # {} => r < Root(node')
  <2> SUFFICES ASSUME NEW r \in Nodes, preErrors'[r] # {} PROVE r < Root(node')
    OBVIOUS
  <2>0. r \in Nat /\ Root(node) \in Nat /\ Root(node') \in Nat /\ (Parent[node] = 0 => Root(node) = node)
    BY <1>0, RootIs, NodesAre
  <2>1. preErrors[r] # {} \/ (LeavePre /\ Parent[node] = 0 /\ r = node)
    BY <1>0, <1>2 DEF SkipPre, EnterPre, RunPre, LeavePre, TreeTypeOK
  <2>2. preErrors[r] # {} => r < Root(node)
    BY <1>1 DEF PreparingInv
  <2> QED
    BY <1>2, <2>0, <2>1, <2>2
<1>5. \A n \in preFailed' : DoneAt(n, going', node')
  <2> SUFFICES ASSUME NEW n \in preFailed' PROVE DoneAt(n, going', node')
    OBVIOUS
  <2>1. CASE n \in preFailed
    <3>1. DoneAt(n, going, node) /\ n \in Nodes
      BY <1>1, <2>1 DEF PreparingInv, TreeTypeOK
    <3> QED
      BY <1>0, <1>2, <3>1, DoneGrows
  <2>2. CASE n \notin preFailed
    <3>1. RunPre /\ n = node /\ going' = "leave" /\ node' = node
      BY <1>2, <2>2 DEF SkipPre, EnterPre, RunPre, LeavePre, Out
    <3> QED
      BY <1>0, <3>1, AboveClosed DEF DoneAt
  <2> QED
    BY <2>1, <2>2
<1> QED
  BY <1>1, <1>2, <1>3, <1>4, <1>5 DEF PreparingInv

-----------------------------------------------------------------------------
(* The fate of a failed pre.                                               *)

\* The walk of the mains is not in a step before it begins.
LEMMA NotEntered ==
    ASSUME TreeTypeOK, NEW r \in Nodes, walk = "pre" \/ (walk = "main" /\ going = "enter" /\ node = 1)
    PROVE  ~Entered(r)
<1>1. Root(1) = 1 /\ Parent[1] = 0 /\ r \in Nat /\ r # 0
  BY RootIs, NodesAre
<1> QED
  BY <1>1 DEF Entered

LEMMA PreparedFate ==
    ASSUME TreeTypeOK, TreeTypeOK', JoinedInv, JoinedInv', JoinedOnce, FailuresInv, PreErrorsInv, PreparingInv,
           FateInv, [TreeNext]_treeVars, walk = "pre"
    PROVE  FateInv' /\ MeetInv' /\ AheadInv'
<1>0. node \in Nodes /\ 0 \notin Nodes /\ preFailed' \subseteq Nodes /\ Parent[node] # node
  BY NodesAre DEF TreeTypeOK
<1>1. /\ SkipPre \/ EnterPre \/ RunPre \/ LeavePre
         \/ UNCHANGED <<walk, going, node, forgiving, joined, preFailed, preErrors, pending, warned>>
      /\ warned' = warned
      /\ walk' = "pre" \/ (walk' = "main" /\ going' = "enter" /\ node' = 1)
  BY PreparingMoves
<1>2. \A n \in Nodes : ~Entered(Root(n))'
  BY <1>1, NotEntered, RootIs DEF TreeTypeOK, Entered
<1>3. walk' = "main" => \A m \in Nodes : joined'[m] = {}
  BY <1>1, OpenStep, NodesAre DEF JoinedInv
<1>4. ASSUME NEW n \in preFailed'
      PROVE  Waiting(n)'
  <2>0. n \in Nodes /\ Root(n) \in Nodes
    BY <1>0, RootIs
  <2>1. ~Entered(Root(n))
    BY <2>0, NotEntered
  <2>2. Reports(Pre(n))' = {} /\ Pre(n) \notin joined'[0]
    <3>1. joined[0] = {} /\ warned = <<>>
      BY DEF PreparingInv
    <3>2. joined'[0] = {}
      <4>1. CASE LeavePre
        BY <1>0, <3>1, <4>1 DEF LeavePre, TreeTypeOK
      <4>2. CASE RunPre
        BY <1>0, <3>1, <4>2 DEF RunPre, Failing, TreeTypeOK
      <4> QED
        BY <1>1, <3>1, <4>1, <4>2 DEF SkipPre, EnterPre
    <3>3. DOMAIN warned' = {}
      BY <1>1, <3>1
    <3> QED
      BY <3>2, <3>3 DEF Reports
  <2>3. n \in preFailed => Waiting(n)
    BY <2>1 DEF FateInv
  <2>4. CASE joined' = joined /\ preErrors' = preErrors /\ pending' = pending /\ preFailed' = preFailed
    <3>1. InAction(n)' <=> InAction(n)
      BY <2>4 DEF InAction
    <3>2. walk' = "main" => ~InAction(n)'
      BY <1>3 DEF InAction
    <3> QED
      BY <1>1, <2>2, <2>3, <2>4, <3>1, <3>2 DEF Waiting
  <2>5. CASE RunPre /\ ~(joined' = joined /\ preFailed' = preFailed)
    <3>1. /\ preFailed' = preFailed \cup {node} /\ walk' = "pre"
          /\ \A m \in Nodes : joined'[m] = IF m = node THEN joined[m] \cup {Pre(node)} ELSE joined[m]
          /\ preErrors' = preErrors /\ pending' = pending
      BY <2>5 DEF RunPre, Failing, Out, Pre, TreeTypeOK
    <3>2. CASE n = node
      <4>1. node \notin preFailed
        BY <1>0, <2>5, NotDone DEF PreparingInv, RunPre, At
      <4>2. Pre(n) \notin pending' /\ Pre(n) \notin preErrors'[Root(n)]
        BY <1>0, <2>0, <3>1, <3>2, <4>1 DEF FailuresInv
      <4>3. InAction(n)'
        BY <1>0, <3>1, <3>2 DEF InAction
      <4> QED
        BY <2>2, <3>1, <4>2, <4>3 DEF Waiting
    <3>3. CASE n # node
      <4>1. Pre(n) # Pre(node)
        BY <3>3 DEF Pre
      <4>2. (InAction(n)' <=> InAction(n)) /\ n \in preFailed
        BY <3>1, <3>3, <4>1 DEF InAction
      <4> QED
        BY <2>2, <2>3, <3>1, <4>2 DEF Waiting
    <3> QED
      BY <3>2, <3>3
  <2>6. CASE LeavePre
    <3>1. Waiting(n) /\ going = "leave" /\ LeavesTo(IF Forgiven(node) \/ Parent[node] = 0 THEN {} ELSE joined[node])
      BY <1>0, <2>3, <2>6 DEF LeavePre, At, LeavesTo, TreeTypeOK
    <3>2. CASE Pre(n) \in joined[node]
      <4>0. /\ InAction(n) /\ Pre(n) \notin pending /\ Pre(n) \notin preErrors[Root(n)]
            /\ \A m \in Nodes : Pre(n) \in joined[m] => m = node
        BY <1>0, <2>0, <3>1, <3>2 DEF Waiting, InAction, JoinedOnce
      <4>1. CASE Parent[node] = 0
        <5>1. node \in Above(n)
          BY <1>0, <3>2 DEF JoinedInv, Pre
        <5>2. Root(n) = node
          BY <1>0, <2>0, <4>1, <5>1, RootAbove, RootIs
        <5>3. Pre(n) \in preErrors'[Root(n)] /\ Pre(n) \notin pending'
          BY <1>0, <2>6, <3>2, <4>0, <4>1, <5>2 DEF LeavePre, TreeTypeOK
        <5>4. ~InAction(n)'
          BY <1>0, <3>1, <4>0, <4>1 DEF LeavesTo, InAction
        <5> QED
          BY <2>2, <5>3, <5>4 DEF Waiting
      <4>2. CASE Parent[node] # 0 /\ Forgiven(node)
        <5>1. Pre(n) \in pending' /\ Pre(n) \notin preErrors'[Root(n)]
          BY <2>6, <3>2, <4>0, <4>2 DEF LeavePre
        <5>2. ~InAction(n)'
          BY <1>0, <3>1, <4>0, <4>2 DEF LeavesTo, InAction
        <5> QED
          BY <2>2, <5>1, <5>2 DEF Waiting
      <4>3. CASE Parent[node] # 0 /\ ~Forgiven(node)
        <5>1. Pre(n) \notin pending' /\ Pre(n) \notin preErrors'[Root(n)]
          BY <2>6, <4>0, <4>3 DEF LeavePre
        <5>2. Parent[node] \in Nodes
          BY <1>0, <4>3, NodesAre
        <5>3. Pre(n) \in joined'[Parent[node]]
          BY <1>0, <2>6, <3>2, <4>3, <5>2 DEF LeavePre, TreeTypeOK
        <5> QED
          BY <1>1, <1>3, <2>2, <5>1, <5>2, <5>3 DEF Waiting, InAction
      <4> QED
        BY <4>1, <4>2, <4>3
    <3>3. CASE Pre(n) \notin joined[node]
      <4>1. \A m \in Nodes : Pre(n) \in joined'[m] <=> Pre(n) \in joined[m]
        BY <1>0, <3>1, <3>3 DEF LeavesTo
      <4>2. InAction(n)' <=> InAction(n)
        BY <4>1 DEF InAction
      <4>3. Pre(n) \in pending' <=> Pre(n) \in pending
        BY <2>6, <3>3 DEF LeavePre
      <4>4. Pre(n) \in preErrors'[Root(n)] <=> Pre(n) \in preErrors[Root(n)]
        <5>1. CASE Parent[node] = 0
          <6>1. Root(node) = node /\ node \in Nat
            BY <1>0, <5>1, RootIs, NodesAre
          <6>2. preErrors[node] = {}
            BY <1>0, <6>1 DEF PreparingInv
          <6> QED
            BY <1>0, <2>0, <2>6, <3>3, <5>1, <6>2 DEF LeavePre, TreeTypeOK
        <5>2. CASE Parent[node] # 0
          BY <2>6, <5>2 DEF LeavePre
        <5> QED
          BY <5>1, <5>2
      <4>5. walk' = "main" => ~InAction(n)'
        BY <1>3 DEF InAction
      <4> QED
        BY <1>1, <2>2, <3>1, <4>2, <4>3, <4>4, <4>5 DEF Waiting
    <3> QED
      BY <3>2, <3>3
  <2> QED
    BY <1>1, <2>4, <2>5, <2>6 DEF SkipPre, EnterPre, RunPre
<1>5. FateInv'
  BY <1>0, <1>2, <1>4 DEF FateInv
<1>6. MeetInv'
  BY <1>3 DEF MeetInv
<1>7. AheadInv'
  BY <1>0, <1>2 DEF AheadInv
<1> QED
  BY <1>5, <1>6, <1>7

\* What a conclusion does to a failure in its error, and to any other.
LEMMA ReportsAre ==
    ASSUME TreeTypeOK, NEW error \in SUBSET Failures, NEW f
    PROVE  /\ Reports(f) \subseteq 1..Len(warned) /\ Len(warned) \in Nat
           /\ warned' = warned => Reports(f)' = Reports(f)
           /\ warned' = Append(warned, error) =>
                 Reports(f)' = Reports(f) \cup (IF f \in error THEN {Len(warned) + 1} ELSE {})
<1>1. Len(warned) \in Nat /\ DOMAIN warned = 1..Len(warned)
  BY DEF TreeTypeOK
<1>2. ASSUME warned' = Append(warned, error)
      PROVE  Reports(f)' = Reports(f) \cup (IF f \in error THEN {Len(warned) + 1} ELSE {})
  <2>1. /\ DOMAIN warned' = 1..(Len(warned) + 1)
        /\ \A i \in DOMAIN warned' : warned'[i] = IF i = Len(warned) + 1 THEN error ELSE warned[i]
    BY <1>2, AppendProperties DEF TreeTypeOK
  <2> QED
    BY <1>1, <2>1 DEF Reports
<1> QED
  BY <1>1, <1>2 DEF Reports

Same(n) ==
    /\ \A m \in Nodes \cup {0} : Pre(n) \in joined'[m] <=> Pre(n) \in joined[m]
    /\ Pre(n) \in pending' <=> Pre(n) \in pending
    /\ Reports(Pre(n))' = Reports(Pre(n))

LEMMA ConcludeApart ==
    ASSUME TreeTypeOK, NEW error \in SUBSET Failures, joined[node] \subseteq error, NEW forgiven,
           Conclude(node, error, forgiven), NEW n \in Nodes, Pre(n) \notin error
    PROVE  Same(n)
<1>0. node \in Nodes /\ Parent[node] \in Nodes \cup {0} /\ Parent[node] # node /\ 0 \notin Nodes
  BY NodesAre DEF TreeTypeOK
<1>1. CASE error = {}
  BY <1>1, ReportsAre DEF Conclude, Same
<1>2. CASE error # {} /\ forgiven
  <2>1. warned' = Append(warned, error)
    BY <1>2 DEF Conclude
  <2>2. Reports(Pre(n))' = Reports(Pre(n))
    BY <2>1, ReportsAre
  <2>3. \A m \in Nodes \cup {0} : Pre(n) \in joined'[m] <=> Pre(n) \in joined[m]
    BY <1>0, <1>2 DEF Conclude, TreeTypeOK
  <2>4. Pre(n) \in pending' <=> Pre(n) \in pending
    BY <1>2 DEF Conclude, Consumed
  <2> QED
    BY <2>2, <2>3, <2>4 DEF Same
<1>3. CASE error # {} /\ ~forgiven
  <2>1. Reports(Pre(n))' = Reports(Pre(n)) /\ pending' = pending
    BY <1>3, ReportsAre DEF Conclude
  <2>2. \A m \in Nodes \cup {0} : Pre(n) \in joined'[m] <=> Pre(n) \in joined[m]
    BY <1>0, <1>3 DEF Conclude, TreeTypeOK
  <2> QED
    BY <2>1, <2>2 DEF Same
<1> QED
  BY <1>1, <1>2, <1>3

Told(n, forgiven) ==
    IF forgiven
    THEN /\ Reports(Pre(n))' = Reports(Pre(n)) \cup {Len(warned) + 1}
         /\ Pre(n) \in joined'[0] <=> Pre(n) \in joined[0]
         /\ Pre(n) \in pending' <=> Pre(n) \in pending /\ Parent[node] = 0
         /\ \A m \in Nodes : Pre(n) \in joined'[m] => Pre(n) \in joined[m] /\ m # node
    ELSE /\ Reports(Pre(n))' = Reports(Pre(n))
         /\ Pre(n) \in joined'[0] <=> Pre(n) \in joined[0] \/ Parent[node] = 0
         /\ Pre(n) \in pending' <=> Pre(n) \in pending
         /\ \A m \in Nodes : Pre(n) \in joined'[m] => (Pre(n) \in joined[m] /\ m # node) \/ m = Parent[node]

LEMMA ConcludeTold ==
    ASSUME TreeTypeOK, NEW error \in SUBSET Failures, NEW forgiven,
           Conclude(node, error, forgiven), NEW n \in Nodes, Pre(n) \in error
    PROVE  Told(n, forgiven)
<1>0. node \in Nodes /\ Parent[node] \in Nodes \cup {0} /\ Parent[node] # node /\ 0 \notin Nodes
  BY NodesAre DEF TreeTypeOK
<1>1. CASE forgiven
  <2>1. warned' = Append(warned, error)
    BY <1>1 DEF Conclude
  <2>2. Reports(Pre(n))' = Reports(Pre(n)) \cup {Len(warned) + 1}
    BY <2>1, ReportsAre
  <2>3. /\ Pre(n) \in joined'[0] <=> Pre(n) \in joined[0]
        /\ \A m \in Nodes : Pre(n) \in joined'[m] => Pre(n) \in joined[m] /\ m # node
    BY <1>0, <1>1 DEF Conclude, TreeTypeOK
  <2>4. Pre(n) \in pending' <=> Pre(n) \in pending /\ Parent[node] = 0
    BY <1>1 DEF Conclude, Consumed
  <2> QED
    BY <1>1, <2>2, <2>3, <2>4 DEF Told
<1>2. CASE ~forgiven
  <2>1. Reports(Pre(n))' = Reports(Pre(n)) /\ pending' = pending
    BY <1>2, ReportsAre DEF Conclude
  <2>2. /\ Pre(n) \in joined'[0] <=> Pre(n) \in joined[0] \/ Parent[node] = 0
        /\ \A m \in Nodes : Pre(n) \in joined'[m] => (Pre(n) \in joined[m] /\ m # node) \/ m = Parent[node]
    BY <1>0, <1>2 DEF Conclude, TreeTypeOK
  <2> QED
    BY <1>2, <2>1, <2>2 DEF Told
<1> QED
  BY <1>1, <1>2

Walks == MeetPreFailure \/ SkipMain \/ EnterMain \/ RunMain \/ LeaveMain

LEMMA WalksAre ==
    ASSUME TreeTypeOK, Walks
    PROVE  /\ walk = "main" /\ node \in Nodes /\ Place
           /\ preErrors' = preErrors /\ preFailed' = preFailed /\ forgiving' = forgiving
           /\ jobCancelled' = jobCancelled /\ expired' = expired
           /\ Out(node) \/ (going = "enter" /\ Into(node)) \/ Onward(node)
           /\ \/ walk' = "main" /\ Goes(going, node, going', node')
              \/ walk' = "end" /\ Parent[node] = 0
<1>1. /\ walk = "main" /\ node \in Nodes /\ Place
      /\ preErrors' = preErrors /\ preFailed' = preFailed /\ forgiving' = forgiving
      /\ jobCancelled' = jobCancelled /\ expired' = expired
      /\ Out(node) \/ (going = "enter" /\ Into(node)) \/ Onward(node)
  BY DEF Walks, MeetPreFailure, SkipMain, EnterMain, RunMain, LeaveMain, At, TreeTypeOK, Place
<1>2. Out(node) => walk' = "main" /\ Goes(going, node, going', node')
  BY <1>1 DEF Out, Goes
<1> QED
  BY <1>1, <1>2, IntoGoes, OnwardGoes

\* What a step of the walk of the mains does with the failure of a pre.
LEMMA MainDoes ==
    ASSUME TreeTypeOK, JoinedInv, PreErrorsInv, Walks, NEW n \in Nodes
    PROVE  \/ Same(n)
           \/ /\ MeetPreFailure /\ Parent[node] = 0 /\ Pre(n) \in preErrors[node]
              /\ Told(n, node \in excused) /\ Root(n) = Root(node)
           \/ MeetPreFailure /\ Parent[node] # 0 /\ n = node /\ Told(n, Forgiven(node))
           \/ LeaveMain /\ Pre(n) \in joined[node] /\ Told(n, Forgiven(node)) /\ Root(n) = Root(node)
<1>0. node \in Nodes
  BY DEF TreeTypeOK
<1>1. CASE MeetPreFailure /\ Parent[node] = 0
  <2>1. /\ joined[node] = {} /\ Conclude(node, preErrors[node], node \in excused)
        /\ preErrors[node] \in SUBSET Failures
    BY <1>0, <1>1, JoinedBy DEF TreeTypeOK, PreFailures, Failures
  <2>2. CASE Pre(n) \notin preErrors[node]
    BY <2>1, <2>2, ConcludeApart
  <2>3. CASE Pre(n) \in preErrors[node]
    <3>1. Root(n) = Root(node)
      BY <1>0, <1>1, <2>3, RootIs DEF PreErrorsInv, Pre
    <3> QED
      BY <1>1, <2>1, <2>3, <3>1, ConcludeTold
  <2> QED
    BY <2>2, <2>3
<1>2. CASE MeetPreFailure /\ Parent[node] # 0
  <2>1. joined[node] = {} /\ Conclude(node, {Pre(node)}, Forgiven(node)) /\ {Pre(node)} \in SUBSET Failures
    BY <1>0, <1>2, JoinedBy DEF Pre, Failures
  <2>2. CASE n # node
    <3>1. Pre(n) \notin {Pre(node)}
      BY <2>2 DEF Pre
    <3> QED
      BY <2>1, <3>1, ConcludeApart
  <2>3. CASE n = node
    BY <1>2, <2>1, <2>3, ConcludeTold
  <2> QED
    BY <2>2, <2>3
<1>3. CASE LeaveMain
  <2>1. PICK own \in {{}, {<<"main", node>>}} : Conclude(node, joined[node] \cup own, Forgiven(node))
    BY <1>3, JoinedBy
  <2>2. joined[node] \cup own \in SUBSET Failures /\ Pre(n) \notin own
    BY <1>0 DEF TreeTypeOK, Failures, Pre
  <2>3. CASE Pre(n) \notin joined[node]
    BY <2>1, <2>2, <2>3, ConcludeApart
  <2>4. CASE Pre(n) \in joined[node]
    <3>1. node \in Above(n)
      BY <1>0, <2>4 DEF JoinedInv, Pre
    <3> QED
      BY <1>0, <1>3, <2>1, <2>2, <2>4, <3>1, ConcludeTold, RootAbove
  <2> QED
    BY <2>3, <2>4
<1>4. CASE SkipMain \/ EnterMain
  BY <1>4, ReportsAre DEF SkipMain, EnterMain, Same
<1>5. CASE RunMain
  <2>1. \A m \in Nodes \cup {0} : Pre(n) \in joined'[m] <=> Pre(n) \in joined[m]
    BY <1>0, <1>5 DEF RunMain, Failing, TreeTypeOK, Pre
  <2> QED
    BY <1>5, <2>1, ReportsAre DEF RunMain, Same
<1> QED
  BY <1>1, <1>2, <1>3, <1>4, <1>5 DEF Walks

\* The step at whose start the walk is, and one it is in or past.
LEMMA AtStart ==
    ASSUME TreeTypeOK, walk = "main", NEW n \in Nodes, Root(n) = Root(node), ~Entered(Root(n))
    PROVE  going = "enter" /\ Parent[node] = 0 /\ Root(n) = node
BY RootIs DEF Entered, TreeTypeOK

\* At the start of a step that is ready, the failures of its pres are queued.
LEMMA ReadyWaits ==
    ASSUME TreeTypeOK, FateInv, Ready(node), Parent[node] = 0, walk = "main",
           NEW n \in preFailed, Root(n) = node, ~Entered(Root(n))
    PROVE  Untold(n)
BY DEF FateInv, Waiting, Ready, Untold

LEMMA AheadStep ==
    ASSUME TreeTypeOK, TreeTypeOK', JoinedInv, PreErrorsInv, FateInv, AheadInv, Walks
    PROVE  AheadInv'
<1> SUFFICES ASSUME walk' = "main", NEW n \in preFailed', Entered(Root(n))', ~DoneAt(n, going', node')
             PROVE  Untold(n)'
  BY DEF AheadInv
<1>0. /\ node \in Nodes /\ node' \in Nodes /\ n \in Nodes /\ n \in preFailed /\ walk = "main"
      /\ Goes(going, node, going', node')
  BY WalksAre DEF TreeTypeOK
<1>1. ~DoneAt(n, going, node)
  BY <1>0, DoneGrows
<1>2. Entered(Root(n)) \/ Root(n) = Root(node)
  BY <1>0, WalksAre, MainMoves, RootIs
<1>3. ~(MeetPreFailure /\ Parent[node] = 0 /\ Root(n) = Root(node))
  <2> SUFFICES ASSUME MeetPreFailure, Parent[node] = 0, Root(n) = Root(node) PROVE FALSE
    OBVIOUS
  <2>1. Place /\ Onward(node)
    BY WalksAre DEF MeetPreFailure
  <2>2. Parent[node'] = 0 /\ node < node'
    BY <1>0, <2>1, OnwardGoes
  <2>3. Root(n) = node /\ node \in Above(n) /\ node' \in Above(node')
    BY <1>0, RootIs, RootOf, AboveClosed
  <2> QED
    BY <1>0, <2>2, <2>3 DEF DoneAt
<1>4. ~(MeetPreFailure /\ Parent[node] # 0 /\ n = node)
  <2> SUFFICES ASSUME MeetPreFailure, Parent[node] # 0, n = node PROVE FALSE
    OBVIOUS
  <2>1. Place /\ Onward(node) /\ going = "enter"
    BY WalksAre DEF MeetPreFailure, At
  <2>2. ~(going' = "leave" /\ node' = node) /\ Parent[node'] # node
    BY <1>0, <2>1, OnwardGoes
  <2> QED
    BY <1>0, <2>1, <2>2, JoinedMet
<1>5. Pre(n) \notin joined[node]
  BY <1>0, <1>1 DEF JoinedInv, Pre
<1>6. Same(n)
  BY <1>0, <1>3, <1>4, <1>5, MainDoes
<1>7. Untold(n)
  <2>1. CASE Entered(Root(n))
    BY <1>0, <1>1, <2>1 DEF AheadInv
  <2>2. CASE ~Entered(Root(n))
    <3>1. going = "enter" /\ Parent[node] = 0 /\ Root(n) = node
      BY <1>0, <1>2, <2>2, AtStart
    <3>2. Ready(node)
      BY <1>2, <1>3, <2>2, <3>1 DEF Walks, SkipMain, EnterMain, RunMain, LeaveMain, At
    <3> QED
      BY <1>0, <2>2, <3>1, <3>2, ReadyWaits
  <2> QED
    BY <2>1, <2>2
<1> QED
  BY <1>6, <1>7 DEF Same, Untold

LEMMA MeetStep ==
    ASSUME TreeTypeOK, TreeTypeOK', JoinedInv, JoinedOnce, PreErrorsInv, MeetInv, AheadInv, Walks
    PROVE  MeetInv'
<1> SUFFICES ASSUME walk' = "main", NEW n \in preFailed', NEW m \in Nodes, Pre(n) \in joined'[m], Clean(n)'
             PROVE  /\ Pre(n) \in pending'
                    /\ \A a \in Above(n) \ Above(m) : Parent[a] # 0 => a \notin forgiving'
  BY DEF MeetInv
<1>0. /\ node \in Nodes /\ n \in Nodes /\ n \in preFailed /\ walk = "main" /\ forgiving' = forgiving
      /\ Clean(n) /\ Parent[node] # node
  BY WalksAre, NodesAre DEF TreeTypeOK, Clean
<1>1. \A k \in Nodes : Pre(n) \in joined[k] =>
         Pre(n) \in pending /\ \A a \in Above(n) \ Above(k) : Parent[a] # 0 => a \notin forgiving
  BY <1>0 DEF MeetInv
<1>c. ASSUME Parent[node] # 0, Root(n) = Root(node), ~Forgiven(node)
      PROVE  node \notin forgiving
  BY <1>0, <1>c DEF Forgiven, CutShort, Clean
<1>d. Parent[node] # 0 => Parent[node] \in Nodes /\ \A a \in Above(node) : a = node \/ a \in Above(Parent[node])
  BY <1>0, AboveStep, NodesAre
<1>2. CASE Same(n)
  BY <1>0, <1>1, <1>2 DEF Same
<1>3. CASE /\ MeetPreFailure /\ Parent[node] = 0 /\ Pre(n) \in preErrors[node]
           /\ Told(n, node \in excused) /\ Root(n) = Root(node)
  <2>1. Pre(n) \in joined[m]
    BY <1>3, NodesAre DEF Told
  <2> QED
    BY <1>0, <1>1, <1>3, <2>1 DEF Told
<1>4. CASE MeetPreFailure /\ Parent[node] # 0 /\ n = node /\ Told(n, Forgiven(node))
  <2>1. ~DoneAt(n, going, node) /\ going = "enter"
    BY <1>0, <1>4, NotDone DEF MeetPreFailure, At
  <2>2. \A k \in Nodes : Pre(n) \notin joined[k]
    BY <1>0, <2>1 DEF JoinedInv, Pre
  <2>3. ~Forgiven(node) /\ m = Parent[node] /\ (Pre(n) \in pending' <=> Pre(n) \in pending)
    BY <1>4, <2>2 DEF Told
  <2>4. Entered(Root(n))
    BY <1>0, <1>4 DEF Entered
  <2>5. Pre(n) \in pending
    BY <1>0, <2>1, <2>4 DEF AheadInv, Untold
  <2> QED
    BY <1>0, <1>4, <1>c, <1>d, <2>3, <2>5
<1>5. CASE LeaveMain /\ Pre(n) \in joined[node] /\ Told(n, Forgiven(node)) /\ Root(n) = Root(node)
  <2>1. ~Forgiven(node) /\ m = Parent[node] /\ Parent[node] # 0 /\ (Pre(n) \in pending' <=> Pre(n) \in pending)
    BY <1>0, <1>5, NodesAre DEF Told, JoinedOnce
  <2> QED
    BY <1>0, <1>1, <1>5, <1>c, <1>d, <2>1
<1> QED
  BY <1>0, <1>2, <1>3, <1>4, <1>5, MainDoes

LEMMA FateStep ==
    ASSUME TreeTypeOK, TreeTypeOK', JoinedInv, JoinedOnce, PendingInv, PreErrorsInv, FateInv, MeetInv, AheadInv, Walks
    PROVE  FateInv'
<1> SUFFICES ASSUME NEW n \in preFailed'
             PROVE  /\ ~Entered(Root(n))' => Waiting(n)'
                    /\ Entered(Root(n))' => Known(n)' /\ (Clean(n)' => Once(n)')
  BY DEF FateInv
<1>0. /\ node \in Nodes /\ n \in Nodes /\ n \in preFailed /\ walk = "main"
      /\ preErrors' = preErrors /\ (Clean(n)' <=> Clean(n)) /\ Place
      /\ walk' \in {"main", "end"} /\ warned \in Seq(SUBSET Failures)
  BY WalksAre DEF TreeTypeOK, Clean
<1>1. Entered(Root(n))' <=> Entered(Root(n)) \/ Root(n) = Root(node)
  BY <1>0, WalksAre, MainMoves, RootIs
<1>2. /\ ~Entered(Root(n)) => Waiting(n)
      /\ Entered(Root(n)) => Known(n) /\ (Clean(n) => Once(n))
  BY <1>0 DEF FateInv
<1>w. Reports(Pre(n))' \subseteq DOMAIN warned'
  BY DEF Reports
<1>s. ASSUME Same(n)
      PROVE  /\ Untold(n) => Untold(n)'
             /\ Known(n) => Known(n)'
             /\ Once(n) => Once(n)'
             /\ InAction(n)' <=> InAction(n)
             /\ Waiting(n) => Waiting(n)'
  <2>1. InAction(n)' <=> InAction(n)
    BY <1>s DEF Same, InAction
  <2>2. (\E i \in DOMAIN warned : Reports(Pre(n)) = {i}) => \E i \in DOMAIN warned' : Reports(Pre(n))' = {i}
    BY <1>s, <1>w DEF Same
  <2>3. Waiting(n) => Waiting(n)'
    BY <1>0, <1>s, <2>1 DEF Waiting, Same
  <2> QED
    BY <1>s, <2>1, <2>2, <2>3 DEF Same, Untold, Known, Once
<1>t. ASSUME Untold(n), Told(n, TRUE), Parent[node] # 0
      PROVE  Once(n)'
  BY <1>t, <1>w DEF Told, Untold, Once
<1>u. ASSUME Untold(n), Told(n, FALSE), Parent[node] # 0
      PROVE  Once(n)'
  BY <1>u DEF Told, Untold, Once
<1>l. ASSUME Known(n), Told(n, FALSE)
      PROVE  Known(n)'
  BY <1>l DEF Told, Known
<1>4. CASE Same(n)
  <2>1. CASE Entered(Root(n))
    BY <1>0, <1>1, <1>2, <1>4, <1>s, <2>1
  <2>2. CASE ~Entered(Root(n)) /\ Root(n) # Root(node)
    BY <1>1, <1>2, <1>4, <1>s, <2>2
  <2>3. CASE ~Entered(Root(n)) /\ Root(n) = Root(node)
    <3>1. going = "enter" /\ Parent[node] = 0 /\ Root(n) = node
      BY <1>0, <2>3, AtStart
    <3>2. Untold(n)
      <4>1. CASE Ready(node)
        BY <1>0, <2>3, <3>1, <4>1, ReadyWaits
      <4>2. CASE MeetPreFailure
        <5>1. Conclude(node, preErrors[node], node \in excused)
          BY <3>1, <4>2, JoinedBy
        <5>2. preErrors[node] \in SUBSET Failures
          BY <1>0 DEF TreeTypeOK, PreFailures, Failures
        <5>3. ASSUME Pre(n) \in preErrors[node]
              PROVE  FALSE
          <6>1. Told(n, node \in excused)
            BY <1>0, <5>1, <5>2, <5>3, ConcludeTold
          <6>2. Pre(n) \notin joined[0] /\ Reports(Pre(n)) = {}
            BY <1>2, <2>3 DEF Waiting
          <6> QED
            BY <1>4, <3>1, <6>1, <6>2 DEF Told, Same
        <5> QED
          BY <1>0, <1>2, <2>3, <3>1, <5>3 DEF Waiting, Untold
      <4> QED
        BY <3>1, <4>1, <4>2 DEF Walks, SkipMain, EnterMain, RunMain, LeaveMain, At
    <3>3. Untold(n)'
      BY <1>4, <1>s, <3>2
    <3> QED
      BY <1>1, <2>3, <3>3 DEF Untold, Known, Once
  <2> QED
    BY <2>1, <2>2, <2>3
<1>5. CASE /\ MeetPreFailure /\ Parent[node] = 0 /\ Pre(n) \in preErrors[node]
           /\ Told(n, node \in excused) /\ Root(n) = Root(node)
  <2>1. going = "enter" /\ Root(n) = node /\ ~Entered(Root(n)) /\ Entered(Root(n))'
    <3>1. going = "enter" /\ Root(n) = node
      BY <1>0, <1>5, RootIs DEF MeetPreFailure, At
    <3> QED
      BY <1>0, <1>1, <1>5, <3>1, NodesAre DEF Entered
  <2>2. Pre(n) \notin joined[0] /\ Reports(Pre(n)) = {} /\ Pre(n) \notin pending
    BY <1>0, <1>2, <1>5, <2>1 DEF Waiting
  <2>3. CASE node \in excused
    BY <1>5, <1>w, <2>1, <2>2, <2>3 DEF Told, Known, Once
  <2>4. CASE node \notin excused
    BY <1>5, <2>1, <2>2, <2>4 DEF Told, Known, Once
  <2> QED
    BY <2>3, <2>4
<1>6. CASE MeetPreFailure /\ Parent[node] # 0 /\ n = node /\ Told(n, Forgiven(node))
  <2>1. ~DoneAt(n, going, node) /\ Entered(Root(n)) /\ Entered(Root(n))'
    BY <1>0, <1>1, <1>6, NotDone DEF MeetPreFailure, At, Entered
  <2>2. Untold(n)
    BY <1>0, <2>1 DEF AheadInv
  <2>3. Once(n)'
    <3>1. CASE Forgiven(node)
      BY <1>6, <1>t, <2>2, <3>1 DEF Told
    <3>2. CASE ~Forgiven(node)
      BY <1>6, <1>u, <2>2, <3>2 DEF Told
    <3> QED
      BY <3>1, <3>2
  <2>4. Known(n)'
    BY <2>3 DEF Once, Untold, Known
  <2> QED
    BY <2>1, <2>3, <2>4
<1>7. CASE LeaveMain /\ Pre(n) \in joined[node] /\ Told(n, Forgiven(node)) /\ Root(n) = Root(node)
  <2>1. Entered(Root(n)) /\ Entered(Root(n))'
    BY <1>0, <1>1, <1>7 DEF LeaveMain, At, Entered
  <2>0. ASSUME Clean(n)
        PROVE  Untold(n) /\ Parent[node] # 0
    <3>1. Pre(n) \in pending /\ \A a \in Above(n) \ Above(node) : Parent[a] # 0 => a \notin forgiving
      BY <1>0, <1>7, <2>0 DEF MeetInv
    <3>2. Untold(n)
      BY <1>2, <2>0, <2>1, <3>1 DEF Once
    <3>3. PICK a \in Above(n) : Parent[a] # 0 /\ a \in forgiving
      BY <1>0, <3>1 DEF PendingInv
    <3>4. Parent[node] = 0 => a = node
      BY <1>0, <3>1, <3>3, AboveStep
    <3> QED
      BY <3>2, <3>3, <3>4
  <2>2. CASE Forgiven(node)
    <3>1. Known(n)'
      BY <1>7, <2>2 DEF Told, Known
    <3>2. ASSUME Clean(n)
          PROVE  Once(n)'
      BY <1>7, <1>t, <2>0, <2>2, <3>2 DEF Told
    <3> QED
      BY <1>0, <2>1, <3>1, <3>2
  <2>3. CASE ~Forgiven(node)
    <3>1. Told(n, FALSE)
      BY <1>7, <2>3 DEF Told
    <3>2. Known(n)'
      BY <1>2, <1>l, <2>1, <3>1
    <3>3. ASSUME Clean(n)
          PROVE  Once(n)'
      BY <1>u, <2>0, <3>1, <3>3
    <3> QED
      BY <1>0, <2>1, <3>2, <3>3
  <2> QED
    BY <2>2, <2>3
<1> QED
  BY <1>0, <1>4, <1>5, <1>6, <1>7, MainDoes

LEMMA FlushStep ==
    ASSUME TreeTypeOK, TreeTypeOK', FateInv, Flush
    PROVE  FateInv'
<1> SUFFICES ASSUME NEW n \in preFailed'
             PROVE  Entered(Root(n))' /\ Known(n)' /\ (Clean(n)' => Once(n)')
  BY DEF FateInv
<1>0. /\ walk = "end" /\ walk' = "over" /\ pending' = {} /\ joined' = joined /\ n \in preFailed /\ n \in Nodes
      /\ (Clean(n)' <=> Clean(n)) /\ warned \in Seq(SUBSET Failures)
  BY DEF Flush, TreeTypeOK, Clean
<1>1. Entered(Root(n))' /\ Entered(Root(n))
  BY <1>0 DEF Entered
<1>2. Known(n) /\ (Clean(n) => Once(n))
  BY <1>0, <1>1 DEF FateInv
<1> DEFINE s == SetToSeq({{f} : f \in pending})
<1>3. /\ s \in Seq({{f} : f \in pending})
      /\ \A x \in {{f} : f \in pending} : \E i \in DOMAIN s : s[i] = x
      /\ \A i, j \in DOMAIN s : s[i] = s[j] => i = j
  BY FlushedSeq, SetToSeqOf DEF TreeTypeOK
<1>4. warned' = warned \o s
  BY DEF Flush
<1> HIDE DEF s
<1>5. /\ Len(warned) \in Nat /\ Len(s) \in Nat /\ DOMAIN s = 1..Len(s) /\ DOMAIN warned = 1..Len(warned)
      /\ DOMAIN warned' = 1..(Len(warned) + Len(s))
      /\ \A i \in DOMAIN warned' : warned'[i] = IF i <= Len(warned) THEN warned[i] ELSE s[i - Len(warned)]
  BY <1>0, <1>3, <1>4, ConcatProperties
<1>6. \A i \in DOMAIN s : \E f \in pending : s[i] = {f}
  BY <1>3, ElementOfSeq, <1>5
<1>7. CASE Pre(n) \in pending
  <2>1. PICK i \in DOMAIN s : s[i] = {Pre(n)}
    BY <1>3, <1>7
  <2>2. \A j \in DOMAIN s : Pre(n) \in s[j] => j = i
    <3>1. ASSUME NEW j \in DOMAIN s, Pre(n) \in s[j]
          PROVE  s[j] = {Pre(n)}
      BY <1>6, <3>1
    <3> QED
      BY <1>3, <2>1, <3>1
  <2>3. Reports(Pre(n))' = Reports(Pre(n)) \cup {Len(warned) + i}
    BY <1>5, <2>1, <2>2 DEF Reports
  <2>4. Len(warned) + i \in DOMAIN warned'
    BY <1>5, <2>1
  <2> QED
    BY <1>0, <1>1, <1>2, <1>7, <2>3, <2>4 DEF Known, Once, Untold
<1>8. CASE Pre(n) \notin pending
  <2>1. \A j \in DOMAIN s : Pre(n) \notin s[j]
    BY <1>6, <1>8
  <2>2. Reports(Pre(n))' = Reports(Pre(n))
    BY <1>5, <2>1 DEF Reports
  <2>3. DOMAIN warned \subseteq DOMAIN warned'
    BY <1>5
  <2> QED
    BY <1>0, <1>1, <1>2, <1>8, <2>2, <2>3 DEF Known, Once, Untold
<1> QED
  BY <1>7, <1>8

\* Nothing but what has been cut short changes.
LEMMA CutStep ==
    ASSUME FateInv, MeetInv, AheadInv,
           UNCHANGED <<walk, going, node, forgiving, joined, preFailed, preErrors, pending, warned>>,
           jobCancelled => jobCancelled', expired \subseteq expired'
    PROVE  FateInv' /\ MeetInv' /\ AheadInv'
<1>1. \A n : Clean(n)' => Clean(n)
  BY DEF Clean
<1>2. \A n : /\ Entered(n)' <=> Entered(n)
             /\ Reports(Pre(n))' = Reports(Pre(n))
             /\ InAction(n)' <=> InAction(n)
  BY DEF Entered, Reports, InAction
<1>3. \A n : /\ Waiting(n)' <=> Waiting(n)
             /\ Known(n)' <=> Known(n)
             /\ Untold(n)' <=> Untold(n)
             /\ Once(n)' <=> Once(n)
  BY <1>2 DEF Waiting, Known, Once, Untold
<1>4. FateInv'
  BY <1>1, <1>2, <1>3 DEF FateInv
<1>5. MeetInv'
  BY <1>1 DEF MeetInv
<1>6. AheadInv'
  BY <1>2, <1>3 DEF AheadInv
<1> QED
  BY <1>4, <1>5, <1>6

LEMMA TreeInitially ==
    ASSUME TreeInit
    PROVE  TreeInv
<1>1. TreeTypeOK
  BY NodesAre, EmptySeq DEF TreeInit, TreeTypeOK
<1>2. JoinedInv /\ JoinedOnce /\ PendingInv /\ FailuresInv /\ PreErrorsInv
  BY DEF TreeInit, JoinedInv, JoinedOnce, PendingInv, FailuresInv, PreErrorsInv
<1>3. PreparingInv /\ FateInv
  BY NodesAre DEF TreeInit, PreparingInv, FateInv
<1>4. MeetInv /\ AheadInv /\ OverInv
  BY DEF TreeInit, MeetInv, AheadInv, OverInv
<1> QED
  BY <1>1, <1>2, <1>3, <1>4 DEF TreeInv

LEMMA TreeStep ==
    ASSUME TreeInv, [TreeNext]_treeVars
    PROVE  TreeInv'
<1> USE DEF TreeInv
<1>1. TreeTypeOK'
  BY TreeTypeStep
<1>2. JoinedInv'
  BY <1>1, JoinedStep
<1>3. JoinedOnce'
  BY JoinedOnceStep
<1>4. PendingInv' /\ FailuresInv' /\ PreErrorsInv' /\ PreparingInv'
  BY <1>1, PendingStep, FailuresStep, PreErrorsStep, PreparingStep
<1>5. OverInv'
  <2>1. Walks => walk' # "over"
    BY WalksAre
  <2> QED
    BY <2>1 DEF OverInv, TreeNext, Walks, SkipPre, EnterPre, RunPre, LeavePre, Flush, Cancel, StepExpires, TreeWalked,
         treeVars, At, Onward, Into, Out
<1>6. FateInv' /\ MeetInv' /\ AheadInv'
  <2>1. CASE walk = "pre"
    BY <1>1, <1>2, <2>1, PreparedFate
  <2>2. CASE Walks
    BY <1>1, <2>2, FateStep, MeetStep, AheadStep
  <2>3. CASE Flush
    BY <1>1, <2>3, FlushStep DEF Flush, MeetInv, AheadInv
  <2>4. CASE Cancel \/ StepExpires \/ TreeWalked \/ UNCHANGED treeVars
    BY <2>4, CutStep DEF Cancel, StepExpires, TreeWalked, treeVars, TreeTypeOK
  <2> QED
    BY <2>1, <2>2, <2>3, <2>4 DEF TreeNext, Walks, SkipPre, EnterPre, RunPre, LeavePre, At
<1> QED
  BY <1>1, <1>2, <1>3, <1>4, <1>5, <1>6

\* Wherever the walks of the tree are, what has been joined, queued and told of
\* is where it belongs.
THEOREM TreeInvariant == TreeSpec => []TreeInv
<1>1. TreeInit => TreeInv
  BY TreeInitially
<1>2. TreeInv /\ [TreeNext]_treeVars => TreeInv'
  BY TreeStep
<1> QED
  BY <1>1, <1>2, PTL DEF TreeSpec

LEMMA ReportedAtEnd ==
    ASSUME TreeInv
    PROVE  PresReported
<1> SUFFICES ASSUME walk = "over", NEW n \in preFailed
             PROVE  LET times == Cardinality(Reports(Pre(n))) + (IF Pre(n) \in joined[0] THEN 1 ELSE 0)
                    IN  times >= 1 /\ (Clean(n) => times = 1)
  BY DEF PresReported, Pre, Clean
<1>1. pending = {} /\ Known(n) /\ (Clean(n) => Once(n))
  BY DEF TreeInv, OverInv, FateInv, Entered
<1>2. Len(warned) \in Nat /\ Reports(Pre(n)) \subseteq 1..Len(warned)
  BY ReportsAre DEF TreeInv
<1>3. IsFiniteSet(Reports(Pre(n)))
  <2>1. IsFiniteSet(1..Len(warned))
    BY <1>2, FS_Interval
  <2> QED
    BY <1>2, <2>1, FS_Subset
<1>4. Cardinality(Reports(Pre(n))) \in Nat /\ (Reports(Pre(n)) # {} => Cardinality(Reports(Pre(n))) # 0)
  BY <1>3, FS_CardinalityType, FS_EmptySet
<1>5. ASSUME Clean(n)
      PROVE  \/ Cardinality(Reports(Pre(n))) = 1 /\ Pre(n) \notin joined[0]
             \/ Cardinality(Reports(Pre(n))) = 0 /\ Pre(n) \in joined[0]
  BY <1>1, <1>5, FS_Singleton, FS_EmptySet DEF Once, Untold
<1> QED
  BY <1>1, <1>4, <1>5 DEF Known

\* A failed pre fails the job or is warned of, once unless its step or the job
\* was cut short, in every tree of actions.
THEOREM PresAreReported == TreeSpec => []PresReported
BY TreeInvariant, ReportedAtEnd, PTL

-----------------------------------------------------------------------------
(* The locks of the actions a job uses.                                    *)

\* What is in an action, and what a `uses` may be.
Kids(lock) == {Describe(u, lock) : u \in Range(UsesIn(lock))}
AllUses == Range(tree.uses) \cup UNION {Range(tree.body[f]) : f \in DOMAIN tree.body}

\* A lock has a form, and its files have a size.
Formed(lock) ==
    /\ lock = Lock(lock.source, lock.repository, lock.ref, lock.commit, lock.path)
    /\ lock.source \in {"workspace", "github"}
    /\ lock.source = "github" => lock.repository \in DOMAIN Bytes

\* What has been found: all of it, of what the steps use.
FoundInv ==
    /\ tree \in Trees
    /\ IsFiniteSet(DOMAIN entries) /\ Charged(DOMAIN entries) <= MaxActionExecutablePathBytes
    /\ \A l \in DOMAIN entries :
         /\ l \in Used /\ Formed(l) /\ Admitted(l) /\ Describable(l)
         /\ DOMAIN entries[l] \subseteq Range(UsesIn(l))
         /\ \A u \in DOMAIN entries[l] : entries[l][u] = Describe(u, l) /\ entries[l][u] \in DOMAIN entries
    /\ turn \in Nat \ {0} /\ turn <= Len(tree.uses) + 1
    /\ selectors \in Seq(DOMAIN entries) /\ Len(selectors) <= Len(tree.uses)
    /\ \A i \in DOMAIN selectors : selectors[i] = Describe(tree.uses[i], Workspace(Blank))

\* The actions walked now are in each other.
FramesInv ==
    /\ Len(frames) <= MaxNestedActionDepth
    /\ \A i \in DOMAIN frames : frames[i].lock \in Levels[i - 1] /\ frames[i].lock \in DOMAIN entries
    /\ \A i, j \in DOMAIN frames : frames[i].lock = frames[j].lock => i = j
    /\ \A i \in DOMAIN frames : i # Len(frames) => frames[i + 1].lock \in Kids(frames[i].lock)

\* The builder has what is in an action, or is still to walk it.
BuildFrames == frames \in Seq([lock : DOMAIN entries, rest : Seq(AllUses)])
BuildInv ==
    walking = "build" =>
        /\ BuildFrames /\ FramesInv
        /\ DOMAIN heights = {}
        /\ Len(selectors) = turn - 1
        /\ \A i \in DOMAIN frames : LET l == frames[i].lock
                                    IN  DOMAIN entries[l] \cup Range(frames[i].rest) = Range(UsesIn(l))
        /\ \A l \in DOMAIN entries :
              (\A i \in DOMAIN frames : frames[i].lock # l) => DOMAIN entries[l] = Range(UsesIn(l))

\* The check has a list that is complete.
CompleteInv ==
    walking \in {"check", "invalid", "valid"} =>
        /\ Len(selectors) = Len(tree.uses)
        /\ \A l \in DOMAIN entries : DOMAIN entries[l] = Range(UsesIn(l))

\* No lock is deeper than its height allows, nor higher than it is deep.
Tall(lock, h) ==
    Levels[MaxNestedActionDepth] = {} =>
        \A n \in 0..MaxNestedActionDepth : lock \in Levels[n] => n + h <= MaxNestedActionDepth

HeightsInv ==
    /\ DOMAIN heights \subseteq DOMAIN entries
    /\ \A l \in DOMAIN heights :
         /\ heights[l] \in Nat \ {0} /\ Tall(l, heights[l])
         /\ \A k \in Kids(l) : k \in DOMAIN heights /\ heights[k] + 1 <= heights[l]

CheckFrames == frames \in Seq([lock : DOMAIN entries, rest : SUBSET AllUses, height : Nat])

\* Of an action that is walked: what is done in it is no higher than it is.
ActionChecked(i) ==
    LET l == frames[i].lock
        h == frames[i].height
    IN  /\ l \notin DOMAIN heights
        /\ frames[i].rest \subseteq Range(UsesIn(l))
        /\ h # 0 /\ i - 1 + h <= MaxNestedActionDepth /\ Tall(l, h)
        /\ \A u \in Range(UsesIn(l)) \ frames[i].rest :
             \/ i # Len(frames) /\ frames[i + 1].lock = Describe(u, l)
             \/ Describe(u, l) \in DOMAIN heights /\ heights[Describe(u, l)] + 1 <= h

\* Of a step of the job.
StepChecked(i) ==
    \/ frames # <<>> /\ frames[1].lock = selectors[i]
    \/ selectors[i] \in DOMAIN heights /\ heights[selectors[i]] <= MaxNestedActionDepth

CheckInv ==
    walking = "check" =>
        /\ CheckFrames /\ FramesInv
        /\ \A i \in DOMAIN frames : ActionChecked(i)
        /\ \A i \in DOMAIN selectors : i < turn => StepChecked(i)

\* What the plan of a job takes.
Acceptable ==
    /\ Levels[MaxNestedActionDepth] = {}
    /\ \A l \in Used : Admitted(l) /\ Describable(l)
    /\ Charged(Used) <= MaxActionExecutablePathBytes

VerdictInv ==
    /\ walking \in {"build", "check", "refused", "invalid", "valid"}
    /\ walking \in {"refused", "invalid"} => ~Acceptable
    /\ walking = "valid" =>
         /\ DOMAIN heights = DOMAIN entries
         /\ \A i \in DOMAIN selectors :
              selectors[i] \in DOMAIN heights /\ heights[selectors[i]] <= MaxNestedActionDepth

LockInv == FoundInv /\ BuildInv /\ CompleteInv /\ HeightsInv /\ CheckInv /\ VerdictInv

-----------------------------------------------------------------------------
(* Levels of what is used.                                                 *)

Below(set) == UNION {Kids(l) : l \in {k \in set : Describable(k)}}
AtTop == {Describe(u, Workspace(Blank)) : u \in Range(tree.uses)}

LEMMA LevelsAre ==
    /\ Levels[0] = AtTop
    /\ \A n \in 0..MaxNestedActionDepth : n # 0 => Levels[n] = Below(Levels[n - 1])
<1> DEFINE D == MaxNestedActionDepth
           Level(f, n) == IF n = 0 THEN AtTop ELSE Below(f[n - 1])
           Is(f) == f = [n \in 0..D |-> Level(f, n)]
           To(f, n) == \A m \in 0..n : f[m] = Level(f, m)
           S == {n \in Nat : ~ \E f : To(f, n)}
           level == CHOOSE f : Is(f)
<1>0. D \in Nat
  BY LockAssumption
<1>1. Levels = level
  BY DEF Levels, AtTop, Below, Kids
<1>2. \E f : To(f, 0)
  <2>1. To([n \in {0} |-> AtTop], 0)
    OBVIOUS
  <2> QED
    BY <2>1
<1>3. ASSUME NEW n \in Nat, NEW f, To(f, n)
      PROVE  \E g : To(g, n + 1)
  <2> DEFINE g == [m \in 0..(n + 1) |-> IF m = n + 1 THEN Below(f[n]) ELSE f[m]]
  <2>1. ASSUME NEW m \in 0..(n + 1)
        PROVE  g[m] = Level(g, m)
    <3>1. CASE m = n + 1
      <4>1. g[m] = Below(f[n]) /\ g[n] = f[n] /\ m - 1 = n /\ m # 0
        BY <3>1
      <4> QED
        BY <4>1
    <3>2. CASE m # n + 1
      <4>1. m \in 0..n /\ g[m] = f[m] /\ (m # 0 => m - 1 \in 0..n /\ g[m - 1] = f[m - 1])
        BY <3>2
      <4> QED
        BY <1>3, <4>1
    <3> QED
      BY <3>1, <3>2
  <2> HIDE DEF g
  <2> QED
    BY <2>1
<1>4. S = {}
  <2> SUFFICES ASSUME S # {} PROVE FALSE
    OBVIOUS
  <2>1. PICK n \in S : \A k \in S : n <= k
    BY LeastNatural
  <2>2. n \in Nat /\ n # 0
    BY <1>2, <2>1
  <2>3. n - 1 \in Nat /\ n - 1 \notin S
    BY <2>1, <2>2
  <2>4. (n - 1) + 1 = n
    BY <2>2
  <2>5. \E g : To(g, n - 1)
    BY <2>3
  <2> HIDE DEF To
  <2>6. \E g : To(g, n)
    BY <1>3, <2>3, <2>4, <2>5
  <2> QED
    BY <2>1, <2>6
<1>5. \E f : Is(f)
  <2>1. PICK f : To(f, D)
    BY <1>0, <1>4
  <2>2. Is([n \in 0..D |-> f[n]])
    <3> DEFINE g == [n \in 0..D |-> f[n]]
    <3>1. \A n \in 0..D : Level(f, n) = Level(g, n)
      BY <1>0
    <3>2. \A n \in 0..D : g[n] = Level(g, n)
      BY <2>1, <3>1
    <3>3. g = [n \in 0..D |-> g[n]]
      OBVIOUS
    <3> HIDE DEF g, Level
    <3>4. [n \in 0..D |-> g[n]] = [n \in 0..D |-> Level(g, n)]
      BY <3>2
    <3>5. g = [n \in 0..D |-> Level(g, n)]
      BY <3>3, <3>4
    <3> QED
      BY <3>5 DEF g
  <2> QED
    BY <2>2
<1>6. Is(level)
  <2> HIDE DEF Is
  <2> QED
    BY <1>5
<1> HIDE DEF level
<1>7. \A n \in 0..D : level[n] = Level(level, n)
  BY ONLY <1>6
<1> QED
  BY <1>0, <1>1, <1>7

LEMMA LevelOf ==
    ASSUME NEW n \in 0..MaxNestedActionDepth, NEW l \in Levels[n], Describable(l), NEW k \in Kids(l)
    PROVE  IF n = MaxNestedActionDepth THEN Levels[MaxNestedActionDepth] # {}
           ELSE n + 1 \in 0..MaxNestedActionDepth /\ k \in Levels[n + 1]
<1>1. CASE n = MaxNestedActionDepth
  BY <1>1
<1>2. CASE n # MaxNestedActionDepth
  <2>1. n + 1 \in 0..MaxNestedActionDepth /\ n + 1 # 0 /\ (n + 1) - 1 = n
    BY <1>2, LockAssumption
  <2>2. Levels[n + 1] = Below(Levels[n])
    BY <2>1, LevelsAre
  <2> QED
    BY <1>2, <2>1, <2>2 DEF Below
<1> QED
  BY <1>1, <1>2

\* What holds at the top, and of what is in an action if it holds of it, holds
\* of all that is used, and of what would be too deep.
LEMMA LevelInduction ==
    ASSUME NEW S, AtTop \subseteq S,
           \A m \in 0..MaxNestedActionDepth :
              m # 0 => \A l \in Levels[m - 1] : l \in S /\ Describable(l) => Kids(l) \subseteq S,
           NEW n \in 0..MaxNestedActionDepth
    PROVE  Levels[n] \subseteq S
<1> DEFINE T == {m \in 0..MaxNestedActionDepth : ~(Levels[m] \subseteq S)}
<1> SUFFICES ASSUME T # {} PROVE FALSE
  OBVIOUS
<1>1. PICK m \in T : \A k \in T : m <= k
  <2>1. T \subseteq Nat
    BY LockAssumption
  <2> HIDE DEF T
  <2> QED
    BY <2>1, LeastNatural
<1>2. m \in Nat /\ m # 0 /\ m \in 0..MaxNestedActionDepth
  BY <1>1, LevelsAre, LockAssumption
<1>3. m - 1 \in 0..MaxNestedActionDepth /\ m - 1 \notin T
  BY <1>1, <1>2, LockAssumption
<1>4. Levels[m] = Below(Levels[m - 1]) /\ Levels[m - 1] \subseteq S
  BY <1>2, <1>3, LevelsAre
<1>5. Levels[m] \subseteq S
  BY <1>2, <1>4 DEF Below
<1> QED
  BY <1>1, <1>5

-----------------------------------------------------------------------------
(* A sum over locks is the size of a set.                                  *)

Weight(l) == Bytes[File(l)[1]]
Pile(set) == UNION {{l} \X (1..Weight(l)) : l \in set}

LEMMA PileOf ==
    ASSUME NEW S, IsFiniteSet(S), \A l \in S : Weight(l) \in Nat
    PROVE  /\ IsFiniteSet(Pile(S)) /\ Cardinality(Pile(S)) \in Nat
           /\ \A l \in S : Cardinality(Pile(S)) = Weight(l) + Cardinality(Pile(S \ {l}))
<1>1. ASSUME NEW l \in S
      PROVE  IsFiniteSet({l} \X (1..Weight(l))) /\ Cardinality({l} \X (1..Weight(l))) = Weight(l)
  <2>1. Weight(l) \in Nat
    OBVIOUS
  <2>2. IsFiniteSet({l}) /\ Cardinality({l}) = 1
    BY FS_Singleton
  <2>3. IsFiniteSet(1..Weight(l)) /\ Cardinality(1..Weight(l)) = Weight(l)
    BY <2>1, FS_Interval
  <2>4. /\ IsFiniteSet({l} \X (1..Weight(l)))
        /\ Cardinality({l} \X (1..Weight(l))) = Cardinality({l}) * Cardinality(1..Weight(l))
    BY ONLY <2>2, <2>3, FS_Product
  <2>5. Cardinality({l} \X (1..Weight(l))) = 1 * Weight(l)
    BY ONLY <2>2, <2>3, <2>4
  <2> QED
    BY <2>1, <2>4, <2>5
<1>2. IsFiniteSet(Pile(S))
  <2> DEFINE P == {{l} \X (1..Weight(l)) : l \in S}
             b == [l \in S |-> {l} \X (1..Weight(l))]
  <2>1. b \in [S -> P] /\ \A t \in P : \E l \in S : b[l] = t
    OBVIOUS
  <2> HIDE DEF b, P
  <2>2. b \in Surjection(S, P)
    BY <2>1, Zenon DEF Surjection
  <2>3. IsFiniteSet(P)
    BY <2>2, FS_Surjection
  <2>4. \A t \in P : IsFiniteSet(t)
    BY <1>1 DEF P
  <2>5. IsFiniteSet(UNION P)
    BY <2>3, <2>4, FS_UNION
  <2> QED
    BY <2>5 DEF Pile, P
<1>3. ASSUME NEW l \in S
      PROVE  Cardinality(Pile(S)) = Weight(l) + Cardinality(Pile(S \ {l}))
  <2> DEFINE A == {l} \X (1..Weight(l))
             B == Pile(S \ {l})
  <2>1. Pile(S) = A \cup B
    BY DEF Pile
  <2>2. A \cap B = {}
    BY DEF Pile
  <2>3. IsFiniteSet(A) /\ Cardinality(A) = Weight(l) /\ IsFiniteSet(B)
    BY <1>1, <1>2, <2>1, FS_Subset
  <2> HIDE DEF A, B
  <2>4. Cardinality(A \cup B) = Cardinality(A) + Cardinality(B) - Cardinality(A \cap B)
    BY <2>3, FS_Union
  <2>5. Cardinality(A \cap B) = 0 /\ Cardinality(B) \in Nat /\ Cardinality(A) \in Nat
    BY <2>2, <2>3, FS_EmptySet, FS_CardinalityType
  <2> QED
    BY <2>1, <2>3, <2>4, <2>5 DEF B
<1> QED
  BY <1>2, <1>3, FS_CardinalityType

LEMMA ChargedIs ==
    ASSUME NEW S, IsFiniteSet(S), \A l \in S : Weight(l) \in Nat
    PROVE  Charged(S) = Cardinality(Pile(S))
<1> DEFINE Pick(s) == CHOOSE x \in s : TRUE
           Sum(f, s) == IF s = {} THEN 0 ELSE Weight(Pick(s)) + f[s \ {Pick(s)}]
           Is(f) == f = [s \in SUBSET S |-> Sum(f, s)]
           g == [s \in SUBSET S |-> Cardinality(Pile(s))]
           sum == CHOOSE f : Is(f)
<1>1. Charged(S) = sum[S]
  BY DEF Charged, MapThenSumSet, MapThenFoldSet, Weight
<1>2. Pile({}) = {} /\ Cardinality({}) = 0
  BY FS_EmptySet DEF Pile
<1>3. ASSUME NEW s \in SUBSET S, s # {}
      PROVE  /\ Pick(s) \in s /\ s \ {Pick(s)} \in SUBSET S
             /\ IsFiniteSet(s) /\ Cardinality(Pile(s)) = Weight(Pick(s)) + Cardinality(Pile(s \ {Pick(s)}))
  <2>1. Pick(s) \in s
    BY <1>3
  <2>2. IsFiniteSet(s)
    BY FS_Subset
  <2> HIDE DEF Pick
  <2> QED
    BY <2>1, <2>2, PileOf
<1>4. Is(g)
  <2>1. ASSUME NEW s \in SUBSET S
        PROVE  Cardinality(Pile(s)) = Sum(g, s)
    <3>1. CASE s = {}
      BY <1>2, <3>1
    <3>2. CASE s # {}
      <4>1. /\ s \ {Pick(s)} \in SUBSET S
            /\ Cardinality(Pile(s)) = Weight(Pick(s)) + Cardinality(Pile(s \ {Pick(s)}))
        BY <1>3, <3>2
      <4> HIDE DEF Pick
      <4>2. g[s \ {Pick(s)}] = Cardinality(Pile(s \ {Pick(s)}))
        BY <4>1
      <4> HIDE DEF g
      <4> QED
        BY <3>2, <4>1, <4>2
    <3> QED
      BY <3>1, <3>2
  <2> HIDE DEF Sum
  <2> QED
    BY <2>1
<1>5. Is(sum)
  <2> HIDE DEF Is, g
  <2> QED
    BY <1>4
<1> HIDE DEF sum, Pick, g
<1>6. \A s \in SUBSET S : sum[s] = Sum(sum, s)
  BY ONLY <1>5
<1>7. ASSUME NEW s \in SUBSET S, sum[s] # Cardinality(Pile(s))
      PROVE  s # {} /\ sum[s \ {Pick(s)}] # Cardinality(Pile(s \ {Pick(s)}))
  <2>1. s # {}
    BY <1>2, <1>6, <1>7
  <2> QED
    BY <1>3, <1>6, <1>7, <2>1
<1> DEFINE Wrong == {n \in Nat : \E s \in SUBSET S : Cardinality(s) = n /\ sum[s] # Cardinality(Pile(s))}
<1>8. Wrong = {}
  <2> SUFFICES ASSUME Wrong # {} PROVE FALSE
    OBVIOUS
  <2>1. PICK n \in Wrong : \A k \in Wrong : n <= k
    BY LeastNatural
  <2>2. PICK s \in SUBSET S : Cardinality(s) = n /\ sum[s] # Cardinality(Pile(s))
    BY <2>1
  <2>3. /\ s # {} /\ Pick(s) \in s /\ s \ {Pick(s)} \in SUBSET S /\ IsFiniteSet(s)
        /\ sum[s \ {Pick(s)}] # Cardinality(Pile(s \ {Pick(s)}))
    BY <1>3, <1>7, <2>2
  <2>4. Cardinality(s \ {Pick(s)}) = n - 1 /\ n \in Nat
    BY <2>1, <2>2, <2>3, FS_RemoveElement
  <2>5. n # 0
    BY <2>2, <2>3, FS_EmptySet
  <2>6. n - 1 \in Wrong
    BY <2>3, <2>4, <2>5
  <2> QED
    BY <2>1, <2>4, <2>6
<1>9. Cardinality(S) \in Nat
  BY FS_CardinalityType
<1> QED
  BY <1>1, <1>8, <1>9

\* More locks weigh no less.
LEMMA ChargedGrows ==
    ASSUME NEW S, IsFiniteSet(S), \A l \in S : Weight(l) \in Nat, NEW T \in SUBSET S
    PROVE  /\ Charged(T) \in Nat /\ Charged(S) \in Nat /\ Charged(T) <= Charged(S)
<1>1. IsFiniteSet(T)
  BY FS_Subset
<1>2. Pile(T) \subseteq Pile(S)
  BY DEF Pile
<1>3. IsFiniteSet(Pile(S)) /\ IsFiniteSet(Pile(T))
  BY <1>1, PileOf
<1>4. Charged(S) = Cardinality(Pile(S)) /\ Charged(T) = Cardinality(Pile(T))
  BY <1>1, ChargedIs
<1> QED
  BY <1>2, <1>3, <1>4, FS_Subset, FS_CardinalityType

-----------------------------------------------------------------------------
(* What is used is finite, and has a form.                                 *)

LEMMA FiniteRange ==
    ASSUME NEW f, IsFiniteSet(DOMAIN f)
    PROVE  IsFiniteSet({f[x] : x \in DOMAIN f})
<1> DEFINE T == {f[x] : x \in DOMAIN f}
           g == [x \in DOMAIN f |-> f[x]]
<1>1. g \in [DOMAIN f -> T] /\ \A t \in T : \E x \in DOMAIN f : g[x] = t
  OBVIOUS
<1> HIDE DEF g, T
<1>2. g \in Surjection(DOMAIN f, T)
  BY <1>1, Zenon DEF Surjection
<1> QED
  BY <1>2, FS_Surjection DEF T

LEMMA SeqRange ==
    ASSUME NEW S, NEW s \in Seq(S)
    PROVE  Range(s) \subseteq S /\ IsFiniteSet(Range(s))
<1>1. DOMAIN s = 1..Len(s) /\ Len(s) \in Nat
  BY LenProperties
<1>2. IsFiniteSet(DOMAIN s)
  BY <1>1, FS_Interval
<1>3. \A i \in DOMAIN s : s[i] \in S
  BY <1>1, ElementOfSeq
<1> QED
  BY <1>2, <1>3, FiniteRange DEF Range

LEMMA UsesAre ==
    ASSUME tree \in Trees
    PROVE  /\ tree.uses \in Seq(AllUses)
           /\ \A l : Describable(l) => UsesIn(l) \in Seq(AllUses)
           /\ \A u \in AllUses :
                /\ u.form \in {"local", "self", "remote"}
                /\ u.form = "remote" => u.repository \in DOMAIN Bytes
<1>1. \A s \in {tree.uses} \cup Range(tree.body) :
         /\ s \in Seq(Range(s))
         /\ \A u \in Range(s) :
              /\ u.form \in {"local", "self", "remote"}
              /\ u.form = "remote" => u.repository \in DOMAIN Bytes
  BY LockAssumption
<1>2. \A f \in DOMAIN tree.body : tree.body[f] \in Range(tree.body)
  BY DEF Range
<1>3. \A s \in {tree.uses} \cup Range(tree.body) : Range(s) \subseteq AllUses
  BY DEF AllUses, Range
<1>4. \A s \in {tree.uses} \cup Range(tree.body) : s \in Seq(AllUses)
  BY <1>1, <1>3, SeqMonotonic
<1>5. ASSUME NEW l, Describable(l)
      PROVE  UsesIn(l) \in Seq(AllUses)
  <2>1. CASE Native(l)
    BY <2>1, EmptySeq DEF UsesIn
  <2>2. CASE ~Native(l)
    BY <1>2, <1>4, <1>5, <2>2 DEF UsesIn, Describable, Described
  <2> QED
    BY <2>1, <2>2
<1>6. ASSUME NEW u \in AllUses
      PROVE  \E s \in {tree.uses} \cup Range(tree.body) : u \in Range(s)
  BY <1>2 DEF AllUses
<1> QED
  BY <1>1, <1>4, <1>5, <1>6

LEMMA DescribedFormed ==
    ASSUME tree \in Trees, NEW u \in AllUses, NEW l, Formed(l)
    PROVE  Formed(Describe(u, l))
<1>1. /\ u.form \in {"local", "self", "remote"}
      /\ u.form = "remote" => u.repository \in DOMAIN Bytes
  BY UsesAre
<1>2. Formed(Containing(l))
  BY LockAssumption DEF Formed, Containing, Lock
<1>3. Formed(Named(u, l))
  <2>1. CASE u.form = "local"
    BY <2>1 DEF Named, Formed, Workspace, Lock
  <2>2. CASE u.form = "self"
    BY <1>2, <2>2 DEF Named, Formed, Lock
  <2>3. CASE u.form = "remote"
    BY <1>1, <2>3 DEF Named, Formed, Lock
  <2> QED
    BY <1>1, <2>1, <2>2, <2>3
<1> HIDE DEF Named
<1> QED
  BY <1>3 DEF Describe, Formed, Lock

\* What an action names, or the workspace.
LEMMA KidsAre ==
    ASSUME tree \in Trees, NEW l, Formed(l), Describable(l)
    PROVE  IsFiniteSet(Kids(l)) /\ \A k \in Kids(l) : Formed(k)
<1>1. Range(UsesIn(l)) \subseteq AllUses /\ IsFiniteSet(Range(UsesIn(l)))
  BY UsesAre, SeqRange
<1> DEFINE f == [u \in Range(UsesIn(l)) |-> Describe(u, l)]
<1>2. IsFiniteSet({f[u] : u \in DOMAIN f})
  <2>1. IsFiniteSet(DOMAIN f)
    BY <1>1
  <2> HIDE DEF f
  <2> QED
    BY <2>1, FiniteRange
<1>3. Kids(l) = {f[u] : u \in DOMAIN f}
  BY DEF Kids
<1> QED
  BY <1>1, <1>2, <1>3, DescribedFormed DEF Kids

LEMMA TopIs ==
    ASSUME tree \in Trees
    PROVE  IsFiniteSet(AtTop) /\ \A k \in AtTop : Formed(k)
<1>1. Range(tree.uses) \subseteq AllUses /\ IsFiniteSet(Range(tree.uses))
  BY UsesAre, SeqRange
<1> DEFINE f == [u \in Range(tree.uses) |-> Describe(u, Workspace(Blank))]
<1>2. IsFiniteSet({f[u] : u \in DOMAIN f})
  <2>1. IsFiniteSet(DOMAIN f)
    BY <1>1
  <2> HIDE DEF f
  <2> QED
    BY <2>1, FiniteRange
<1>3. AtTop = {f[u] : u \in DOMAIN f}
  BY DEF AtTop
<1>4. Formed(Workspace(Blank))
  BY DEF Formed, Workspace, Lock
<1> QED
  <2>1. \A u \in Range(tree.uses) : Formed(Describe(u, Workspace(Blank)))
    BY <1>1, <1>4, DescribedFormed
  <2> QED
    BY <1>2, <1>3, <2>1

LEMMA LevelsFormed ==
    ASSUME tree \in Trees, NEW n \in 0..MaxNestedActionDepth
    PROVE  \A l \in Levels[n] : Formed(l)
<1> DEFINE S == {l \in UNION {Levels[m] : m \in 0..MaxNestedActionDepth} : Formed(l)}
<1>1. AtTop \subseteq S
  BY LevelsAre, TopIs, LockAssumption
<1>2. ASSUME NEW m \in 0..MaxNestedActionDepth, m # 0, NEW l \in Levels[m - 1], l \in S, Describable(l)
      PROVE  Kids(l) \subseteq S
  <2>1. Kids(l) \subseteq Levels[m]
    BY <1>2, LevelsAre DEF Below
  <2> QED
    BY <1>2, <2>1, KidsAre
<1>3. Levels[n] \subseteq S
  <2> HIDE DEF S
  <2> QED
    BY <1>1, <1>2, LevelInduction
<1> QED
  BY <1>3

LEMMA LevelsFinite ==
    ASSUME tree \in Trees, NEW n \in 0..MaxNestedActionDepth
    PROVE  IsFiniteSet(Levels[n])
<1> DEFINE T == {m \in 0..MaxNestedActionDepth : ~IsFiniteSet(Levels[m])}
<1> SUFFICES ASSUME T # {} PROVE FALSE
  OBVIOUS
<1>1. PICK m \in T : \A k \in T : m <= k
  <2>1. T \subseteq Nat
    BY LockAssumption
  <2> HIDE DEF T
  <2> QED
    BY <2>1, LeastNatural
<1>2. m \in Nat /\ m # 0 /\ m \in 0..MaxNestedActionDepth
  BY <1>1, LevelsAre, LockAssumption, TopIs
<1>3. m - 1 \in 0..MaxNestedActionDepth /\ m - 1 \notin T
  BY <1>1, <1>2, LockAssumption
<1>4. Levels[m] = Below(Levels[m - 1]) /\ IsFiniteSet(Levels[m - 1])
  BY <1>2, <1>3, LevelsAre
<1> DEFINE A == {k \in Levels[m - 1] : Describable(k)}
           f == [l \in A |-> Kids(l)]
<1>5. IsFiniteSet(A) /\ \A l \in A : IsFiniteSet(Kids(l))
  BY <1>3, <1>4, FS_Subset, LevelsFormed, KidsAre
<1>6. IsFiniteSet({f[l] : l \in DOMAIN f})
  <2>1. IsFiniteSet(DOMAIN f)
    BY <1>5
  <2> HIDE DEF f
  <2> QED
    BY <2>1, FiniteRange
<1>7. {f[l] : l \in DOMAIN f} = {Kids(l) : l \in A}
  OBVIOUS
<1>8. IsFiniteSet(UNION {Kids(l) : l \in A})
  <2> DEFINE F == {Kids(l) : l \in A}
  <2>1. IsFiniteSet(F) /\ \A x \in F : IsFiniteSet(x)
    BY <1>5, <1>6, <1>7
  <2> HIDE DEF F
  <2>2. IsFiniteSet(UNION F)
    BY <2>1, FS_UNION
  <2> QED
    BY <2>2 DEF F
<1>9. IsFiniteSet(Levels[m])
  BY <1>4, <1>8 DEF Below
<1> QED
  BY <1>1, <1>9

\* What is used can be weighed.
LEMMA UsedIs ==
    ASSUME tree \in Trees
    PROVE  IsFiniteSet(Used) /\ \A l \in Used : Formed(l) /\ Weight(l) \in Nat
<1> DEFINE D == 0..(MaxNestedActionDepth - 1)
           f == [n \in D |-> Levels[n]]
<1>1. D \subseteq 0..MaxNestedActionDepth /\ IsFiniteSet(D)
  BY LockAssumption, FS_Interval
<1>2. IsFiniteSet({f[n] : n \in DOMAIN f})
  <2>1. IsFiniteSet(DOMAIN f)
    BY <1>1
  <2> HIDE DEF f
  <2> QED
    BY <2>1, FiniteRange
<1>3. {f[n] : n \in DOMAIN f} = {Levels[n] : n \in D}
  OBVIOUS
<1>4. \A n \in D : IsFiniteSet(Levels[n]) /\ \A l \in Levels[n] : Formed(l)
  BY <1>1, LevelsFormed, LevelsFinite
<1>5. IsFiniteSet(Used)
  <2> DEFINE F == {Levels[n] : n \in D}
  <2>1. IsFiniteSet(F) /\ \A x \in F : IsFiniteSet(x)
    BY <1>2, <1>3, <1>4
  <2>2. Used = UNION F
    BY DEF Used
  <2> HIDE DEF F
  <2> QED
    BY <2>1, <2>2, FS_UNION
<1>6. ASSUME NEW l \in Used
      PROVE  Formed(l)
  BY <1>4 DEF Used
<1>7. ASSUME NEW l, Formed(l)
      PROVE  Weight(l) \in Nat
  BY <1>7, LockAssumption DEF Formed, Weight, File, Lock
<1> QED
  BY <1>5, <1>6, <1>7

\* A self reference in the repository of the workflow is never replaced.
HomeKept == Home.repository # CacheAction \/ Admitted(Containing(Workspace(Blank)))

LEMMA PathOf ==
    ASSUME NEW l, Formed(l), NEW q
    PROVE  [l EXCEPT !.path = q] = Lock(l.source, l.repository, l.ref, l.commit, q)
BY DEF Formed, Lock

LEMMA DescribedMatches ==
    ASSUME HomeKept, tree \in Trees, NEW u \in AllUses, NEW l, Formed(l), Admitted(l) \/ l = Workspace(Blank)
    PROVE  Matches(u, Describe(u, l), l)
<1>1. u.form \in {"local", "self", "remote"}
  BY UsesAre
<1>2. CASE u.form = "local"
  <2>1. Named(u, l) = Workspace(u.path) /\ Admitted(Workspace(u.path))
    BY <1>2 DEF Named, Admitted, HasAdapter, Workspace, Lock
  <2>2. Describe(u, l) = Workspace(u.path)
    BY <2>1 DEF Describe
  <2>3. Workspace(u.path).path = u.path /\ Workspace(u.path).source = "workspace"
    BY DEF Workspace, Lock
  <2> HIDE DEF Workspace
  <2> QED
    BY <1>2, <2>2, <2>3 DEF Matches
<1>3. CASE u.form = "self"
  <2> DEFINE asked == [Containing(l) EXCEPT !.path = u.path]
  <2>1. Named(u, l) = asked
    BY <1>3 DEF Named
  <2>2. Admitted(asked) \/ asked.repository # CacheAction
    <3>1. CASE l.source = "github"
      <4>1. Workspace(Blank).source = "workspace"
        BY DEF Workspace, Lock
      <4>2. l # Workspace(Blank) /\ Containing(l) = l
        BY <3>1, <4>1 DEF Containing
      <4>3. asked = [l EXCEPT !.path = u.path]
        BY <4>2, Zenon
      <4>4. asked = Lock(l.source, l.repository, l.ref, l.commit, u.path)
        <5> HIDE DEF asked
        <5> QED
          BY <4>3, PathOf, Zenon
      <4>5. asked.source = l.source /\ asked.repository = l.repository /\ asked.commit = l.commit
        <5> HIDE DEF asked
        <5> QED
          BY <4>4 DEF Lock
      <4> HIDE DEF asked
      <4> QED
        BY <4>2, <4>5 DEF Admitted, HasAdapter
    <3>2. CASE l.source # "github"
      <4>1. Containing(l) = Containing(Workspace(Blank))
        BY <3>2 DEF Containing, Workspace, Lock
      <4> QED
        BY <4>1 DEF HomeKept, Admitted, HasAdapter, Containing, Workspace, Lock
    <3> QED
      BY <3>1, <3>2
  <2>3. Describe(u, l) = asked
    BY <2>1, <2>2 DEF Describe
  <2>4. asked.path = u.path /\ asked.source = "github"
    BY DEF Containing, Formed, Lock
  <2> QED
    BY <1>3, <2>3, <2>4 DEF Matches
<1>4. CASE u.form = "remote"
  BY <1>4 DEF Describe, Named, Matches, Lock
<1> QED
  BY <1>1, <1>2, <1>3, <1>4

\* What uses itself is nested deeper than any limit.
LEMMA CyclesAreDeep ==
    ASSUME NEW C, C \cap Levels[0] # {},
           \A l \in C : Describable(l) /\ \E k \in C : k \in Kids(l)
    PROVE  Levels[MaxNestedActionDepth] # {}
<1> DEFINE T == {m \in 0..MaxNestedActionDepth : C \cap Levels[m] = {}}
<1>1. T = {}
  <2> SUFFICES ASSUME T # {} PROVE FALSE
    OBVIOUS
  <2>1. PICK m \in T : \A k \in T : m <= k
    <3>1. T \subseteq Nat
      BY LockAssumption
    <3> HIDE DEF T
    <3> QED
      BY <3>1, LeastNatural
  <2>2. m \in Nat /\ m # 0 /\ m \in 0..MaxNestedActionDepth
    BY <2>1, LockAssumption
  <2>3. m - 1 \in 0..MaxNestedActionDepth /\ m - 1 \notin T
    BY <2>1, <2>2, LockAssumption
  <2>4. PICK l \in C : l \in Levels[m - 1]
    BY <2>3
  <2>5. PICK k \in C : k \in Kids(l)
    OBVIOUS
  <2>6. k \in Levels[m]
    BY <2>2, <2>4, <2>5, LevelsAre DEF Below
  <2> QED
    BY <2>1, <2>6
<1> QED
  BY <1>1, LockAssumption

-----------------------------------------------------------------------------
(* Stacks of frames.                                                       *)

LEMMA Stacks ==
    ASSUME NEW F, NEW s \in Seq(F)
    PROVE  /\ Len(s) \in Nat /\ DOMAIN s = 1..Len(s) /\ \A i \in 1..Len(s) : s[i] \in F
           /\ s # <<>> => Len(s) # 0
           /\ s = <<>> => Len(s) = 0
           /\ \A e \in F : /\ Append(s, e) \in Seq(F) /\ Len(Append(s, e)) = Len(s) + 1
                           /\ DOMAIN Append(s, e) = 1..(Len(s) + 1)
                           /\ \A i \in 1..Len(s) : Append(s, e)[i] = s[i]
                           /\ Append(s, e)[Len(s) + 1] = e
BY LenProperties, EmptySeq, ElementOfSeq

LEMMA TopOfStack ==
    ASSUME NEW F, NEW s \in Seq(F), s # <<>>
    PROVE  /\ Len(s) \in Nat \ {0} /\ Last(s) = s[Len(s)] /\ Last(s) \in F
           /\ Front(s) \in Seq(F) /\ Len(Front(s)) = Len(s) - 1 /\ DOMAIN Front(s) = 1..(Len(s) - 1)
           /\ \A i \in 1..(Len(s) - 1) : Front(s)[i] = s[i]
           /\ Front(s) = <<>> <=> Len(s) = 1
<1>1. Len(s) \in Nat \ {0} /\ \A i \in 1..Len(s) : s[i] \in F
  BY Stacks
<1>2. /\ Front(s) \in Seq(F) /\ Len(Front(s)) = Len(s) - 1
      /\ \A i \in 1..(Len(s) - 1) : Front(s)[i] = s[i]
  <2> DEFINE n == Len(s) - 1
  <2>1. n \in Int /\ 1 \in Int /\ \A i \in 1..n : s[i] \in F
    BY <1>1
  <2>2. /\ SubSeq(s, 1, n) \in Seq(F)
        /\ Len(SubSeq(s, 1, n)) = IF 1 <= n THEN n - 1 + 1 ELSE 0
        /\ \A i \in 1..(n - 1 + 1) : SubSeq(s, 1, n)[i] = s[1 + i - 1]
    <3> HIDE DEF n
    <3> QED
      BY <2>1, SubSeqProperties
  <2>3. (IF 1 <= n THEN n - 1 + 1 ELSE 0) = n /\ n - 1 + 1 = n /\ \A i \in 1..n : 1 + i - 1 = i
    <3> DEFINE m == Len(s)
    <3>1. m \in Nat \ {0}
      BY <1>1
    <3> HIDE DEF m
    <3>2. (IF 1 <= m - 1 THEN (m - 1) - 1 + 1 ELSE 0) = m - 1 /\ (m - 1) - 1 + 1 = m - 1
      BY <3>1
    <3>3. \A i \in 1..(m - 1) : 1 + i - 1 = i
      BY <3>1
    <3> QED
      BY <3>2, <3>3 DEF m
  <2> QED
    BY <2>2, <2>3 DEF Front
<1>3. DOMAIN Front(s) = 1..(Len(s) - 1) /\ (Front(s) = <<>> <=> Len(Front(s)) = 0)
  BY <1>2, LenProperties, EmptySeq
<1> QED
  BY <1>1, <1>2, <1>3 DEF Last

LEMMA HigherOf ==
    ASSUME NEW m \in Nat, NEW n \in Nat
    PROVE  Max({m, n}) \in Nat /\ m <= Max({m, n}) /\ n <= Max({m, n}) /\ Max({m, n}) \in {m, n}
<1> DEFINE S == {m, n}
<1>1. \E x \in S : \A y \in S : x >= y
  OBVIOUS
<1>2. Max(S) \in S /\ \A y \in S : Max(S) >= y
  <2> HIDE DEF S
  <2> QED
    BY <1>1, Zenon DEF Max
<1> QED
  BY <1>2

-----------------------------------------------------------------------------
(* What is met next.                                                       *)

\* Nothing in the tree changes.
LEMMA SameTree ==
    ASSUME tree' = tree
    PROVE  /\ Levels' = Levels /\ Used' = Used /\ AllUses' = AllUses
           /\ \A l : Kids(l)' = Kids(l) /\ UsesIn(l)' = UsesIn(l) /\ Describable(l)' = Describable(l)
           /\ \A l, h : Tall(l, h)' = Tall(l, h)
           /\ Acceptable' = Acceptable
<1>1. \A l : Kids(l)' = Kids(l) /\ UsesIn(l)' = UsesIn(l) /\ Describable(l)' = Describable(l)
  BY DEF Kids, UsesIn, Describable, Described
<1>2. AllUses' = AllUses
  BY DEF AllUses
<1>3. Levels' = Levels
  BY DEF Levels, UsesIn, Describable, Described
<1>4. Used' = Used
  BY <1>3 DEF Used
<1>5. \A l, h : Tall(l, h)' = Tall(l, h)
  BY <1>3 DEF Tall
<1>6. Acceptable' = Acceptable
  BY <1>1, <1>3, <1>4 DEF Acceptable
<1> QED
  BY <1>1, <1>2, <1>3, <1>4, <1>5, <1>6

\* What is used where the walk stands.
Here(u) == IF frames = <<>> THEN u \in Range(tree.uses) ELSE u \in Range(UsesIn(Owner))

LEMMA HereIs ==
    ASSUME FoundInv, FramesInv, NEW F, frames \in Seq(F), NEW u, Here(u)
    PROVE  /\ Len(frames) \in 0..MaxNestedActionDepth /\ u \in AllUses
           /\ Describe(u, Owner) \in Levels[Len(frames)]
           /\ frames # <<>> => /\ Owner = frames[Len(frames)].lock /\ Len(frames) \in DOMAIN frames
                               /\ Owner \in DOMAIN entries /\ Describe(u, Owner) \in Kids(Owner)
           /\ Formed(Owner) /\ (Admitted(Owner) \/ Owner = Workspace(Blank))
<1>1. Len(frames) \in 0..MaxNestedActionDepth
  BY Stacks, LockAssumption DEF FramesInv
<1>2. CASE frames = <<>>
  <2>1. Describe(u, Owner) \in AtTop /\ Len(frames) = 0 /\ u \in AllUses
    BY <1>2, Stacks DEF Here, Owner, AtTop, AllUses
  <2>2. Formed(Workspace(Blank))
    BY DEF Formed, Workspace, Lock
  <2> QED
    BY <1>1, <1>2, <2>1, <2>2, LevelsAre DEF Owner
<1>3. CASE frames # <<>>
  <2> DEFINE n == Len(frames)
  <2>1. n \in Nat \ {0} /\ n \in DOMAIN frames /\ Last(frames) = frames[n]
    <3>1. n \in Nat \ {0} /\ Last(frames) = frames[n]
      BY <1>3, TopOfStack
    <3>2. DOMAIN frames = 1..n
      BY Stacks
    <3> QED
      BY <3>1, <3>2
  <2>2. Owner = frames[n].lock /\ Owner \in Levels[n - 1] /\ Owner \in DOMAIN entries
    BY <1>3, <2>1 DEF FramesInv, Owner
  <2>3. Formed(Owner) /\ Admitted(Owner) /\ Describable(Owner) /\ tree \in Trees
    BY <2>2 DEF FoundInv
  <2>4. Describe(u, Owner) \in Kids(Owner)
    BY <1>3 DEF Here, Kids
  <2>5. u \in AllUses
    BY <1>3, <2>3, UsesAre, SeqRange DEF Here
  <2>6. n - 1 \in 0..MaxNestedActionDepth /\ n - 1 # MaxNestedActionDepth /\ (n - 1) + 1 = n
    BY <1>1, <2>1, LockAssumption
  <2>7. Describe(u, Owner) \in Levels[n]
    BY <2>2, <2>3, <2>4, <2>6, LevelOf
  <2> QED
    BY <1>1, <1>3, <2>1, <2>2, <2>3, <2>4, <2>5, <2>7
<1> QED
  BY <1>2, <1>3

LEMMA WalkedIsDeep ==
    ASSUME FoundInv, FramesInv, NEW F, frames \in Seq(F), NEW u, Here(u), Walked(Describe(u, Owner))
    PROVE  Levels[MaxNestedActionDepth] # {}
<1> DEFINE C == {frames[i].lock : i \in DOMAIN frames}
           lock == Describe(u, Owner)
<1>1. lock \in C /\ frames # <<>> /\ DOMAIN frames = 1..Len(frames) /\ Len(frames) \in Nat \ {0}
  BY Stacks DEF Walked
<1>2. frames[1].lock \in C \cap Levels[0]
  <2>1. 1 \in DOMAIN frames /\ 1 - 1 = 0
    BY <1>1
  <2> QED
    BY <2>1 DEF FramesInv
<1>3. ASSUME NEW i \in DOMAIN frames
      PROVE  Describable(frames[i].lock) /\ \E k \in C : k \in Kids(frames[i].lock)
  <2>1. Describable(frames[i].lock)
    BY DEF FramesInv, FoundInv
  <2>2. CASE i = Len(frames)
    BY <1>1, <2>1, <2>2, HereIs
  <2>3. CASE i # Len(frames)
    <3>1. i + 1 \in DOMAIN frames
      BY <1>1, <2>3
    <3> QED
      BY <2>1, <2>3, <3>1 DEF FramesInv
  <2> QED
    BY <2>2, <2>3
<1>4. \A l \in C : Describable(l) /\ \E k \in C : k \in Kids(l)
  BY <1>3
<1> HIDE DEF C
<1> QED
  BY <1>2, <1>4, CyclesAreDeep

LEMMA Limits == MaxNestedActionDepth \in Nat /\ MaxActionExecutablePathBytes \in Nat
BY LockAssumption

LEMMA HeadAndTail ==
    ASSUME NEW S, NEW s \in Seq(S), s # <<>>
    PROVE  Head(s) \in S /\ Tail(s) \in Seq(S) /\ Range(s) = {Head(s)} \cup Range(Tail(s))
<1>1. /\ Head(s) \in S /\ Tail(s) \in Seq(S) /\ Len(Tail(s)) = Len(s) - 1
      /\ \A i \in 1..Len(Tail(s)) : Tail(s)[i] = s[i + 1]
  BY HeadTailProperties
<1>2. Len(s) \in Nat \ {0} /\ DOMAIN s = 1..Len(s) /\ DOMAIN Tail(s) = 1..(Len(s) - 1)
  BY <1>1, EmptySeq, LenProperties
<1>3. Head(s) = s[1]
  OBVIOUS
<1>4. ASSUME NEW i \in 1..Len(s)
      PROVE  s[i] \in {Head(s)} \cup Range(Tail(s))
  <2>1. CASE i = 1
    BY <1>3, <2>1
  <2>2. CASE i # 1
    <3>1. i - 1 \in 1..(Len(s) - 1) /\ Tail(s)[i - 1] = s[i]
      BY <1>1, <1>2, <2>2
    <3> QED
      BY <1>2, <3>1 DEF Range
  <2> QED
    BY <2>1, <2>2
<1>5. ASSUME NEW i \in 1..(Len(s) - 1)
      PROVE  Tail(s)[i] \in Range(s)
  <2>1. i + 1 \in 1..Len(s) /\ Tail(s)[i] = s[i + 1]
    BY <1>1, <1>2
  <2> QED
    BY <1>2, <2>1 DEF Range
<1>6. Head(s) \in Range(s)
  BY <1>2, <1>3 DEF Range
<1>7. \A x \in Range(s) : x \in {Head(s)} \cup Range(Tail(s))
  BY <1>2, <1>4 DEF Range
<1>8. \A x \in Range(Tail(s)) : x \in Range(s)
  BY <1>2, <1>5 DEF Range
<1> QED
  BY <1>1, <1>6, <1>7, <1>8

LEMMA LeftIs ==
    ASSUME FoundInv, BuildInv, walking = "build", Left # <<>>
    PROVE  /\ Here(Head(Left)) /\ frames \in Seq([lock : DOMAIN entries, rest : Seq(AllUses)])
           /\ frames = <<>> => turn <= Len(tree.uses) /\ Head(Left) = tree.uses[turn]
           /\ frames # <<>> => /\ Left = frames[Len(frames)].rest /\ Tail(Left) \in Seq(AllUses)
                               /\ Range(Left) = {Head(Left)} \cup Range(Tail(Left))
<1> DEFINE F == [lock : DOMAIN entries, rest : Seq(AllUses)]
<1>1. frames \in Seq(F) /\ tree.uses \in Seq(AllUses) /\ turn \in Nat \ {0}
  BY UsesAre DEF BuildInv, BuildFrames, FoundInv
<1>2. Len(tree.uses) \in Nat /\ DOMAIN tree.uses = 1..Len(tree.uses)
  BY <1>1, LenProperties
<1>3. CASE frames = <<>>
  <2>1. Left = SubSeq(tree.uses, turn, Len(tree.uses))
    BY <1>3 DEF Left
  <2>2. turn <= Len(tree.uses)
    <3>1. SUFFICES ASSUME Len(tree.uses) < turn PROVE FALSE
      BY <1>1, <1>2
    <3> QED
      BY <1>1, <1>2, <2>1, <3>1, SubSeqEmpty
  <2>3. Head(Left) = tree.uses[turn]
    BY <1>1, <1>2, <2>1, <2>2, HeadTailOfSubSeq
  <2>4. turn \in DOMAIN tree.uses
    BY <1>1, <1>2, <2>2
  <2>5. Head(Left) \in Range(tree.uses)
    BY <2>3, <2>4 DEF Range
  <2> QED
    BY <1>1, <1>3, <2>2, <2>3, <2>5 DEF Here
<1>4. CASE frames # <<>>
  <2>1. /\ Len(frames) \in Nat \ {0} /\ Last(frames) = frames[Len(frames)] /\ Last(frames) \in F
    BY <1>1, <1>4, TopOfStack
  <2>2. Left = frames[Len(frames)].rest /\ Left \in Seq(AllUses) /\ Owner = frames[Len(frames)].lock
    BY <1>4, <2>1 DEF Left, Owner
  <2>3. Len(frames) \in DOMAIN frames
    BY <1>1, <2>1, Stacks
  <2>4. Tail(Left) \in Seq(AllUses) /\ Range(Left) = {Head(Left)} \cup Range(Tail(Left))
    BY <2>2, HeadAndTail
  <2>5. Head(Left) \in Range(UsesIn(Owner))
    BY <2>2, <2>3, <2>4 DEF BuildInv
  <2> QED
    BY <1>1, <1>4, <2>2, <2>4, <2>5 DEF Here
<1> QED
  BY <1>3, <1>4

-----------------------------------------------------------------------------
(* The builder refuses what no plan could take.                            *)

LEMMA RefuseStep ==
    ASSUME LockInv, Refuse
    PROVE  ~Acceptable
<1> DEFINE u == Head(Left)
           lock == Describe(u, Owner)
           n == Len(frames)
           F == [lock : DOMAIN entries, rest : Seq(AllUses)]
<1>1. FoundInv /\ BuildInv /\ FramesInv /\ walking = "build" /\ Left # <<>> /\ Refusal(lock) /\ tree \in Trees
  BY DEF LockInv, Refuse, BuildInv, FoundInv
<1>2. Here(u) /\ frames \in Seq(F)
  BY <1>1, LeftIs
<1>3. n \in 0..MaxNestedActionDepth /\ lock \in Levels[n]
  BY <1>1, <1>2, HereIs
<1> HIDE DEF u, n
<1>4. CASE n = MaxNestedActionDepth
  BY <1>3, <1>4 DEF Acceptable
<1>5. CASE n # MaxNestedActionDepth
  <2>1. n \in 0..(MaxNestedActionDepth - 1)
    BY <1>3, <1>5, Limits
  <2>2. lock \in Used
    BY <1>3, <2>1 DEF Used
  <2>3. ~(Depth > MaxNestedActionDepth)
    BY <2>1, Limits DEF Depth, n
  <2>4. CASE ~Admitted(lock) \/ ~Describable(lock)
    BY <2>2, <2>4 DEF Acceptable
  <2>5. CASE Walked(lock)
    BY <1>1, <1>2, <2>5, WalkedIsDeep DEF Acceptable
  <2>6. CASE Charged(DOMAIN entries \cup {lock}) > MaxActionExecutablePathBytes
    <3>1. DOMAIN entries \cup {lock} \subseteq Used
      BY <1>1, <2>2 DEF FoundInv
    <3>2. /\ Charged(DOMAIN entries \cup {lock}) \in Nat /\ Charged(Used) \in Nat
          /\ Charged(DOMAIN entries \cup {lock}) <= Charged(Used)
      BY <1>1, <3>1, UsedIs, ChargedGrows
    <3> QED
      BY <2>6, <3>2, Limits DEF Acceptable
  <2> HIDE DEF lock
  <2> QED
    BY <1>1, <2>3, <2>4, <2>5, <2>6 DEF Refusal
<1> QED
  BY <1>4, <1>5

\* What the validator may visit is what is there.
LEMMA VisitableIs ==
    ASSUME LockInv, walking = "check", NEW v \in Visitable
    PROVE  /\ Here(v[1]) /\ v[2] = Describe(v[1], Owner) /\ v[2] \in DOMAIN entries
           /\ frames \in Seq([lock : DOMAIN entries, rest : SUBSET AllUses, height : Nat]) /\ FramesInv
           /\ frames = <<>> => /\ turn \in 1..Len(selectors) /\ v[2] = selectors[turn]
           /\ frames # <<>> => v[1] \in frames[Len(frames)].rest /\ frames[Len(frames)].rest = Last(frames).rest
<1> DEFINE F == [lock : DOMAIN entries, rest : SUBSET AllUses, height : Nat]
<1>1. /\ FoundInv /\ CompleteInv /\ CheckInv /\ FramesInv /\ frames \in Seq(F) /\ tree \in Trees
      /\ tree.uses \in Seq(AllUses) /\ selectors \in Seq(DOMAIN entries) /\ Len(selectors) = Len(tree.uses)
      /\ turn \in Nat \ {0}
  BY UsesAre DEF LockInv, CheckInv, CheckFrames, CompleteInv, FoundInv
<1>2. /\ Len(tree.uses) \in Nat /\ DOMAIN tree.uses = 1..Len(tree.uses)
      /\ DOMAIN selectors = 1..Len(selectors)
  BY <1>1, LenProperties
<1>3. CASE frames = <<>>
  <2>1. turn \in DOMAIN selectors /\ v = <<tree.uses[turn], selectors[turn]>>
    BY <1>3 DEF Visitable
  <2>2. v[1] = tree.uses[turn] /\ v[2] = selectors[turn] /\ turn \in DOMAIN tree.uses
    BY <1>1, <1>2, <2>1
  <2>3. v[1] \in Range(tree.uses) /\ Owner = Workspace(Blank)
    BY <1>3, <2>2 DEF Range, Owner
  <2>4. v[2] = Describe(v[1], Owner) /\ v[2] \in DOMAIN entries
    BY <1>1, <1>2, <2>1, <2>2, <2>3, ElementOfSeq DEF FoundInv
  <2> QED
    BY <1>1, <1>2, <1>3, <2>1, <2>2, <2>3, <2>4 DEF Here
<1>4. CASE frames # <<>>
  <2> DEFINE n == Len(frames)
  <2>1. n \in Nat \ {0} /\ Last(frames) = frames[n] /\ n \in DOMAIN frames
    <3>1. n \in Nat \ {0} /\ Last(frames) = frames[n]
      BY <1>1, <1>4, TopOfStack
    <3>2. DOMAIN frames = 1..n
      BY <1>1, Stacks
    <3> QED
      BY <3>1, <3>2
  <2>2. Owner = frames[n].lock
    BY <1>4, <2>1 DEF Owner
  <2>3. PICK u \in frames[n].rest : v = <<u, entries[Owner][u]>>
    BY <1>4, <2>1 DEF Visitable
  <2>4. Owner \in DOMAIN entries /\ DOMAIN entries[Owner] = Range(UsesIn(Owner))
    BY <1>1, <2>1, <2>2 DEF FramesInv, CompleteInv, LockInv
  <2>5. u \in Range(UsesIn(Owner))
    BY <1>1, <2>1, <2>2, <2>3 DEF CheckInv, ActionChecked, LockInv
  <2>6. entries[Owner][u] = Describe(u, Owner) /\ entries[Owner][u] \in DOMAIN entries
    BY <1>1, <2>4, <2>5 DEF FoundInv
  <2> HIDE DEF n
  <2> QED
    BY <1>1, <1>4, <2>1, <2>3, <2>5, <2>6 DEF Here, n
<1> QED
  BY <1>3, <1>4

\* So does the validator.
LEMMA RejectStep ==
    ASSUME LockInv, Reject, HomeKept
    PROVE  ~Acceptable
<1> DEFINE F == [lock : DOMAIN entries, rest : SUBSET AllUses, height : Nat]
<1>1. FoundInv /\ HeightsInv /\ walking = "check" /\ tree \in Trees
  BY DEF LockInv, Reject, FoundInv
<1>2. ~(Charged(DOMAIN entries) > MaxActionExecutablePathBytes)
  <2>1. DOMAIN entries \subseteq Used
    BY <1>1 DEF FoundInv
  <2>2. Charged(DOMAIN entries) \in Nat
    BY <1>1, <2>1, UsedIs, ChargedGrows
  <2> QED
    BY <1>1, <2>2, Limits DEF FoundInv
<1>3. PICK v \in Visitable : Unacceptable(v[1], v[2])
  BY <1>2 DEF Reject
<1> DEFINE u == v[1]
           lock == v[2]
           n == Len(frames)
<1>4. Here(u) /\ lock = Describe(u, Owner) /\ lock \in DOMAIN entries /\ frames \in Seq(F) /\ FramesInv
  BY <1>1, <1>3, VisitableIs
<1>5. /\ n \in 0..MaxNestedActionDepth /\ u \in AllUses /\ Describe(u, Owner) \in Levels[n]
      /\ Formed(Owner) /\ (Admitted(Owner) \/ Owner = Workspace(Blank))
  BY <1>1, <1>4, HereIs
<1>6. Matches(u, lock, Owner)
  BY <1>1, <1>4, <1>5, DescribedMatches
<1>7. CASE Walked(lock)
  BY <1>1, <1>4, <1>7, WalkedIsDeep DEF Acceptable
<1>8. CASE ~FitsBelow(lock)
  <2> HIDE DEF u, lock, n
  <2>1. CASE lock \notin DOMAIN heights
    <3>1. n + 1 > MaxNestedActionDepth
      BY <1>5, <1>8, <2>1, Limits DEF FitsBelow, Depth, n
    <3>2. n = MaxNestedActionDepth
      BY <1>5, <3>1, Limits
    <3> QED
      BY <1>4, <1>5, <3>2 DEF Acceptable
  <2>2. CASE lock \in DOMAIN heights
    <3>1. heights[lock] \in Nat \ {0} /\ Tall(lock, heights[lock])
      BY <1>1, <2>2 DEF HeightsInv
    <3>2. n + heights[lock] > MaxNestedActionDepth
      BY <1>5, <1>8, <2>2, <3>1, Limits DEF FitsBelow, Depth, n
    <3>3. ~(n + heights[lock] <= MaxNestedActionDepth)
      BY <1>5, <3>1, <3>2, Limits
    <3> QED
      BY <1>4, <1>5, <3>1, <3>3 DEF Acceptable, Tall
  <2> QED
    BY <2>1, <2>2
<1> HIDE DEF u, lock
<1> QED
  BY <1>3, <1>4, <1>6, <1>7, <1>8 DEF Unacceptable, u, lock

-----------------------------------------------------------------------------
(* The builder.                                                            *)

NextUse == Head(Left)
NextLock == Describe(NextUse, Owner)

\* A lock that is added is one of what is used.
LEMMA AddTakes ==
    ASSUME LockInv, Add
    PROVE  /\ walking = "build" /\ walking' = "build" /\ tree' = tree /\ heights' = heights
           /\ Left # <<>> /\ Here(NextUse) /\ frames \in Seq([lock : DOMAIN entries, rest : Seq(AllUses)])
           /\ Len(frames) \in 0..(MaxNestedActionDepth - 1) /\ NextLock \in Levels[Len(frames)]
           /\ NextLock \in Used /\ Formed(NextLock) /\ Admitted(NextLock) /\ Describable(NextLock)
           /\ ~Walked(NextLock)
           /\ Charged(DOMAIN entries \cup {NextLock}) <= MaxActionExecutablePathBytes
<1> DEFINE F == [lock : DOMAIN entries, rest : Seq(AllUses)]
           n == Len(frames)
<1>1. /\ FoundInv /\ BuildInv /\ FramesInv /\ walking = "build" /\ Left # <<>> /\ ~Refusal(NextLock)
      /\ tree \in Trees /\ UNCHANGED <<tree, walking, heights>>
  BY DEF LockInv, Add, BuildInv, FoundInv, NextUse, NextLock
<1>2. Here(NextUse) /\ frames \in Seq(F)
  BY <1>1, LeftIs DEF NextUse
<1>3. n \in 0..MaxNestedActionDepth /\ NextLock \in Levels[n]
  BY <1>1, <1>2, HereIs DEF NextLock
<1>4. /\ ~(Depth > MaxNestedActionDepth) /\ Admitted(NextLock) /\ Describable(NextLock)
      /\ ~Walked(NextLock) /\ ~(Charged(DOMAIN entries \cup {NextLock}) > MaxActionExecutablePathBytes)
  BY <1>1 DEF Refusal
<1>5. n \in 0..(MaxNestedActionDepth - 1)
  BY <1>3, <1>4, Limits DEF Depth
<1>6. NextLock \in Used
  BY <1>3, <1>5 DEF Used
<1>7. Formed(NextLock)
  BY <1>1, <1>6, UsedIs
<1>8. Charged(DOMAIN entries \cup {NextLock}) <= MaxActionExecutablePathBytes
  <2>1. DOMAIN entries \cup {NextLock} \subseteq Used
    BY <1>1, <1>6 DEF FoundInv
  <2>2. Charged(DOMAIN entries \cup {NextLock}) \in Nat
    BY <1>1, <2>1, UsedIs, ChargedGrows
  <2> QED
    BY <1>4, <2>2, Limits
<1> QED
  BY <1>1, <1>2, <1>3, <1>4, <1>5, <1>6, <1>7, <1>8

\* What it does to the list.
LEMMA AddEntries ==
    ASSUME LockInv, Add
    PROVE  /\ DOMAIN entries' = DOMAIN entries \cup {NextLock}
           /\ \A l \in DOMAIN entries : (frames = <<>> \/ l # Owner) => entries'[l] = entries[l]
           /\ frames # <<>> => /\ Owner \in DOMAIN entries
                               /\ DOMAIN entries'[Owner] = DOMAIN entries[Owner] \cup {NextUse}
                               /\ entries'[Owner][NextUse] = NextLock
                               /\ \A u \in DOMAIN entries[Owner] : u # NextUse => entries'[Owner][u] = entries[Owner][u]
           /\ NextLock \notin DOMAIN entries => entries'[NextLock] = <<>>
<1> DEFINE chosen == IF frames = <<>> THEN entries ELSE [entries EXCEPT ![Owner] = With(@, NextUse, NextLock)]
<1>1. entries' = IF NextLock \in DOMAIN entries THEN chosen ELSE With(chosen, NextLock, <<>>)
  BY DEF Add, NextUse, NextLock
<1>2. DOMAIN chosen = DOMAIN entries /\ \A l \in DOMAIN entries : (frames = <<>> \/ l # Owner) => chosen[l] = entries[l]
  OBVIOUS
<1>3. frames # <<>> => Owner \in DOMAIN entries
  BY AddTakes, HereIs DEF LockInv, BuildInv
<1>4. frames # <<>> => chosen[Owner] = With(entries[Owner], NextUse, NextLock)
  BY <1>3
<1> HIDE DEF chosen
<1>5. /\ DOMAIN entries' = DOMAIN chosen \cup {NextLock}
      /\ \A l \in DOMAIN chosen : entries'[l] = chosen[l]
      /\ NextLock \notin DOMAIN chosen => entries'[NextLock] = <<>>
  <2>1. CASE NextLock \in DOMAIN entries
    BY <1>1, <1>2, <2>1
  <2>2. CASE NextLock \notin DOMAIN entries
    <3>1. entries' = With(chosen, NextLock, <<>>)
      BY <1>1, <2>2
    <3>2. /\ DOMAIN entries' = DOMAIN chosen \cup {NextLock} /\ entries'[NextLock] = <<>>
          /\ \A y \in DOMAIN chosen : y # NextLock => entries'[y] = chosen[y]
      BY <3>1 DEF With
    <3> QED
      BY <1>2, <2>2, <3>2
  <2> QED
    BY <2>1, <2>2
<1>6. frames # <<>> => entries'[Owner] = With(entries[Owner], NextUse, NextLock)
  BY <1>2, <1>3, <1>4, <1>5
<1>7. frames # <<>> => /\ DOMAIN entries'[Owner] = DOMAIN entries[Owner] \cup {NextUse}
                       /\ entries'[Owner][NextUse] = NextLock
                       /\ \A u \in DOMAIN entries[Owner] : u # NextUse => entries'[Owner][u] = entries[Owner][u]
  <2> DEFINE f == entries[Owner]
             g == With(f, NextUse, NextLock)
  <2>1. /\ DOMAIN g = DOMAIN f \cup {NextUse} /\ g[NextUse] = NextLock
        /\ \A u \in DOMAIN f : u # NextUse => g[u] = f[u]
    BY DEF With
  <2>2. frames # <<>> => entries'[Owner] = g
    BY <1>6
  <2> HIDE DEF g
  <2> QED
    BY <2>1, <2>2
<1> QED
  BY <1>2, <1>3, <1>5, <1>7

\* What it does to the stack.
LEMMA AddFrames ==
    ASSUME LockInv, Add
    PROVE  /\ BuildFrames' /\ DOMAIN frames = 1..Len(frames) /\ DOMAIN frames' = 1..Len(frames')
           /\ \A i \in DOMAIN frames : i \in DOMAIN frames' /\ frames'[i].lock = frames[i].lock
           /\ \A i \in DOMAIN frames : i # Len(frames) => frames'[i].rest = frames[i].rest
           /\ frames # <<>> => /\ Len(frames) \in DOMAIN frames /\ Owner = frames[Len(frames)].lock
                               /\ Range(frames[Len(frames)].rest) =
                                     {NextUse} \cup Range(frames'[Len(frames)].rest)
           /\ NextLock \in DOMAIN entries => Len(frames') = Len(frames)
           /\ NextLock \notin DOMAIN entries =>
                /\ Len(frames') = Len(frames) + 1 /\ frames'[Len(frames')].lock = NextLock
                /\ frames'[Len(frames')].rest = UsesIn(NextLock)
<1> DEFINE E == DOMAIN entries'
           F == [lock : E, rest : Seq(AllUses)]
           n == Len(frames)
           top == [lock |-> Owner, rest |-> Tail(Left)]
           below == IF frames = <<>> THEN <<>> ELSE Append(Front(frames), top)
           new == [lock |-> NextLock, rest |-> UsesIn(NextLock)]
<1>1. frames' = IF NextLock \in DOMAIN entries THEN below ELSE Append(below, new)
  BY DEF Add, NextUse, NextLock
<1>2. /\ frames \in Seq([lock : DOMAIN entries, rest : Seq(AllUses)]) /\ Left # <<>> /\ Here(NextUse)
      /\ Describable(NextLock) /\ tree' = tree /\ tree \in Trees /\ FoundInv /\ BuildInv /\ FramesInv /\ walking = "build"
  BY AddTakes DEF LockInv, FoundInv, BuildInv
<1>3. DOMAIN entries \subseteq E /\ NextLock \in E
  BY AddEntries
<1> HIDE DEF E
<1>4. frames \in Seq(F)
  <2>1. [lock : DOMAIN entries, rest : Seq(AllUses)] \subseteq F
    BY <1>3
  <2> HIDE DEF F
  <2> QED
    BY <1>2, <2>1, SeqMonotonic
<1>5. new \in F
  BY <1>2, <1>3, UsesAre
<1>6. AllUses' = AllUses
  BY <1>2, SameTree
<1>7. frames # <<>> => /\ top \in F /\ Owner = frames[n].lock /\ Len(frames) \in DOMAIN frames
                       /\ Range(frames[n].rest) = {NextUse} \cup Range(top.rest)
  BY <1>2, <1>3, LeftIs, HereIs DEF NextUse
<1>8. n \in Nat /\ DOMAIN frames = 1..n
  BY <1>4, Stacks
<1> HIDE DEF F, top, new
<1>9. /\ below \in Seq(F) /\ Len(below) = n
      /\ \A i \in 1..n : IF i = n THEN below[i] = top ELSE below[i] = frames[i]
  <2>1. CASE frames = <<>>
    BY <2>1, EmptySeq
  <2>2. CASE frames # <<>>
    <3>1. /\ n \in Nat \ {0} /\ Front(frames) \in Seq(F) /\ Len(Front(frames)) = n - 1
          /\ \A i \in 1..(n - 1) : Front(frames)[i] = frames[i]
      BY <1>4, <2>2, TopOfStack
    <3>2. below = Append(Front(frames), top) /\ top \in F
      BY <1>7, <2>2
    <3> HIDE DEF below, n
    <3>3. /\ below \in Seq(F) /\ Len(below) = n - 1 + 1 /\ \A i \in 1..(n - 1) : below[i] = Front(frames)[i]
          /\ below[n - 1 + 1] = top
      BY <3>1, <3>2, Stacks
    <3>4. n - 1 + 1 = n /\ \A i \in 1..n : i = n \/ i \in 1..(n - 1)
      BY <3>1
    <3> QED
      BY <3>1, <3>3, <3>4
  <2> QED
    BY <2>1, <2>2
<1> HIDE DEF below, n
<1>10. /\ frames' \in Seq(F) /\ \A i \in 1..n : i \in DOMAIN frames' /\ frames'[i] = below[i]
       /\ DOMAIN frames' = 1..Len(frames')
       /\ NextLock \in DOMAIN entries => Len(frames') = n
       /\ NextLock \notin DOMAIN entries => Len(frames') = n + 1 /\ frames'[n + 1] = new
  <2>1. CASE NextLock \in DOMAIN entries
    BY <1>1, <1>9, <2>1, Stacks
  <2>2. CASE NextLock \notin DOMAIN entries
    <3>1. frames' = Append(below, new)
      BY <1>1, <2>2
    <3>2. /\ frames' \in Seq(F) /\ Len(frames') = n + 1 /\ DOMAIN frames' = 1..(n + 1)
          /\ (\A i \in 1..n : frames'[i] = below[i]) /\ frames'[n + 1] = new
      BY <1>5, <1>9, <3>1, Stacks
    <3>3. \A i \in 1..n : i \in 1..(n + 1)
      BY <1>8
    <3> QED
      BY <2>2, <3>2, <3>3
  <2> QED
    BY <2>1, <2>2
<1>11. BuildFrames'
  BY <1>6, <1>10 DEF BuildFrames, F, E
<1>12. frames # <<>> => n \in DOMAIN frames /\ frames'[n] = top
  BY <1>7, <1>8, <1>9, <1>10 DEF n
<1>13. top.lock = Owner /\ top.rest = Tail(Left) /\ new.lock = NextLock /\ new.rest = UsesIn(NextLock)
  BY DEF top, new
<1>14. \A i \in DOMAIN frames : i \in DOMAIN frames' /\ frames'[i].lock = frames[i].lock
  <2> TAKE i \in DOMAIN frames
  <2>1. frames # <<>> /\ i \in 1..n /\ i \in DOMAIN frames' /\ frames'[i] = below[i]
    <3>1. i \in 1..n /\ i \in DOMAIN frames' /\ frames'[i] = below[i]
      BY <1>8, <1>10
    <3>2. frames # <<>>
      BY <1>4, <1>8, <3>1, Stacks DEF n
    <3> QED
      BY <3>1, <3>2
  <2> QED
    BY <1>7, <1>9, <1>13, <2>1 DEF n
<1>15. \A i \in DOMAIN frames : i # n => frames'[i].rest = frames[i].rest
  BY <1>8, <1>9, <1>10
<1> QED
  BY <1>7, <1>8, <1>10, <1>11, <1>12, <1>13, <1>14, <1>15 DEF n

LEMMA AddFinds ==
    ASSUME LockInv, Add
    PROVE  FoundInv'
<1>1. FoundInv /\ BuildInv /\ walking = "build" /\ tree \in Trees /\ tree' = tree
  BY AddTakes DEF LockInv, FoundInv
<1>2. /\ Len(selectors) = turn - 1 /\ turn \in Nat \ {0}
      /\ selectors \in Seq(DOMAIN entries) /\ Len(selectors) <= Len(tree.uses) /\ turn <= Len(tree.uses) + 1
  BY <1>1 DEF BuildInv, FoundInv
<1>3. Len(tree.uses) \in Nat
  BY <1>1, UsesAre, LenProperties
<1>4. DOMAIN entries' = DOMAIN entries \cup {NextLock}
  BY AddEntries
<1>5. IsFiniteSet(DOMAIN entries') /\ (Charged(DOMAIN entries) <= MaxActionExecutablePathBytes)'
  BY <1>1, <1>4, AddTakes, FS_AddElement DEF FoundInv
<1>6. /\ Used' = Used
      /\ \A l : UsesIn(l)' = UsesIn(l) /\ Describable(l)' = Describable(l)
  BY <1>1, SameTree
<1>7. ASSUME NEW l \in DOMAIN entries'
      PROVE  /\ l \in Used /\ Formed(l) /\ Admitted(l) /\ Describable(l)
             /\ DOMAIN entries'[l] \subseteq Range(UsesIn(l))
             /\ \A u \in DOMAIN entries'[l] : entries'[l][u] = Describe(u, l) /\ entries'[l][u] \in DOMAIN entries'
  <2>1. CASE l \notin DOMAIN entries
    <3>1. l = NextLock /\ entries'[l] = <<>>
      BY <1>4, <2>1, AddEntries
    <3> QED
      BY <3>1, AddTakes
  <2>2. CASE l \in DOMAIN entries /\ (frames = <<>> \/ l # Owner)
    BY <1>1, <1>4, <2>2, AddEntries DEF FoundInv
  <2>3. CASE l \in DOMAIN entries /\ frames # <<>> /\ l = Owner
    <3>1. /\ DOMAIN entries'[l] = DOMAIN entries[l] \cup {NextUse} /\ entries'[l][NextUse] = NextLock
          /\ \A u \in DOMAIN entries[l] : u # NextUse => entries'[l][u] = entries[l][u]
      BY <2>3, AddEntries
    <3>2. /\ l \in Used /\ Formed(l) /\ Admitted(l) /\ Describable(l)
          /\ DOMAIN entries[l] \subseteq Range(UsesIn(l))
          /\ \A u \in DOMAIN entries[l] : entries[l][u] = Describe(u, l) /\ entries[l][u] \in DOMAIN entries
      BY <1>1, <2>3 DEF FoundInv
    <3>3. NextUse \in Range(UsesIn(l)) /\ NextLock = Describe(NextUse, l)
      BY <2>3, AddTakes DEF Here, NextLock
    <3> QED
      BY <1>4, <3>1, <3>2, <3>3
  <2> QED
    BY <2>1, <2>2, <2>3
<1>8. /\ turn' \in Nat \ {0} /\ turn' <= Len(tree.uses) + 1
      /\ selectors' \in Seq(DOMAIN entries') /\ Len(selectors') <= Len(tree.uses)
      /\ \A i \in DOMAIN selectors' : selectors'[i] = Describe(tree.uses[i], Workspace(Blank))
  <2>1. selectors \in Seq(DOMAIN entries')
    BY <1>2, <1>4, SeqMonotonic
  <2>2. CASE frames # <<>>
    BY <1>1, <1>2, <2>1, <2>2 DEF Add, FoundInv
  <2>3. CASE frames = <<>>
    <3>1. selectors' = Append(selectors, NextLock) /\ turn' = turn + 1
      BY <2>3 DEF Add, NextUse, NextLock
    <3>2. turn <= Len(tree.uses) /\ NextUse = tree.uses[turn] /\ Owner = Workspace(Blank)
      BY <1>1, <2>3, AddTakes, LeftIs DEF NextUse, Owner
    <3>3. /\ selectors' \in Seq(DOMAIN entries') /\ Len(selectors') = Len(selectors) + 1
          /\ DOMAIN selectors' = 1..(Len(selectors) + 1)
          /\ (\A i \in 1..Len(selectors) : selectors'[i] = selectors[i]) /\ selectors'[Len(selectors) + 1] = NextLock
      BY <1>4, <2>1, <3>1, Stacks
    <3>4. Len(selectors) + 1 = turn /\ DOMAIN selectors = 1..Len(selectors) /\ Len(selectors) \in Nat
      BY <1>2, Stacks
    <3>5. ASSUME NEW i \in DOMAIN selectors'
          PROVE  selectors'[i] = Describe(tree.uses[i], Workspace(Blank))
      <4>1. CASE i = turn
        BY <3>2, <3>3, <3>4, <4>1 DEF NextLock
      <4>2. CASE i # turn
        <5>1. i \in 1..Len(selectors) /\ i \in DOMAIN selectors
          BY <3>3, <3>4, <4>2
        <5> QED
          BY <1>1, <3>3, <5>1 DEF FoundInv
      <4> QED
        BY <4>1, <4>2
    <3>6. turn' \in Nat \ {0} /\ turn' <= Len(tree.uses) + 1 /\ Len(selectors') <= Len(tree.uses)
      BY <1>2, <1>3, <3>1, <3>2, <3>3, <3>4
    <3> QED
      BY <3>3, <3>5, <3>6
  <2> QED
    BY <2>2, <2>3
<1> QED
  BY <1>1, <1>5, <1>6, <1>7, <1>8 DEF FoundInv

\* The stack goes on with a lock of the action it is in, or stays.
Onto(lock) ==
    /\ DOMAIN entries \subseteq DOMAIN entries' /\ lock \in DOMAIN entries'
    /\ Len(frames) \in Nat /\ Len(frames) <= MaxNestedActionDepth
    /\ lock \in Levels[Len(frames)] /\ ~Walked(lock)
    /\ Len(frames) # 0 => lock \in Kids(frames[Len(frames)].lock)
    /\ DOMAIN frames = 1..Len(frames) /\ DOMAIN frames' = 1..Len(frames')
    /\ \A i \in DOMAIN frames : i \in DOMAIN frames' /\ frames'[i].lock = frames[i].lock
    /\ \/ Len(frames') = Len(frames)
       \/ /\ Len(frames') = Len(frames) + 1 /\ frames'[Len(frames) + 1].lock = lock
          /\ Len(frames) + 1 <= MaxNestedActionDepth

LEMMA WalkOn ==
    ASSUME FramesInv, tree' = tree, NEW lock, Onto(lock)
    PROVE  FramesInv'
<1> DEFINE n == Len(frames)
           m == Len(frames')
<1>1. FramesInv /\ Levels' = Levels /\ \A l : Kids(l)' = Kids(l)
  BY SameTree
<1>2. n \in Nat /\ n <= MaxNestedActionDepth /\ MaxNestedActionDepth \in Nat
  BY Limits DEF Onto
<1>3. /\ DOMAIN frames = 1..n /\ DOMAIN frames' = 1..m
      /\ \A i \in DOMAIN frames : i \in DOMAIN frames' /\ frames'[i].lock = frames[i].lock
      /\ m = n \/ (m = n + 1 /\ frames'[n + 1].lock = lock /\ n + 1 <= MaxNestedActionDepth)
      /\ lock \in Levels[n] /\ (n # 0 => lock \in Kids(frames[n].lock)) /\ ~Walked(lock)
      /\ DOMAIN entries \subseteq DOMAIN entries' /\ lock \in DOMAIN entries'
  BY DEF Onto
<1> HIDE DEF n, m
<1>4. ASSUME NEW i \in DOMAIN frames', i \notin DOMAIN frames
      PROVE  i = n + 1 /\ m = i /\ frames'[i].lock = lock
  <2>1. i \in 1..m /\ i \notin 1..n
    BY <1>3, <1>4
  <2>2. i = n + 1 /\ m = i /\ m # n
    BY <1>2, <1>3, <2>1
  <2> QED
    BY <1>3, <2>2
<1>5. m <= MaxNestedActionDepth
  BY <1>2, <1>3
<1>6. ASSUME NEW i \in DOMAIN frames'
      PROVE  frames'[i].lock \in Levels[i - 1] /\ frames'[i].lock \in DOMAIN entries'
  <2>1. CASE i \in DOMAIN frames
    BY <1>1, <1>3, <2>1 DEF FramesInv
  <2>2. CASE i \notin DOMAIN frames
    <3>1. i - 1 = n
      BY <1>2, <1>4, <2>2
    <3> QED
      BY <1>3, <1>4, <2>2, <3>1
  <2> QED
    BY <2>1, <2>2
<1>7. ASSUME NEW i \in DOMAIN frames', NEW j \in DOMAIN frames', frames'[i].lock = frames'[j].lock
      PROVE  i = j
  <2>1. \A k \in DOMAIN frames : frames'[k].lock # lock
    BY <1>3 DEF Walked
  <2>2. CASE i \in DOMAIN frames /\ j \in DOMAIN frames
    BY <1>1, <1>3, <1>7, <2>2 DEF FramesInv
  <2>3. CASE i \notin DOMAIN frames \/ j \notin DOMAIN frames
    BY <1>4, <1>7, <2>1, <2>3
  <2> QED
    BY <2>2, <2>3
<1>8. ASSUME NEW i \in DOMAIN frames', i # m
      PROVE  frames'[i + 1].lock \in Kids(frames'[i].lock)
  <2>1. i \in DOMAIN frames /\ i \in 1..n
    BY <1>3, <1>4, <1>8
  <2>2. CASE i = n
    BY <1>2, <1>3, <1>8, <2>1, <2>2
  <2>3. CASE i # n
    <3>1. i + 1 \in DOMAIN frames
      BY <1>2, <1>3, <2>1, <2>3
    <3> QED
      BY <1>1, <1>3, <2>1, <2>3, <3>1 DEF FramesInv, n
  <2> QED
    BY <2>2, <2>3
<1> QED
  BY <1>1, <1>5, <1>6, <1>7, <1>8 DEF FramesInv, m

LEMMA AddWalks ==
    ASSUME LockInv, Add
    PROVE  FramesInv'
<1>1. FramesInv /\ tree' = tree /\ FoundInv /\ BuildInv
  BY AddTakes DEF LockInv, BuildInv
<1> DEFINE n == Len(frames)
<1>2. /\ n \in 0..(MaxNestedActionDepth - 1) /\ NextLock \in Levels[n] /\ ~Walked(NextLock)
      /\ Here(NextUse) /\ frames \in Seq([lock : DOMAIN entries, rest : Seq(AllUses)])
  BY AddTakes
<1>3. n \in Nat /\ n <= MaxNestedActionDepth /\ n + 1 <= MaxNestedActionDepth
  BY <1>2, Limits
<1>4. DOMAIN entries \subseteq DOMAIN entries' /\ NextLock \in DOMAIN entries'
  BY AddEntries
<1>5. /\ DOMAIN frames = 1..n /\ DOMAIN frames' = 1..Len(frames')
      /\ \A i \in DOMAIN frames : i \in DOMAIN frames' /\ frames'[i].lock = frames[i].lock
      /\ Len(frames') = n \/ (Len(frames') = n + 1 /\ frames'[n + 1].lock = NextLock)
  BY AddFrames
<1>6. n # 0 => NextLock \in Kids(frames[n].lock)
  BY <1>1, <1>2, HereIs, Stacks DEF NextLock
<1> QED
  BY <1>1, <1>2, <1>3, <1>4, <1>5, <1>6, WalkOn DEF Onto

LEMMA AddStep ==
    ASSUME LockInv, Add
    PROVE  LockInv'
<1>1. /\ FoundInv /\ BuildInv /\ HeightsInv /\ VerdictInv /\ walking = "build" /\ walking' = "build" /\ tree' = tree
      /\ heights' = heights /\ DOMAIN heights = {} /\ tree \in Trees
  BY AddTakes DEF LockInv, BuildInv, FoundInv
<1>2. \A l : UsesIn(l)' = UsesIn(l)
  BY <1>1, SameTree
<1>3. ASSUME NEW i \in DOMAIN frames'
      PROVE  DOMAIN entries'[frames'[i].lock] \cup Range(frames'[i].rest) = Range(UsesIn(frames'[i].lock))
  <2>1. CASE i \in DOMAIN frames
    <3> DEFINE l == frames[i].lock
    <3>1. /\ frames'[i].lock = l /\ l \in DOMAIN entries /\ frames # <<>>
          /\ DOMAIN entries[l] \cup Range(frames[i].rest) = Range(UsesIn(l))
      <4>1. frames'[i].lock = l /\ DOMAIN frames = 1..Len(frames)
        BY <2>1, AddFrames
      <4>2. l \in DOMAIN entries /\ DOMAIN entries[l] \cup Range(frames[i].rest) = Range(UsesIn(l))
        BY <1>1, <2>1 DEF BuildInv, FramesInv
      <4>3. frames # <<>>
        BY <2>1, AddTakes, Stacks
      <4> QED
        BY <4>1, <4>2, <4>3
    <3>2. CASE i = Len(frames)
      <4>1. /\ l = Owner /\ Range(frames[i].rest) = {NextUse} \cup Range(frames'[i].rest)
            /\ DOMAIN entries'[l] = DOMAIN entries[l] \cup {NextUse}
        BY <3>1, <3>2, AddFrames, AddEntries
      <4> HIDE DEF l
      <4> QED
        BY <3>1, <4>1
    <3>3. CASE i # Len(frames)
      <4>1. frames'[i].rest = frames[i].rest
        BY <2>1, <3>3, AddFrames
      <4>2. l # Owner
        <5>1. Owner = frames[Len(frames)].lock /\ Len(frames) \in DOMAIN frames
          BY <3>1, AddFrames
        <5> QED
          BY <1>1, <2>1, <3>3, <5>1 DEF BuildInv, FramesInv
      <4>3. entries'[l] = entries[l]
        BY <3>1, <4>2, AddEntries
      <4> HIDE DEF l
      <4> QED
        BY <3>1, <4>1, <4>3
    <3> QED
      BY <3>2, <3>3
  <2>2. CASE i \notin DOMAIN frames
    <3>1. /\ DOMAIN frames = 1..Len(frames) /\ DOMAIN frames' = 1..Len(frames') /\ Len(frames) \in Nat
          /\ NextLock \in DOMAIN entries => Len(frames') = Len(frames)
          /\ NextLock \notin DOMAIN entries => Len(frames') = Len(frames) + 1
      BY AddFrames, AddTakes, Stacks
    <3>2. NextLock \notin DOMAIN entries /\ i = Len(frames')
      <4> DEFINE n == Len(frames)
                 m == Len(frames')
      <4> HIDE DEF n, m
      <4>1. n \in Nat /\ i \in 1..m /\ i \notin 1..n
        BY <2>2, <3>1 DEF n, m
      <4>2. m # n /\ (m = n + 1 => i = m)
        BY <4>1
      <4> QED
        BY <3>1, <4>2 DEF n, m
    <3>3. frames'[i].lock = NextLock /\ frames'[i].rest = UsesIn(NextLock) /\ entries'[NextLock] = <<>>
      BY <3>2, AddFrames, AddEntries
    <3> QED
      BY <3>3
  <2> QED
    BY <2>1, <2>2
<1>4. ASSUME NEW l \in DOMAIN entries', \A i \in DOMAIN frames' : frames'[i].lock # l
      PROVE  DOMAIN entries'[l] = Range(UsesIn(l))
  <2>1. \A i \in DOMAIN frames : frames[i].lock # l
    BY <1>4, AddFrames
  <2>2. l \in DOMAIN entries
    <3>1. SUFFICES ASSUME l \notin DOMAIN entries PROVE FALSE
      OBVIOUS
    <3>2. l = NextLock
      BY <3>1, AddEntries
    <3>3. Len(frames') = Len(frames) + 1 /\ frames'[Len(frames')].lock = l /\ DOMAIN frames' = 1..Len(frames') /\ Len(frames) \in Nat
      BY <3>1, <3>2, AddFrames, AddTakes, Stacks
    <3>4. Len(frames') \in DOMAIN frames'
      BY <3>3
    <3> QED
      BY <1>4, <3>3, <3>4
  <2>3. frames = <<>> \/ l # Owner
    BY <2>1, AddFrames
  <2>4. entries'[l] = entries[l]
    BY <2>2, <2>3, AddEntries
  <2> QED
    BY <1>1, <2>1, <2>2, <2>4 DEF BuildInv
<1>5. Len(selectors') = turn' - 1
  <2>1. Len(selectors) = turn - 1 /\ turn \in Nat \ {0} /\ selectors \in Seq(DOMAIN entries)
    BY <1>1 DEF BuildInv, FoundInv
  <2>2. CASE frames # <<>>
    BY <2>1, <2>2 DEF Add
  <2>3. CASE frames = <<>>
    <3>1. selectors' = Append(selectors, NextLock) /\ turn' = turn + 1
      BY <2>3 DEF Add, NextUse, NextLock
    <3>2. DOMAIN entries \subseteq DOMAIN entries' /\ NextLock \in DOMAIN entries'
      BY AddEntries
    <3>3. selectors \in Seq(DOMAIN entries')
      BY <2>1, <3>2, SeqMonotonic
    <3>4. Len(selectors') = Len(selectors) + 1
      BY <3>1, <3>2, <3>3, Stacks
    <3> QED
      BY <2>1, <3>1, <3>4
  <2> QED
    BY <2>2, <2>3
<1>6. BuildInv'
  BY <1>1, <1>2, <1>3, <1>4, <1>5, AddFrames, AddWalks DEF BuildInv
<1>7. HeightsInv' /\ CompleteInv' /\ CheckInv' /\ VerdictInv'
  BY <1>1 DEF HeightsInv, CompleteInv, CheckInv, VerdictInv
<1> QED
  BY <1>6, <1>7, AddFinds DEF LockInv

\* What is done is complete, the last of all the list.
LEMMA CompleteStep ==
    ASSUME LockInv, Complete
    PROVE  LockInv'
<1> DEFINE F == [lock : DOMAIN entries, rest : Seq(AllUses)]
           n == Len(frames)
<1>1. /\ FoundInv /\ BuildInv /\ HeightsInv /\ VerdictInv /\ FramesInv /\ walking = "build" /\ Left = <<>>
      /\ UNCHANGED <<tree, entries, selectors, heights>>
      /\ frames \in Seq(F) /\ tree \in Trees /\ DOMAIN heights = {} /\ Len(selectors) = turn - 1
  BY DEF LockInv, Complete, BuildInv, FoundInv, BuildFrames
<1>2. /\ Levels' = Levels /\ Used' = Used /\ AllUses' = AllUses
      /\ \A l : Kids(l)' = Kids(l) /\ UsesIn(l)' = UsesIn(l) /\ Describable(l)' = Describable(l)
  BY <1>1, SameTree
<1>3. ASSUME turn' \in Nat \ {0}, turn' <= Len(tree.uses) + 1
      PROVE  FoundInv'
  BY <1>1, <1>2, <1>3 DEF FoundInv
<1>4. CASE frames # <<>>
  <2>1. frames' = Front(frames) /\ walking' = walking /\ turn' = turn
    BY <1>4 DEF Complete
  <2>2. /\ n \in Nat \ {0} /\ frames' \in Seq(F) /\ Len(frames') = n - 1 /\ DOMAIN frames' = 1..(n - 1)
        /\ \A i \in 1..(n - 1) : frames'[i] = frames[i]
    BY <1>1, <1>4, <2>1, TopOfStack
  <2>3. DOMAIN frames = 1..n
    BY <1>1, Stacks
  <2>4. FramesInv'
    <3> HIDE DEF n, F
    <3>1. Len(frames') <= MaxNestedActionDepth
      BY <1>1, <2>2, Limits DEF FramesInv, n
    <3>2. \A i \in DOMAIN frames' : i \in DOMAIN frames /\ frames'[i] = frames[i] /\ i # n
      BY <2>2, <2>3
    <3>3. \A i \in DOMAIN frames' : i # Len(frames') => i + 1 \in DOMAIN frames'
      BY <2>2
    <3> QED
      BY <1>1, <1>2, <3>1, <3>2, <3>3 DEF FramesInv, n
  <2>5. BuildFrames'
    BY <1>1, <1>2, <2>2 DEF BuildFrames
  <2>6. ASSUME NEW l \in DOMAIN entries, \A i \in DOMAIN frames' : frames'[i].lock # l
        PROVE  DOMAIN entries[l] = Range(UsesIn(l))
    <3>1. n \in DOMAIN frames /\ Last(frames) = frames[n]
      <4>1. Last(frames) = frames[n]
        BY <1>1, <1>4, TopOfStack
      <4> HIDE DEF n
      <4> QED
        BY <2>2, <2>3, <4>1
    <3>2. CASE l = frames[n].lock
      <4>1. frames[n].rest = <<>>
        BY <1>1, <1>4, <3>1 DEF Left
      <4>2. Range(frames[n].rest) = {}
        BY <4>1 DEF Range
      <4>3. DOMAIN entries[l] \cup Range(frames[n].rest) = Range(UsesIn(l))
        BY <1>1, <3>1, <3>2 DEF BuildInv
      <4> QED
        BY <4>2, <4>3
    <3>3. CASE l # frames[n].lock
      <4>1. \A i \in DOMAIN frames : frames[i].lock # l
        <5> HIDE DEF n
        <5> QED
          BY <2>2, <2>3, <2>6, <3>3
      <4> QED
        BY <1>1, <4>1 DEF BuildInv
    <3> QED
      BY <3>2, <3>3
  <2>7. \A i \in DOMAIN frames' : i \in DOMAIN frames /\ frames'[i] = frames[i]
    <3> HIDE DEF n
    <3> QED
      BY <2>2, <2>3
  <2>8. BuildInv'
    BY <1>1, <1>2, <2>1, <2>4, <2>5, <2>6, <2>7 DEF BuildInv
  <2>9. FoundInv'
    BY <1>1, <1>3, <2>1 DEF FoundInv
  <2> QED
    BY <1>1, <2>1, <2>8, <2>9 DEF LockInv, HeightsInv, CompleteInv, CheckInv, VerdictInv
<1>5. CASE frames = <<>>
  <2>1. walking' = "check" /\ turn' = 1 /\ frames' = <<>>
    BY <1>5 DEF Complete
  <2>2. tree.uses \in Seq(AllUses) /\ Len(tree.uses) \in Nat /\ DOMAIN tree.uses = 1..Len(tree.uses)
    BY <1>1, UsesAre, LenProperties
  <2>3. turn = Len(tree.uses) + 1
    <3>1. turn \in Nat \ {0} /\ turn <= Len(tree.uses) + 1
      BY <1>1 DEF FoundInv
    <3>2. SUFFICES ASSUME turn <= Len(tree.uses) PROVE FALSE
      BY <2>2, <3>1
    <3>3. SubSeq(tree.uses, turn, Len(tree.uses)) = <<>>
      BY <1>1, <1>5 DEF Left
    <3> DEFINE t == tree.uses
               m == Len(t)
    <3>4. turn \in Int /\ m \in Int /\ \A i \in turn..m : t[i] \in AllUses
      BY <2>2, <3>1, ElementOfSeq
    <3>5. Len(SubSeq(t, turn, m)) = IF turn <= m THEN m - turn + 1 ELSE 0
      <4> HIDE DEF t, m
      <4> QED
        BY <3>4, SubSeqProperties
    <3>6. Len(SubSeq(t, turn, m)) = m - turn + 1 /\ m \in Nat
      BY <2>2, <3>2, <3>5
    <3>7. Len(SubSeq(t, turn, m)) = 0
      BY <3>3, EmptySeq
    <3> HIDE DEF t, m
    <3> QED
      BY <3>1, <3>2, <3>6, <3>7 DEF t, m
  <2>4. Len(selectors) = Len(tree.uses)
    BY <1>1, <2>2, <2>3
  <2>5. \A l \in DOMAIN entries : DOMAIN entries[l] = Range(UsesIn(l))
    <3>1. DOMAIN frames = {}
      BY <1>5
    <3> QED
      BY <1>1, <3>1 DEF BuildInv
  <2>6. FoundInv'
    <3>1. turn' \in Nat \ {0} /\ turn' <= Len(tree.uses) + 1
      BY <2>1, <2>2
    <3> QED
      BY <1>3, <3>1
  <2>7. CompleteInv'
    BY <1>1, <1>2, <2>4, <2>5 DEF CompleteInv
  <2>8. CheckInv'
    <3>1. CheckFrames'
      BY <2>1, EmptySeq DEF CheckFrames
    <3>2. DOMAIN frames' = {} /\ Len(frames') = 0
      BY <2>1, EmptySeq
    <3>3. FramesInv'
      BY <3>2, Limits DEF FramesInv
    <3>4. selectors \in Seq(DOMAIN entries)
      BY <1>1 DEF FoundInv
    <3>5. \A i \in DOMAIN selectors : ~(i < 1)
      BY <3>4, LenProperties
    <3> QED
      BY <1>1, <2>1, <3>1, <3>2, <3>3, <3>5 DEF CheckInv
  <2> QED
    BY <1>1, <2>1, <2>6, <2>7, <2>8 DEF LockInv, HeightsInv, BuildInv, VerdictInv
<1> QED
  BY <1>4, <1>5

-----------------------------------------------------------------------------
(* The validator.                                                          *)

CheckFrame == [lock : DOMAIN entries, rest : SUBSET AllUses, height : Nat]

LEMMA FrameWith ==
    ASSUME NEW f \in CheckFrame, NEW r \in SUBSET AllUses, NEW h \in Nat
    PROVE  /\ [f EXCEPT !.rest = r, !.height = h] = [lock |-> f.lock, rest |-> r, height |-> h]
           /\ [f EXCEPT !.height = h] = [lock |-> f.lock, rest |-> f.rest, height |-> h]
           /\ [lock |-> f.lock, rest |-> r, height |-> h] \in CheckFrame
           /\ [lock |-> f.lock, rest |-> f.rest, height |-> h] \in CheckFrame
<1>1. /\ f = [lock |-> f.lock, rest |-> f.rest, height |-> f.height]
      /\ f.lock \in DOMAIN entries /\ f.rest \in SUBSET AllUses /\ f.height \in Nat
  BY DEF CheckFrame
<1>2. /\ [lock |-> f.lock, rest |-> r, height |-> h] \in CheckFrame
      /\ [lock |-> f.lock, rest |-> f.rest, height |-> h] \in CheckFrame
  BY <1>1 DEF CheckFrame
<1>3. [f EXCEPT !.height = h] = [lock |-> f.lock, rest |-> f.rest, height |-> h]
  BY <1>1
<1>4. [f EXCEPT !.rest = r, !.height = h] = [lock |-> f.lock, rest |-> r, height |-> h]
  <2> DEFINE g == [f EXCEPT !.rest = r]
  <2>1. g = [lock |-> f.lock, rest |-> r, height |-> f.height]
    BY <1>1
  <2>2. [f EXCEPT !.rest = r, !.height = h] = [g EXCEPT !.height = h]
    OBVIOUS
  <2> HIDE DEF g
  <2>3. [g EXCEPT !.height = h] = [lock |-> f.lock, rest |-> r, height |-> h]
    BY <2>1
  <2> QED
    BY <2>2, <2>3
<1> QED
  BY <1>2, <1>3, <1>4

LEMMA UnderIs ==
    ASSUME frames \in Seq(CheckFrame), NEW u, NEW h \in Nat
    PROVE  LET below == Under(u, h)
               n == Len(frames)
           IN  /\ below \in Seq(CheckFrame) /\ Len(below) = n
               /\ \A i \in 1..n : i # n => below[i] = frames[i]
               /\ frames # <<>> => /\ below[n].lock = frames[n].lock
                                   /\ below[n].rest = frames[n].rest \ {u}
                                   /\ below[n].height = Max({frames[n].height, h})
<1> DEFINE below == Under(u, h)
           n == Len(frames)
<1>1. CASE frames = <<>>
  BY <1>1, EmptySeq DEF Under
<1>2. CASE frames # <<>>
  <2> DEFINE f == Last(frames)
             top == [f EXCEPT !.rest = @ \ {u}, !.height = Max({@, h})]
             new == [lock |-> f.lock, rest |-> f.rest \ {u}, height |-> Max({f.height, h})]
  <2>1. /\ n \in Nat \ {0} /\ f = frames[n] /\ f \in CheckFrame /\ Front(frames) \in Seq(CheckFrame)
        /\ Len(Front(frames)) = n - 1 /\ \A i \in 1..(n - 1) : Front(frames)[i] = frames[i]
    BY <1>2, TopOfStack
  <2>2. below = Append(Front(frames), top)
    BY <1>2 DEF Under
  <2> HIDE DEF f
  <2>3. f.rest \ {u} \in SUBSET AllUses /\ f.height \in Nat
    BY <2>1 DEF CheckFrame
  <2>4. Max({f.height, h}) \in Nat
    BY <2>3, HigherOf
  <2>5. top = new /\ new \in CheckFrame
    BY <2>1, <2>3, <2>4, FrameWith
  <2> HIDE DEF below, top, n, new
  <2>6. /\ below \in Seq(CheckFrame) /\ Len(below) = n - 1 + 1 /\ below[n - 1 + 1] = new
        /\ \A i \in 1..(n - 1) : below[i] = Front(frames)[i]
    BY <2>1, <2>2, <2>5, Stacks
  <2>7. n - 1 + 1 = n /\ \A i \in 1..n : i # n => i \in 1..(n - 1)
    BY <2>1
  <2>8. /\ below \in Seq(CheckFrame) /\ Len(below) = n /\ below[n] = new
        /\ \A i \in 1..n : i # n => below[i] = frames[i]
    BY <2>1, <2>6, <2>7
  <2> QED
    BY <2>1, <2>8 DEF new, below, n
<1> QED
  BY <1>1, <1>2

\* A lock is as high as what it uses allows.
LEMMA TallOver ==
    ASSUME NEW l, Describable(l), NEW k \in Kids(l), NEW h \in Nat, Tall(k, h)
    PROVE  Tall(l, h + 1)
<1> SUFFICES ASSUME Levels[MaxNestedActionDepth] = {}, NEW n \in 0..MaxNestedActionDepth, l \in Levels[n]
             PROVE  n + (h + 1) <= MaxNestedActionDepth
  BY DEF Tall
<1>1. n # MaxNestedActionDepth
  OBVIOUS
<1>2. n + 1 \in 0..MaxNestedActionDepth /\ k \in Levels[n + 1]
  BY <1>1, LevelOf
<1>3. (n + 1) + h <= MaxNestedActionDepth
  BY <1>2 DEF Tall
<1> QED
  BY <1>3, Limits

LEMMA TallAtLeast ==
    ASSUME NEW l
    PROVE  Tall(l, 1)
<1> SUFFICES ASSUME Levels[MaxNestedActionDepth] = {}, NEW n \in 0..MaxNestedActionDepth, l \in Levels[n]
             PROVE  n + 1 <= MaxNestedActionDepth
  BY DEF Tall
<1>1. n # MaxNestedActionDepth
  OBVIOUS
<1> QED
  BY <1>1, Limits

\* What is visited, and the stack then.
LEMMA VisitDoes ==
    ASSUME LockInv, Visit
    PROVE  \E u, lock :
             LET n == Len(frames)
                 h == IF lock \in DOMAIN heights THEN heights[lock] + 1 ELSE 1
             IN  /\ Here(u) /\ lock = Describe(u, Owner) /\ lock \in DOMAIN entries /\ ~Walked(lock)
                 /\ lock \notin DOMAIN heights => n + 1 <= MaxNestedActionDepth
                 /\ lock \in DOMAIN heights => n + heights[lock] <= MaxNestedActionDepth
                 /\ frames = <<>> => turn \in 1..Len(selectors) /\ lock = selectors[turn]
                 /\ frames # <<>> => u \in frames[n].rest
                 /\ frames' = IF lock \in DOMAIN heights THEN Under(u, h)
                              ELSE Append(Under(u, h), [lock |-> lock, rest |-> DOMAIN entries[lock], height |-> 1])
<1>1. walking = "check" /\ FoundInv /\ HeightsInv
  BY DEF Visit, LockInv
<1>2. PICK v \in Visitable :
         /\ ~Unacceptable(v[1], v[2])
         /\ frames' = IF v[2] \in DOMAIN heights THEN Under(v[1], heights[v[2]] + 1)
                      ELSE Append(Under(v[1], 1), [lock |-> v[2], rest |-> DOMAIN entries[v[2]], height |-> 1])
  BY DEF Visit
<1> DEFINE u == v[1]
           lock == v[2]
           n == Len(frames)
<1>3. /\ Here(u) /\ lock = Describe(u, Owner) /\ lock \in DOMAIN entries /\ FramesInv
      /\ frames = <<>> => turn \in 1..Len(selectors) /\ lock = selectors[turn]
      /\ frames # <<>> => u \in frames[n].rest
      /\ frames \in Seq([lock : DOMAIN entries, rest : SUBSET AllUses, height : Nat])
  BY <1>1, VisitableIs
<1>4. ~Walked(lock) /\ FitsBelow(lock)
  BY <1>2 DEF Unacceptable
<1>5. n \in Nat
  BY <1>3, Stacks
<1> HIDE DEF u, lock, n
<1>6. lock \notin DOMAIN heights => n + 1 <= MaxNestedActionDepth
  BY <1>4, <1>5, Limits DEF FitsBelow, Depth, n
<1>7. lock \in DOMAIN heights => n + heights[lock] <= MaxNestedActionDepth
  <2> SUFFICES ASSUME lock \in DOMAIN heights PROVE n + heights[lock] <= MaxNestedActionDepth
    OBVIOUS
  <2>1. heights[lock] \in Nat
    BY <1>1 DEF HeightsInv
  <2>2. n + 1 + (heights[lock] - 1) <= MaxNestedActionDepth
    BY <1>4 DEF FitsBelow, Depth, n
  <2> QED
    BY <1>5, <2>1, <2>2, Limits
<1>8. frames' = IF lock \in DOMAIN heights THEN Under(u, heights[lock] + 1)
                ELSE Append(Under(u, 1), [lock |-> lock, rest |-> DOMAIN entries[lock], height |-> 1])
  BY <1>2 DEF u, lock
<1> QED
  BY <1>3, <1>4, <1>6, <1>7, <1>8 DEF n

VisitStack(u, lock) ==
    /\ frames' \in Seq(CheckFrame)
    /\ DOMAIN frames = 1..Len(frames) /\ DOMAIN frames' = 1..Len(frames')
    /\ \A i \in DOMAIN frames : i \in DOMAIN frames' /\ frames'[i].lock = frames[i].lock
    /\ \A i \in DOMAIN frames : i # Len(frames) => frames'[i] = frames[i]
    /\ frames # <<>> =>
         /\ Len(frames) \in DOMAIN frames /\ Owner = frames[Len(frames)].lock
         /\ frames'[Len(frames)].rest = frames[Len(frames)].rest \ {u}
         /\ frames'[Len(frames)].height =
              Max({frames[Len(frames)].height, IF lock \in DOMAIN heights THEN heights[lock] + 1 ELSE 1})
    /\ lock \in DOMAIN heights => Len(frames') = Len(frames)
    /\ lock \notin DOMAIN heights =>
         /\ Len(frames') = Len(frames) + 1
         /\ frames'[Len(frames) + 1] = [lock |-> lock, rest |-> DOMAIN entries[lock], height |-> 1]

LEMMA VisitFrames ==
    ASSUME LockInv, Visit
    PROVE  \E u, lock :
             /\ Here(u) /\ lock = Describe(u, Owner) /\ lock \in DOMAIN entries
             /\ lock \notin DOMAIN heights => Len(frames) + 1 <= MaxNestedActionDepth
             /\ lock \in DOMAIN heights => Len(frames) + heights[lock] <= MaxNestedActionDepth
             /\ frames = <<>> => turn \in 1..Len(selectors) /\ lock = selectors[turn]
             /\ frames # <<>> => u \in frames[Len(frames)].rest
             /\ Onto(lock) /\ VisitStack(u, lock)
<1> DEFINE n == Len(frames)
           m == Len(frames')
<1>1. /\ walking = "check" /\ FoundInv /\ CompleteInv /\ HeightsInv /\ FramesInv /\ frames \in Seq(CheckFrame)
      /\ tree' = tree /\ entries' = entries /\ tree \in Trees
  BY DEF Visit, LockInv, CheckInv, CheckFrames, CheckFrame, FoundInv
<1>2. PICK u, lock :
         LET h == IF lock \in DOMAIN heights THEN heights[lock] + 1 ELSE 1
         IN  /\ Here(u) /\ lock = Describe(u, Owner) /\ lock \in DOMAIN entries /\ ~Walked(lock)
             /\ lock \notin DOMAIN heights => n + 1 <= MaxNestedActionDepth
             /\ lock \in DOMAIN heights => n + heights[lock] <= MaxNestedActionDepth
             /\ frames = <<>> => turn \in 1..Len(selectors) /\ lock = selectors[turn]
             /\ frames # <<>> => u \in frames[n].rest
             /\ frames' = IF lock \in DOMAIN heights THEN Under(u, h)
                          ELSE Append(Under(u, h), [lock |-> lock, rest |-> DOMAIN entries[lock], height |-> 1])
  BY VisitDoes
<1> DEFINE h == IF lock \in DOMAIN heights THEN heights[lock] + 1 ELSE 1
           below == Under(u, h)
           new == [lock |-> lock, rest |-> DOMAIN entries[lock], height |-> 1]
<1>3. h \in Nat
  BY <1>1 DEF HeightsInv
<1>4. /\ n \in 0..MaxNestedActionDepth /\ lock \in Levels[n]
      /\ frames # <<>> => /\ Owner = frames[n].lock /\ n \in DOMAIN frames /\ lock \in Kids(Owner)
  BY <1>1, <1>2, HereIs
<1>5. new \in CheckFrame
  <2>1. Describable(lock) /\ DOMAIN entries[lock] = Range(UsesIn(lock))
    BY <1>1, <1>2 DEF FoundInv, CompleteInv
  <2>2. Range(UsesIn(lock)) \subseteq AllUses
    BY <1>1, <2>1, UsesAre, SeqRange
  <2> QED
    BY <1>2, <2>1, <2>2 DEF CheckFrame
<1>6. /\ below \in Seq(CheckFrame) /\ Len(below) = n
      /\ \A i \in 1..n : i # n => below[i] = frames[i]
      /\ frames # <<>> => /\ below[n].lock = frames[n].lock /\ below[n].rest = frames[n].rest \ {u}
                          /\ below[n].height = Max({frames[n].height, h})
  <2> HIDE DEF h
  <2> QED
    BY <1>1, <1>3, UnderIs
<1>7. frames' = IF lock \in DOMAIN heights THEN below ELSE Append(below, new)
  BY <1>2
<1>8. n \in Nat /\ DOMAIN frames = 1..n /\ (frames # <<>> => n # 0) /\ (frames = <<>> => n = 0)
  BY <1>1, Stacks
<1>9. /\ lock \notin DOMAIN heights => n + 1 <= MaxNestedActionDepth
      /\ Here(u) /\ lock = Describe(u, Owner) /\ lock \in DOMAIN entries /\ ~Walked(lock)
      /\ lock \in DOMAIN heights => n + heights[lock] <= MaxNestedActionDepth
      /\ frames = <<>> => turn \in 1..Len(selectors) /\ lock = selectors[turn]
      /\ frames # <<>> => u \in frames[n].rest
  BY <1>2
<1> HIDE DEF n, m, h, below, new
<1>10. /\ frames' \in Seq(CheckFrame) /\ DOMAIN frames' = 1..m
       /\ \A i \in 1..n : i \in DOMAIN frames' /\ frames'[i] = below[i]
       /\ lock \in DOMAIN heights => m = n
       /\ lock \notin DOMAIN heights => m = n + 1 /\ frames'[n + 1] = new
  <2>1. CASE lock \in DOMAIN heights
    BY <1>6, <1>7, <2>1, Stacks DEF m
  <2>2. CASE lock \notin DOMAIN heights
    <3>1. frames' = Append(below, new)
      BY <1>7, <2>2
    <3>2. /\ frames' \in Seq(CheckFrame) /\ m = n + 1 /\ DOMAIN frames' = 1..(n + 1)
          /\ (\A i \in 1..n : frames'[i] = below[i]) /\ frames'[n + 1] = new
      BY <1>5, <1>6, <3>1, Stacks DEF m
    <3>3. \A i \in 1..n : i \in 1..(n + 1)
      BY <1>8
    <3> QED
      BY <2>2, <3>2, <3>3
  <2> QED
    BY <2>1, <2>2
<1>11. \A i \in DOMAIN frames : i \in DOMAIN frames' /\ frames'[i].lock = frames[i].lock
  <2> TAKE i \in DOMAIN frames
  <2>1. i \in 1..n /\ i \in DOMAIN frames' /\ frames'[i] = below[i] /\ frames # <<>>
    BY <1>8, <1>10
  <2> QED
    BY <1>6, <2>1
<1>12. \A i \in DOMAIN frames : i # n => frames'[i] = frames[i]
  BY <1>6, <1>8, <1>10
<1>13. frames # <<>> => /\ n \in DOMAIN frames /\ Owner = frames[n].lock
                        /\ frames'[n].rest = frames[n].rest \ {u}
                        /\ frames'[n].height = Max({frames[n].height, h})
  BY <1>4, <1>6, <1>8, <1>10
<1>14. VisitStack(u, lock)
  BY <1>8, <1>10, <1>11, <1>12, <1>13 DEF VisitStack, n, m, h, new
<1>15. Onto(lock)
  <2>1. n \in Nat /\ n <= MaxNestedActionDepth
    BY <1>4, <1>8, Limits
  <2>2. n # 0 => lock \in Kids(frames[n].lock)
    BY <1>4, <1>8
  <2> QED
    <3>1. m = n \/ (m = n + 1 /\ frames'[n + 1].lock = lock /\ n + 1 <= MaxNestedActionDepth)
      BY <1>9, <1>10 DEF new
    <3>2. DOMAIN entries \subseteq DOMAIN entries' /\ lock \in DOMAIN entries'
      BY <1>1, <1>9
    <3> QED
      BY <1>4, <1>8, <1>9, <1>10, <1>11, <2>1, <2>2, <3>1, <3>2 DEF Onto, n, m
<1> QED
  BY <1>9, <1>14, <1>15 DEF n

LEMMA VisitStep ==
    ASSUME LockInv, Visit
    PROVE  LockInv'
<1> DEFINE n == Len(frames)
           m == Len(frames')
<1>1. /\ FoundInv /\ CompleteInv /\ HeightsInv /\ FramesInv /\ CheckInv /\ VerdictInv /\ walking = "check"
      /\ frames \in Seq(CheckFrame) /\ UNCHANGED <<tree, walking, entries, selectors, heights>>
      /\ turn' = IF frames = <<>> THEN turn + 1 ELSE turn
  BY DEF Visit, LockInv, CheckInv, CheckFrames, CheckFrame
<1>2. /\ Used' = Used /\ AllUses' = AllUses /\ Levels' = Levels
      /\ \A l : Kids(l)' = Kids(l) /\ UsesIn(l)' = UsesIn(l) /\ Describable(l)' = Describable(l)
      /\ \A l, x : Tall(l, x)' = Tall(l, x)
  BY <1>1, SameTree
<1>3. PICK u, lock :
         /\ Here(u) /\ lock = Describe(u, Owner) /\ lock \in DOMAIN entries
         /\ lock \notin DOMAIN heights => n + 1 <= MaxNestedActionDepth
         /\ lock \in DOMAIN heights => n + heights[lock] <= MaxNestedActionDepth
         /\ frames = <<>> => turn \in 1..Len(selectors) /\ lock = selectors[turn]
         /\ frames # <<>> => u \in frames[n].rest
         /\ Onto(lock) /\ VisitStack(u, lock)
  BY VisitFrames
<1> DEFINE h == IF lock \in DOMAIN heights THEN heights[lock] + 1 ELSE 1
<1>4. h \in Nat \ {0} /\ (lock \in DOMAIN heights => h = heights[lock] + 1 /\ heights[lock] \in Nat \ {0})
  BY <1>1 DEF HeightsInv
<1>5. /\ DOMAIN frames = 1..n /\ DOMAIN frames' = 1..m
      /\ \A i \in DOMAIN frames : i \in DOMAIN frames' /\ frames'[i].lock = frames[i].lock
      /\ \A i \in DOMAIN frames : i # n => frames'[i] = frames[i]
      /\ frames # <<>> => /\ n \in DOMAIN frames /\ Owner = frames[n].lock
                          /\ frames'[n].rest = frames[n].rest \ {u}
                          /\ frames'[n].height = Max({frames[n].height, h})
      /\ lock \in DOMAIN heights => m = n
      /\ lock \notin DOMAIN heights =>
           /\ m = n + 1 /\ frames'[n + 1] = [lock |-> lock, rest |-> DOMAIN entries[lock], height |-> 1]
  BY <1>3 DEF VisitStack
<1>6. n \in Nat /\ (frames = <<>> <=> n = 0) /\ MaxNestedActionDepth \in Nat
  BY <1>1, Stacks, Limits
<1>7. FoundInv'
  <2>1. tree.uses \in Seq(AllUses) /\ Len(tree.uses) \in Nat
    BY <1>1, UsesAre, LenProperties DEF FoundInv
  <2>2. selectors \in Seq(DOMAIN entries) /\ Len(selectors) <= Len(tree.uses) /\ turn \in Nat \ {0} /\ turn <= Len(tree.uses) + 1
    BY <1>1 DEF FoundInv
  <2>3. Len(selectors) \in Nat
    BY <2>2, LenProperties
  <2>4. turn' \in Nat \ {0} /\ turn' <= Len(tree.uses) + 1
    BY <1>1, <1>3, <2>1, <2>2, <2>3
  <2> QED
    BY <1>1, <1>2, <2>4 DEF FoundInv
<1>8. CheckFrames' /\ FramesInv'
  <2>1. CheckFrames'
    BY <1>1, <1>2, <1>3 DEF CheckFrames, VisitStack, CheckFrame
  <2> QED
    BY <1>1, <1>3, <2>1, WalkOn
<1> HIDE DEF n, m, h
<1>9. ASSUME NEW i \in DOMAIN frames'
      PROVE  ActionChecked(i)'
  <2>1. CASE i \in DOMAIN frames /\ i # n
    <3>1. ActionChecked(i) /\ frames'[i] = frames[i] /\ i + 1 \in DOMAIN frames /\ i # m
      BY <1>1, <1>5, <1>6, <2>1 DEF CheckInv
    <3>2. frames'[i + 1].lock = frames[i + 1].lock
      BY <1>5, <3>1
    <3> QED
      BY <1>1, <1>2, <3>1, <3>2 DEF ActionChecked, m
  <2>2. CASE i = n /\ i \in DOMAIN frames
    <3> DEFINE l == frames[n].lock
               f == frames[n]
               g == frames'[n]
    <3>1. /\ ActionChecked(n) /\ frames # <<>> /\ g.lock = l /\ l = Owner
          /\ g.rest = f.rest \ {u} /\ g.height = Max({f.height, h}) /\ f.height \in Nat /\ l \in DOMAIN entries
      <4>1. frames[n] \in CheckFrame
        BY <1>1, <1>5, <2>2, Stacks DEF n
      <4> QED
        BY <1>1, <1>5, <1>6, <2>2, <4>1 DEF CheckInv, CheckFrame
    <3>2. /\ l \notin DOMAIN heights /\ f.rest \subseteq Range(UsesIn(l))
          /\ f.height # 0 /\ n - 1 + f.height <= MaxNestedActionDepth /\ Tall(l, f.height)
          /\ \A x \in Range(UsesIn(l)) \ f.rest :
               Describe(x, l) \in DOMAIN heights /\ heights[Describe(x, l)] + 1 <= f.height
      BY <3>1 DEF ActionChecked, n
    <3>3. f.height <= g.height /\ h <= g.height /\ g.height \in {f.height, h} /\ g.height \in Nat
      BY <1>4, <3>1, HigherOf
    <3>4. lock = Describe(u, l) /\ lock \in Kids(l) /\ Describable(l)
      BY <1>1, <1>3, <3>1 DEF FoundInv, Here, Kids
    <3>5. Tall(l, h)
      <4>1. CASE lock \in DOMAIN heights
        <5>1. Tall(lock, heights[lock])
          BY <1>1, <4>1 DEF HeightsInv
        <5> QED
          BY <1>4, <3>4, <4>1, <5>1, TallOver
      <4>2. CASE lock \notin DOMAIN heights
        BY <4>2, TallAtLeast DEF h
      <4> QED
        BY <4>1, <4>2
    <3>6. Tall(l, g.height)
      BY <3>2, <3>3, <3>5
    <3>7. n - 1 + h <= MaxNestedActionDepth
      <4>1. CASE lock \in DOMAIN heights
        BY <1>3, <1>4, <1>6, <4>1 DEF n
      <4>2. CASE lock \notin DOMAIN heights
        <5>1. n + 1 <= MaxNestedActionDepth
          BY <1>3, <4>2 DEF n
        <5> QED
          BY <1>6, <4>2, <5>1 DEF h
      <4> QED
        BY <4>1, <4>2
    <3>8. g.height # 0 /\ n - 1 + g.height <= MaxNestedActionDepth
      BY <1>4, <3>2, <3>3, <3>7
    <3>9. ASSUME NEW x \in Range(UsesIn(l)) \ g.rest
          PROVE  \/ n # m /\ frames'[n + 1].lock = Describe(x, l)
                 \/ Describe(x, l) \in DOMAIN heights /\ heights[Describe(x, l)] + 1 <= g.height
      <4>1. CASE x = u /\ lock \in DOMAIN heights
        BY <1>4, <3>3, <3>4, <4>1
      <4>2. CASE x = u /\ lock \notin DOMAIN heights
        <5>1. m # n /\ frames'[n + 1].lock = lock
          BY <1>5, <1>6, <4>2
        <5> QED
          BY <3>4, <4>2, <5>1
      <4>3. CASE x # u
        <5>1. x \in Range(UsesIn(l)) \ f.rest
          BY <3>1, <4>3
        <5>2. Describe(x, l) \in DOMAIN heights /\ heights[Describe(x, l)] + 1 <= f.height
          BY <3>2, <5>1
        <5>3. heights[Describe(x, l)] \in Nat
          BY <1>1, <5>2 DEF HeightsInv
        <5> QED
          BY <3>1, <3>3, <5>2, <5>3
      <4> QED
        BY <4>1, <4>2, <4>3
    <3>10. g.rest \subseteq Range(UsesIn(l))
      BY <3>1, <3>2
    <3> HIDE DEF l, f
    <3> QED
      BY <1>1, <1>2, <2>2, <3>1, <3>2, <3>6, <3>8, <3>9, <3>10 DEF ActionChecked, m, l, f
  <2>3. CASE i \notin DOMAIN frames
    <3>1. lock \notin DOMAIN heights /\ i = n + 1 /\ i = m
      BY <1>5, <1>6, <2>3
    <3>2. frames'[i] = [lock |-> lock, rest |-> DOMAIN entries[lock], height |-> 1]
      BY <1>5, <3>1
    <3>3. frames'[i].lock = lock /\ frames'[i].rest = DOMAIN entries[lock] /\ frames'[i].height = 1
      BY <3>2
    <3>4. DOMAIN entries[lock] = Range(UsesIn(lock))
      BY <1>1, <1>3 DEF CompleteInv
    <3>5. i - 1 + 1 <= MaxNestedActionDepth
      <4>1. n + 1 <= MaxNestedActionDepth
        BY <1>3, <3>1 DEF n
      <4> QED
        BY <1>6, <3>1, <4>1
    <3>6. Tall(lock, 1)
      BY TallAtLeast
    <3> QED
      BY <1>1, <1>2, <3>1, <3>3, <3>4, <3>5, <3>6 DEF ActionChecked
  <2> QED
    BY <2>1, <2>2, <2>3
<1>10. ASSUME NEW i \in DOMAIN selectors, i < turn'
       PROVE  StepChecked(i)'
  <2>1. CASE frames # <<>>
    <3>1. i < turn /\ StepChecked(i) /\ 1 \in DOMAIN frames /\ n # 0
      BY <1>1, <1>5, <1>6, <1>10, <2>1 DEF CheckInv
    <3>2. frames' # <<>> /\ frames'[1].lock = frames[1].lock
      <4>1. 1 \in DOMAIN frames' /\ frames'[1].lock = frames[1].lock
        BY <1>5, <3>1
      <4> QED
        BY <4>1
    <3> QED
      BY <1>1, <3>1, <3>2 DEF StepChecked
  <2>2. CASE frames = <<>> /\ i # turn
    <3>1. i < turn
      <4>1. selectors \in Seq(DOMAIN entries) /\ turn \in Nat
        BY <1>1 DEF FoundInv
      <4>2. i \in Nat
        BY <4>1, LenProperties
      <4>3. i < turn + 1
        BY <1>1, <1>10, <2>2
      <4> QED
        BY <2>2, <4>1, <4>2, <4>3
    <3>2. StepChecked(i)
      BY <1>1, <3>1 DEF CheckInv
    <3> QED
      BY <1>1, <2>2, <3>2 DEF StepChecked
  <2>3. CASE frames = <<>> /\ i = turn
    <3>1. lock = selectors[i] /\ n = 0
      BY <1>3, <1>6, <2>3
    <3>2. CASE lock \in DOMAIN heights
      <4>1. heights[lock] <= MaxNestedActionDepth
        BY <1>3, <1>4, <1>6, <3>1, <3>2 DEF n
      <4> QED
        BY <1>1, <3>1, <3>2, <4>1 DEF StepChecked
    <3>3. CASE lock \notin DOMAIN heights
      <4>1. frames'[1].lock = lock /\ 1 \in DOMAIN frames'
        BY <1>5, <3>1, <3>3
      <4>2. frames' # <<>>
        BY <4>1
      <4> QED
        BY <1>1, <3>1, <4>1, <4>2 DEF StepChecked
    <3> QED
      BY <3>2, <3>3
  <2> QED
    BY <2>1, <2>2, <2>3
<1>11. CheckInv'
  BY <1>1, <1>8, <1>9, <1>10 DEF CheckInv
<1>12. HeightsInv' /\ CompleteInv' /\ BuildInv' /\ VerdictInv'
  BY <1>1, <1>2 DEF HeightsInv, CompleteInv, BuildInv, VerdictInv
<1> QED
  BY <1>7, <1>11, <1>12 DEF LockInv

\* All that is used is reached when the steps and what is in each are.
LEMMA UsedReached ==
    ASSUME LockInv, Len(selectors) = Len(tree.uses),
           \A i \in DOMAIN selectors : selectors[i] \in DOMAIN heights
    PROVE  /\ \A n \in 0..MaxNestedActionDepth : Levels[n] \subseteq DOMAIN heights
           /\ DOMAIN entries = Used /\ DOMAIN heights = Used
<1>1. FoundInv /\ HeightsInv /\ tree \in Trees
  BY DEF LockInv, FoundInv
<1>2. /\ tree.uses \in Seq(AllUses) /\ DOMAIN tree.uses = 1..Len(tree.uses)
      /\ selectors \in Seq(DOMAIN entries) /\ DOMAIN selectors = 1..Len(selectors)
  BY <1>1, UsesAre, LenProperties DEF FoundInv
<1>3. AtTop \subseteq DOMAIN heights
  <2> SUFFICES ASSUME NEW u \in Range(tree.uses) PROVE Describe(u, Workspace(Blank)) \in DOMAIN heights
    BY DEF AtTop
  <2>1. PICK i \in DOMAIN tree.uses : u = tree.uses[i]
    BY DEF Range
  <2>2. i \in DOMAIN selectors
    BY <1>2, <2>1
  <2> QED
    BY <1>1, <2>1, <2>2 DEF FoundInv
<1>4. ASSUME NEW n \in 0..MaxNestedActionDepth
      PROVE  Levels[n] \subseteq DOMAIN heights
  <2>1. \A l \in DOMAIN heights : Kids(l) \subseteq DOMAIN heights
    BY <1>1 DEF HeightsInv
  <2> QED
    BY <1>3, <2>1, LevelInduction
<1>5. Used \subseteq DOMAIN heights
  <2>1. 0..(MaxNestedActionDepth - 1) \subseteq 0..MaxNestedActionDepth
    BY Limits
  <2> QED
    BY <1>4, <2>1 DEF Used
<1>6. DOMAIN heights \subseteq DOMAIN entries /\ DOMAIN entries \subseteq Used
  BY <1>1 DEF HeightsInv, FoundInv
<1> QED
  BY <1>4, <1>5, <1>6

LEMMA FinishStep ==
    ASSUME LockInv, Finish
    PROVE  LockInv'
<1> DEFINE n == Len(frames)
           m == Len(frames')
<1>1. /\ FoundInv /\ CompleteInv /\ HeightsInv /\ FramesInv /\ CheckInv /\ VerdictInv /\ walking = "check"
      /\ frames \in Seq(CheckFrame) /\ UNCHANGED <<tree, turn, entries, selectors>> /\ Visitable = {}
  BY DEF Finish, LockInv, CheckInv, CheckFrames, CheckFrame
<1>2. /\ Used' = Used /\ AllUses' = AllUses /\ Levels' = Levels
      /\ \A l : Kids(l)' = Kids(l) /\ UsesIn(l)' = UsesIn(l) /\ Describable(l)' = Describable(l)
      /\ \A l, x : Tall(l, x)' = Tall(l, x)
  BY <1>1, SameTree
<1>3. n \in Nat /\ DOMAIN frames = 1..n /\ (frames = <<>> <=> n = 0) /\ MaxNestedActionDepth \in Nat
  BY <1>1, Stacks, Limits
<1>4. FoundInv'
  BY <1>1, <1>2 DEF FoundInv
<1>5. CASE frames # <<>>
  <2> DEFINE l == frames[n].lock
             h == frames[n].height
             below == Front(frames)
             under == [Last(below) EXCEPT !.height = Max({@, h + 1})]
  <2>1. /\ n \in DOMAIN frames /\ Last(frames) = frames[n] /\ frames[n] \in CheckFrame /\ Owner = l
        /\ below \in Seq(CheckFrame) /\ Len(below) = n - 1 /\ (below = <<>> <=> n = 1)
        /\ \A i \in 1..(n - 1) : below[i] = frames[i]
    <3>1. /\ n \in Nat \ {0} /\ Last(frames) = frames[n] /\ Last(frames) \in CheckFrame
          /\ below \in Seq(CheckFrame) /\ Len(below) = n - 1 /\ (below = <<>> <=> n = 1)
          /\ \A i \in 1..(n - 1) : below[i] = frames[i]
      BY <1>1, <1>5, TopOfStack
    <3> HIDE DEF n, below
    <3>2. n \in DOMAIN frames
      BY <1>3, <3>1
    <3> QED
      BY <1>5, <3>1, <3>2 DEF Owner, n
  <2>2. /\ heights' = With(heights, l, h) /\ walking' = walking
        /\ frames' = IF below = <<>> THEN <<>> ELSE Append(Front(below), under)
    BY <1>5, <2>1 DEF Finish
  <2>3. h \in Nat \ {0} /\ l \in DOMAIN entries /\ l \notin DOMAIN heights /\ Describable(l)
        /\ n - 1 + h <= MaxNestedActionDepth /\ Tall(l, h)
    BY <1>1, <2>1 DEF CheckInv, ActionChecked, CheckFrame, FoundInv
  <2>4. \A u \in Range(UsesIn(l)) : Describe(u, l) \in DOMAIN heights /\ heights[Describe(u, l)] + 1 <= h
    <3>1. frames[n].rest = {}
      <4>1. {<<u, entries[Owner][u]>> : u \in frames[n].rest} = {}
        BY <1>1, <1>5, <2>1 DEF Visitable
      <4> QED
        BY <4>1
    <3> QED
      BY <1>1, <2>1, <3>1 DEF CheckInv, ActionChecked
  <2>5. /\ DOMAIN heights' = DOMAIN heights \cup {l} /\ heights'[l] = h
        /\ \A k \in DOMAIN heights : heights'[k] = heights[k] /\ k # l
    BY <2>2, <2>3 DEF With
  <2>6. HeightsInv'
    <3>1. DOMAIN heights' \subseteq DOMAIN entries
      BY <1>1, <2>3, <2>5 DEF HeightsInv
    <3>2. ASSUME NEW k \in DOMAIN heights'
          PROVE  /\ heights'[k] \in Nat \ {0} /\ Tall(k, heights'[k])
                 /\ \A j \in Kids(k) : j \in DOMAIN heights' /\ heights'[j] + 1 <= heights'[k]
      <4>1. CASE k = l
        <5>1. ASSUME NEW j \in Kids(k)
              PROVE  j \in DOMAIN heights' /\ heights'[j] + 1 <= heights'[k]
          <6>1. j \in DOMAIN heights /\ heights[j] + 1 <= h
            BY <2>4, <4>1, <5>1 DEF Kids
          <6> QED
            BY <2>5, <4>1, <6>1
        <5> QED
          BY <2>3, <2>5, <4>1, <5>1
      <4>2. CASE k # l
        <5>1. k \in DOMAIN heights /\ heights'[k] = heights[k]
          BY <2>5, <4>2
        <5> QED
          BY <1>1, <2>5, <5>1 DEF HeightsInv
      <4> QED
        BY <4>1, <4>2
    <3> QED
      BY <1>1, <1>2, <3>1, <3>2 DEF HeightsInv
  <2>7. /\ frames' \in Seq(CheckFrame) /\ m = n - 1 /\ DOMAIN frames' = 1..m
        /\ \A i \in 1..m : i # m => frames'[i] = frames[i]
        /\ m # 0 => /\ frames'[m].lock = frames[m].lock /\ frames'[m].rest = frames[m].rest
                    /\ frames'[m].height = Max({frames[m].height, h + 1})
    <3>1. CASE n = 1
      <4>1. frames' = <<>>
        BY <2>1, <2>2, <3>1
      <4>2. m = 0 /\ frames' \in Seq(CheckFrame) /\ DOMAIN frames' = 1..m
        BY <4>1, EmptySeq
      <4> QED
        BY <3>1, <4>2
    <3>2. CASE n # 1
      <4> DEFINE f == Last(below)
                 g == [lock |-> f.lock, rest |-> f.rest, height |-> Max({f.height, h + 1})]
                 first == Front(below)
      <4>1. /\ Len(below) \in Nat \ {0} /\ f = below[Len(below)] /\ f \in CheckFrame /\ first \in Seq(CheckFrame)
            /\ Len(first) = Len(below) - 1 /\ \A i \in 1..(Len(below) - 1) : first[i] = below[i]
        BY <2>1, <3>2, TopOfStack
      <4>2. frames' = Append(first, under)
        BY <2>1, <2>2, <3>2
      <4> HIDE DEF f
      <4>3. f.height \in Nat /\ h + 1 \in Nat
        BY <2>3, <4>1 DEF CheckFrame
      <4>4. Max({f.height, h + 1}) \in Nat
        BY <4>3, HigherOf
      <4>5. under = g /\ g \in CheckFrame
        BY <4>1, <4>4, FrameWith DEF f
      <4> HIDE DEF first, below, g, under, n, m, h, l
      <4>6. n - 1 \in Nat \ {0} /\ Len(first) = n - 2 /\ f = frames[n - 1] /\ n \in Nat
        BY <1>3, <2>1, <4>1 DEF n
      <4>7. /\ frames' \in Seq(CheckFrame) /\ m = n - 2 + 1 /\ DOMAIN frames' = 1..(n - 2 + 1)
            /\ (\A i \in 1..(n - 2) : frames'[i] = first[i]) /\ frames'[n - 2 + 1] = g
        BY <4>1, <4>2, <4>5, <4>6, Stacks DEF m
      <4>8. n - 2 + 1 = n - 1 /\ \A i \in 1..(n - 1) : i # n - 1 => i \in 1..(n - 2)
        BY <4>6
      <4>9. \A i \in 1..(n - 2) : first[i] = frames[i]
        BY <2>1, <4>1, <4>6
      <4>10. m = n - 1 /\ DOMAIN frames' = 1..m /\ frames'[m] = g /\ \A i \in 1..m : i # m => frames'[i] = frames[i]
        BY <4>7, <4>8, <4>9
      <4> QED
        BY <4>6, <4>7, <4>10 DEF g
    <3> QED
      BY <3>1, <3>2
  <2>8. \A i \in DOMAIN frames' : i \in DOMAIN frames /\ i # n /\ i + 1 \in DOMAIN frames /\ frames'[i].lock = frames[i].lock
    <3> HIDE DEF n, m
    <3> QED
      BY <1>3, <2>7
  <2>9. CheckFrames' /\ FramesInv'
    <3>1. CheckFrames'
      BY <1>1, <1>2, <2>7 DEF CheckFrames, CheckFrame
    <3> HIDE DEF n, m, l, h
    <3>2. Len(frames') <= MaxNestedActionDepth
      <4>1. n <= MaxNestedActionDepth
        BY <1>1 DEF FramesInv, n
      <4>2. m <= MaxNestedActionDepth
        BY <1>3, <2>7, <4>1
      <4> QED
        BY <4>2 DEF m
    <3>3. \A i \in DOMAIN frames' : i # Len(frames') => i + 1 \in DOMAIN frames'
      BY <1>3, <2>7 DEF m
    <3> QED
      BY <1>1, <1>2, <2>8, <3>1, <3>2, <3>3 DEF FramesInv, n
  <2> HIDE DEF n, m, l, h, below, under
  <2>10. ASSUME NEW i \in DOMAIN frames'
         PROVE  ActionChecked(i)'
    <3> DEFINE p == frames[i].lock
               a == frames[i].height
               b == frames'[i].height
    <3>1. /\ i \in DOMAIN frames /\ i # n /\ frames'[i].lock = p /\ i + 1 \in DOMAIN frames
          /\ i \in 1..m /\ n \in DOMAIN frames
      BY <2>1, <2>7, <2>8
    <3>2. frames'[i].rest = frames[i].rest
      BY <2>7, <3>1
    <3>3. frames[i] \in CheckFrame
      BY <1>1, <1>3, <3>1, Stacks DEF n
    <3>4. a \in Nat
      BY <3>3 DEF CheckFrame
    <3>5. ActionChecked(i) /\ p # l /\ p \in DOMAIN entries /\ Describable(p) /\ frames[i + 1].lock \in Kids(p)
      BY <1>1, <3>1 DEF CheckInv, FramesInv, FoundInv, n, l
    <3>6. p \notin DOMAIN heights'
      BY <2>5, <3>5 DEF ActionChecked
    <3>7. CASE i = m
      <4>1. i + 1 = n /\ frames[i + 1].lock = l
        BY <1>3, <2>7, <3>7 DEF l
      <4>2. b = Max({a, h + 1})
        BY <2>7, <3>1, <3>7
      <4>3. a <= b /\ h + 1 <= b /\ b \in Nat /\ b \in {a, h + 1}
        BY <2>3, <3>4, <4>2, HigherOf
      <4>4. Tall(p, h + 1)
        BY <2>3, <3>5, <4>1, TallOver
      <4>5. Tall(p, b) /\ b # 0 /\ i - 1 + b <= MaxNestedActionDepth
        <5>1. Tall(p, a) /\ a # 0 /\ i - 1 + a <= MaxNestedActionDepth
          BY <3>5 DEF ActionChecked
        <5>2. i - 1 + (h + 1) <= MaxNestedActionDepth
          <6>1. i = n - 1
            BY <1>3, <3>1, <4>1
          <6> QED
            BY <1>3, <2>3, <6>1
        <5> QED
          BY <2>3, <4>3, <4>4, <5>1, <5>2
      <4>6. ASSUME NEW u \in Range(UsesIn(p)) \ frames[i].rest
            PROVE  Describe(u, p) \in DOMAIN heights' /\ heights'[Describe(u, p)] + 1 <= b
        <5>1. \/ frames[i + 1].lock = Describe(u, p)
              \/ Describe(u, p) \in DOMAIN heights /\ heights[Describe(u, p)] + 1 <= a
          BY <3>5, <4>6 DEF ActionChecked
        <5>2. CASE frames[i + 1].lock = Describe(u, p)
          BY <2>5, <4>1, <4>3, <5>2
        <5>3. CASE Describe(u, p) \in DOMAIN heights /\ heights[Describe(u, p)] + 1 <= a
          <6>1. heights[Describe(u, p)] \in Nat
            BY <1>1, <5>3 DEF HeightsInv
          <6> QED
            BY <2>5, <3>4, <4>3, <5>3, <6>1
        <5> QED
          BY <5>1, <5>2, <5>3
      <4>7. frames[i].rest \subseteq Range(UsesIn(p))
        BY <3>5 DEF ActionChecked
      <4> HIDE DEF p, a, b
      <4> QED
        BY <1>1, <1>2, <3>1, <3>2, <3>6, <4>5, <4>6, <4>7 DEF ActionChecked, p, b
    <3>8. CASE i # m
      <4>1. frames'[i] = frames[i] /\ i + 1 \in DOMAIN frames'
        BY <1>3, <2>7, <3>1, <3>8
      <4>2. frames'[i + 1].lock = frames[i + 1].lock
        BY <2>8, <4>1
      <4>3. ASSUME NEW u \in Range(UsesIn(p)) \ frames[i].rest
            PROVE  \/ frames'[i + 1].lock = Describe(u, p)
                   \/ Describe(u, p) \in DOMAIN heights' /\ heights'[Describe(u, p)] + 1 <= a
        BY <2>5, <3>5, <4>2, <4>3 DEF ActionChecked
      <4>4. frames[i].rest \subseteq Range(UsesIn(p)) /\ a # 0 /\ i - 1 + a <= MaxNestedActionDepth /\ Tall(p, a)
        BY <3>5 DEF ActionChecked
      <4> HIDE DEF p, a
      <4> QED
        BY <1>1, <1>2, <3>1, <3>2, <3>6, <3>8, <4>1, <4>3, <4>4 DEF ActionChecked, p, a, m
    <3> QED
      BY <3>7, <3>8
  <2>11. ASSUME NEW i \in DOMAIN selectors, i < turn
         PROVE  StepChecked(i)'
    <3>1. StepChecked(i)
      BY <1>1, <2>11 DEF CheckInv
    <3>2. CASE selectors[i] \in DOMAIN heights /\ heights[selectors[i]] <= MaxNestedActionDepth
      BY <1>1, <2>5, <3>2 DEF StepChecked
    <3>3. CASE frames[1].lock = selectors[i] /\ n = 1
      <4>1. selectors[i] = l
        BY <3>3 DEF l
      <4>2. h <= MaxNestedActionDepth
        BY <1>3, <2>3, <3>3
      <4> QED
        BY <1>1, <2>5, <4>1, <4>2 DEF StepChecked
    <3>4. CASE frames[1].lock = selectors[i] /\ n # 1
      <4>1. 1 \in DOMAIN frames'
        BY <1>3, <1>5, <2>7, <3>4
      <4>2. frames' # <<>> /\ frames'[1].lock = frames[1].lock
        BY <2>8, <4>1
      <4> QED
        BY <1>1, <3>4, <4>2 DEF StepChecked
    <3> QED
      BY <3>1, <3>2, <3>3, <3>4 DEF StepChecked
  <2>12. CheckInv'
    BY <1>1, <2>2, <2>9, <2>10, <2>11 DEF CheckInv
  <2>13. CompleteInv' /\ BuildInv' /\ VerdictInv'
    BY <1>1, <1>2, <2>2 DEF CompleteInv, BuildInv, VerdictInv
  <2> QED
    BY <1>4, <2>6, <2>12, <2>13 DEF LockInv
<1>6. CASE frames = <<>>
  <2>1. /\ walking' = IF DOMAIN heights = DOMAIN entries THEN "valid" ELSE "invalid"
        /\ heights' = heights /\ frames' = frames
    BY <1>6 DEF Finish
  <2>2. turn \notin DOMAIN selectors
    <3>1. {<<tree.uses[i], selectors[i]>> : i \in {turn} \cap DOMAIN selectors} = {}
      BY <1>1, <1>6 DEF Visitable
    <3> QED
      BY <3>1
  <2>3. selectors \in Seq(DOMAIN entries) /\ turn \in Nat \ {0} /\ Len(selectors) = Len(tree.uses)
    BY <1>1 DEF FoundInv, CompleteInv
  <2>4. DOMAIN selectors = 1..Len(selectors) /\ Len(selectors) \in Nat
    BY <2>3, LenProperties
  <2>5. \A i \in DOMAIN selectors : i < turn
    BY <2>2, <2>3, <2>4
  <2>6. \A i \in DOMAIN selectors : selectors[i] \in DOMAIN heights /\ heights[selectors[i]] <= MaxNestedActionDepth
    BY <1>1, <1>6, <2>5 DEF CheckInv, StepChecked
  <2>7. DOMAIN heights = DOMAIN entries
    BY <2>3, <2>6, UsedReached
  <2>8. walking' = "valid"
    BY <2>1, <2>7
  <2>9. VerdictInv'
    BY <1>1, <2>1, <2>6, <2>7, <2>8 DEF VerdictInv
  <2>10. HeightsInv'
    BY <1>1, <1>2, <2>1 DEF HeightsInv
  <2>11. CompleteInv' /\ BuildInv' /\ CheckInv'
    BY <1>1, <1>2, <2>1, <2>8 DEF CompleteInv, BuildInv, CheckInv
  <2> QED
    BY <1>4, <2>9, <2>10, <2>11 DEF LockInv
<1> QED
  BY <1>5, <1>6

-----------------------------------------------------------------------------
(* The lists of locks.                                                     *)

LEMMA LockInitially == LockInit => LockInv
<1> SUFFICES ASSUME LockInit PROVE LockInv
  OBVIOUS
<1>1. /\ tree \in Trees /\ walking = "build" /\ turn = 1 /\ frames = <<>> /\ selectors = <<>>
      /\ DOMAIN entries = {} /\ DOMAIN heights = {}
  BY DEF LockInit
<1>2. Len(tree.uses) \in Nat
  BY <1>1, UsesAre, LenProperties
<1>3. /\ selectors \in Seq(DOMAIN entries) /\ Len(selectors) = 0 /\ DOMAIN selectors = {}
      /\ BuildFrames /\ DOMAIN frames = {} /\ Len(frames) = 0
  BY <1>1, EmptySeq DEF BuildFrames
<1>4. Charged(DOMAIN entries) <= MaxActionExecutablePathBytes /\ IsFiniteSet(DOMAIN entries)
  <2>1. Pile({}) = {} /\ IsFiniteSet({}) /\ Cardinality({}) = 0
    BY FS_EmptySet DEF Pile
  <2>2. Charged({}) = 0
    BY <2>1, ChargedIs
  <2> QED
    BY <1>1, <2>1, <2>2, Limits
<1>5. FoundInv
  BY <1>1, <1>2, <1>3, <1>4 DEF FoundInv
<1>6. FramesInv
  BY <1>3, Limits DEF FramesInv
<1>7. BuildInv
  BY <1>1, <1>3, <1>6 DEF BuildInv
<1> QED
  BY <1>1, <1>5, <1>7 DEF LockInv, HeightsInv, CompleteInv, CheckInv, VerdictInv

LEMMA LockStep == HomeKept /\ LockInv /\ [LockNext]_lockVars => LockInv'
<1> SUFFICES ASSUME HomeKept, LockInv, [LockNext]_lockVars PROVE LockInv'
  OBVIOUS
<1>1. ASSUME UNCHANGED <<tree, turn, frames, entries, selectors, heights>>, walking' \in {"refused", "invalid", walking},
             walking' = "invalid" => walking = "check" \/ walking' = walking,
             walking' # walking => ~Acceptable
      PROVE  LockInv'
  <2>1. /\ Levels' = Levels /\ Used' = Used /\ AllUses' = AllUses /\ Acceptable' = Acceptable
        /\ \A l : Kids(l)' = Kids(l) /\ UsesIn(l)' = UsesIn(l) /\ Describable(l)' = Describable(l)
        /\ \A l, h : Tall(l, h)' = Tall(l, h)
    BY <1>1, SameTree
  <2>2. FoundInv'
    BY <1>1, <2>1 DEF LockInv, FoundInv
  <2>3. HeightsInv'
    BY <1>1, <2>1 DEF LockInv, HeightsInv
  <2>4. FramesInv => FramesInv'
    BY <1>1, <2>1 DEF FramesInv
  <2>5. BuildInv'
    BY <1>1, <2>1, <2>4 DEF LockInv, BuildInv, BuildFrames
  <2>6. CompleteInv'
    BY <1>1, <2>1 DEF LockInv, CompleteInv
  <2>7. CheckInv'
    BY <1>1, <2>1, <2>4 DEF LockInv, CheckInv, CheckFrames, ActionChecked, StepChecked
  <2>8. VerdictInv'
    BY <1>1, <2>1 DEF LockInv, VerdictInv
  <2> QED
    BY <2>2, <2>3, <2>5, <2>6, <2>7, <2>8 DEF LockInv
<1>2. CASE Refuse
  BY <1>1, <1>2, RefuseStep DEF Refuse
<1>3. CASE Add
  BY <1>3, AddStep
<1>4. CASE Complete
  BY <1>4, CompleteStep
<1>5. CASE Reject
  BY <1>1, <1>5, RejectStep DEF Reject
<1>6. CASE Visit
  BY <1>6, VisitStep
<1>7. CASE Finish
  BY <1>7, FinishStep
<1>8. CASE UNCHANGED lockVars
  BY <1>1, <1>8 DEF lockVars
<1> QED
  BY <1>2, <1>3, <1>4, <1>5, <1>6, <1>7, <1>8 DEF LockNext

\* The locks that are found are of what the steps use; the walks know how deep
\* they are and how high what they are done with is; neither ends without cause.
THEOREM LockInvariant == HomeKept => (LockSpec => []LockInv)
<1> SUFFICES ASSUME HomeKept PROVE LockSpec => []LockInv
  OBVIOUS
<1>1. LockInit => LockInv
  BY LockInitially
<1>2. LockInv /\ [LockNext]_lockVars => LockInv'
  BY LockStep
<1> QED
  BY <1>1, <1>2, PTL DEF LockSpec

\* A list that is valid is that of what the steps use.
LEMMA ValidLocks ==
    ASSUME LockInv, HomeKept, walking = "valid"
    PROVE  /\ Acceptable /\ DOMAIN entries = Used
           /\ \A i \in DOMAIN tree.uses : Matches(tree.uses[i], selectors[i], Workspace(Blank))
           /\ \A l \in Used :
                /\ DOMAIN entries[l] = Range(UsesIn(l))
                /\ \A u \in DOMAIN entries[l] : Matches(u, entries[l][u], l)
<1>1. /\ FoundInv /\ HeightsInv /\ tree \in Trees /\ Len(selectors) = Len(tree.uses)
      /\ \A i \in DOMAIN selectors : selectors[i] \in DOMAIN heights /\ heights[selectors[i]] <= MaxNestedActionDepth
      /\ \A l \in DOMAIN entries : DOMAIN entries[l] = Range(UsesIn(l))
  BY DEF LockInv, VerdictInv, CompleteInv, FoundInv
<1>2. /\ \A n \in 0..MaxNestedActionDepth : Levels[n] \subseteq DOMAIN heights
      /\ DOMAIN entries = Used /\ DOMAIN heights = Used
  BY <1>1, UsedReached
<1>3. /\ tree.uses \in Seq(AllUses) /\ DOMAIN tree.uses = 1..Len(tree.uses)
      /\ selectors \in Seq(DOMAIN entries) /\ DOMAIN selectors = 1..Len(selectors)
      /\ \A i \in DOMAIN tree.uses : tree.uses[i] \in AllUses
  <2>1. tree.uses \in Seq(AllUses) /\ selectors \in Seq(DOMAIN entries)
    BY <1>1, UsesAre DEF FoundInv
  <2> QED
    BY <2>1, LenProperties, ElementOfSeq
\* A lock that is n deep is no higher than the rest of the limit.
<1> DEFINE T == {n \in 0..MaxNestedActionDepth : \E l \in Levels[n] : ~(n + heights[l] <= MaxNestedActionDepth)}
<1>4. T = {}
  <2> SUFFICES ASSUME T # {} PROVE FALSE
    OBVIOUS
  <2>1. PICK n \in T : \A k \in T : n <= k
    <3>1. T \subseteq Nat
      BY Limits
    <3> HIDE DEF T
    <3> QED
      BY <3>1, LeastNatural
  <2>2. PICK l \in Levels[n] : ~(n + heights[l] <= MaxNestedActionDepth)
    BY <2>1
  <2>3. n \in 0..MaxNestedActionDepth /\ l \in DOMAIN heights /\ heights[l] \in Nat
    BY <1>1, <1>2, <2>1, <2>2 DEF HeightsInv
  <2>4. CASE n = 0
    <3>1. PICK u \in Range(tree.uses) : l = Describe(u, Workspace(Blank))
      BY <2>2, <2>4, LevelsAre DEF AtTop
    <3>2. PICK i \in DOMAIN tree.uses : u = tree.uses[i]
      BY DEF Range
    <3>3. i \in DOMAIN selectors /\ selectors[i] = l
      BY <1>1, <1>3, <3>1, <3>2 DEF FoundInv
    <3> QED
      BY <1>1, <2>2, <2>3, <2>4, <3>3
  <2>5. CASE n # 0
    <3>1. n - 1 \in 0..MaxNestedActionDepth /\ n - 1 \notin T /\ n \in Nat
      BY <2>1, <2>3, <2>5, Limits
    <3>2. PICK p \in Levels[n - 1] : l \in Kids(p)
      BY <2>2, <2>3, <2>5, LevelsAre DEF Below
    <3>3. p \in DOMAIN heights /\ heights[p] \in Nat /\ (n - 1) + heights[p] <= MaxNestedActionDepth
      BY <1>1, <1>2, <3>1, <3>2 DEF HeightsInv
    <3>4. heights[l] + 1 <= heights[p]
      BY <1>1, <3>2, <3>3 DEF HeightsInv
    <3> QED
      BY <2>2, <2>3, <3>1, <3>3, <3>4, Limits
  <2> QED
    BY <2>4, <2>5
<1>5. Levels[MaxNestedActionDepth] = {}
  <2> SUFFICES ASSUME NEW l \in Levels[MaxNestedActionDepth] PROVE FALSE
    OBVIOUS
  <2>1. MaxNestedActionDepth \in 0..MaxNestedActionDepth /\ MaxNestedActionDepth \in Nat
    BY Limits
  <2>2. heights[l] \in Nat \ {0}
    BY <1>1, <1>2, <2>1 DEF HeightsInv
  <2>3. MaxNestedActionDepth + heights[l] <= MaxNestedActionDepth
    BY <1>4, <2>1
  <2> QED
    BY <2>1, <2>2, <2>3
<1>6. \A l \in Used : Formed(l) /\ Admitted(l) /\ Describable(l)
  BY <1>1, <1>2 DEF FoundInv
<1>7. Acceptable
  BY <1>1, <1>2, <1>5, <1>6 DEF Acceptable, FoundInv
<1>8. ASSUME NEW i \in DOMAIN tree.uses
      PROVE  Matches(tree.uses[i], selectors[i], Workspace(Blank))
  <2>1. selectors[i] = Describe(tree.uses[i], Workspace(Blank)) /\ tree.uses[i] \in AllUses
    BY <1>1, <1>3 DEF FoundInv
  <2>2. Formed(Workspace(Blank))
    BY DEF Formed, Workspace, Lock
  <2> QED
    BY <1>1, <2>1, <2>2, DescribedMatches
<1>9. ASSUME NEW l \in Used, NEW u \in DOMAIN entries[l]
      PROVE  Matches(u, entries[l][u], l)
  <2>1. entries[l][u] = Describe(u, l) /\ u \in Range(UsesIn(l))
    BY <1>1, <1>2 DEF FoundInv
  <2>2. u \in AllUses
    BY <1>1, <1>6, <2>1, UsesAre, SeqRange
  <2> QED
    BY <1>1, <1>6, <2>1, <2>2, DescribedMatches
<1> QED
  BY <1>1, <1>2, <1>7, <1>8, <1>9

\* For every tree of uses, every catalog and every limit: a job gets a plan
\* exactly when what it uses can be taken, and the plan has the locks of that.
\* Only in the cache action's own repository, at a commit nobody has audited,
\* is a self reference refused by the validator after it was replaced.
THEOREM LocksAreThoseOfUses == HomeKept => (LockSpec => []LocksFollowUses)
<1> SUFFICES ASSUME HomeKept PROVE LockSpec => []LocksFollowUses
  OBVIOUS
<1>1. LockInv => LocksFollowUses
  <2> SUFFICES ASSUME LockInv, walking \in {"refused", "invalid", "valid"}
               PROVE  LocksFollowUses
    BY DEF LocksFollowUses
  <2>1. CASE walking = "valid"
    <3>1. /\ Acceptable /\ DOMAIN entries = Used
          /\ \A i \in DOMAIN tree.uses : Matches(tree.uses[i], selectors[i], Workspace(Blank))
          /\ \A l \in Used :
               /\ DOMAIN entries[l] = Range(UsesIn(l))
               /\ \A u \in DOMAIN entries[l] : Matches(u, entries[l][u], l)
      BY <2>1, ValidLocks
    <3> QED
      BY <2>1, <3>1 DEF LocksFollowUses, Acceptable
  <2>2. CASE walking # "valid"
    <3>1. ~Acceptable
      BY <2>2 DEF LockInv, VerdictInv
    <3> QED
      BY <2>2, <3>1 DEF LocksFollowUses, Acceptable
  <2> QED
    BY <2>1, <2>2
<1>2. LockSpec => []LockInv
  BY LockInvariant
<1> QED
  BY <1>1, <1>2, PTL

-----------------------------------------------------------------------------
(* The environments of the processes of a job (StepEffects).               *)

\* Induction up to a number, over a set of numbers.
LEMMA UpTo ==
    ASSUME NEW P, NEW n \in Nat, 0 \in P, \A i \in 1 .. n : i - 1 \in P => i \in P
    PROVE  \A i \in 0 .. n : i \in P
<1> DEFINE Wrong == {i \in 0 .. n : i \notin P}
<1> SUFFICES ASSUME Wrong # {} PROVE FALSE
  OBVIOUS
<1>0. Wrong \in SUBSET Nat
  OBVIOUS
<1>1. PICK i \in Wrong : \A k \in Wrong : i <= k
  <2> HIDE DEF Wrong
  <2> QED
    BY <1>0, LeastNatural
<1>2. i \in 1 .. n
  BY <1>1
<1>3. i - 1 \notin Wrong
  BY <1>1, <1>2
<1> QED
  BY <1>1, <1>2, <1>3

\* What starts with a and takes n steps, the i-th of them h[i].
Iterates(g, S, a, n, h) ==
    g \in [0 .. n -> S] /\ g[0] = a /\ \A i \in 1 .. n : g[i] = h[i][g[i - 1]]

LEMMA Iterated ==
    ASSUME NEW S, NEW a \in S, NEW n \in Nat, NEW h, \A i \in 1 .. n : h[i] \in [S -> S]
    PROVE  \E g : Iterates(g, S, a, n, h)
<1> DEFINE Good(m, g) ==
             g \in [0 .. m -> S] /\ g[0] = a /\ \A i \in 1 .. m : g[i] = h[i][g[i - 1]]
           P == {m \in 0 .. n : \E g : Good(m, g)}
<1>1. 0 \in P
  <2>1. Good(0, [i \in 0 .. 0 |-> a])
    OBVIOUS
  <2> HIDE DEF Good
  <2> QED
    BY <2>1
<1>2. ASSUME NEW m \in 1 .. n, m - 1 \in P
      PROVE  m \in P
  <2>1. PICK g : Good(m - 1, g)
    BY <1>2
  <2> DEFINE next == [i \in 0 .. m |-> IF i = m THEN h[m][g[m - 1]] ELSE g[i]]
  <2>2. g[m - 1] \in S /\ h[m][g[m - 1]] \in S
    BY <2>1
  <2>3. next[m] = h[m][g[m - 1]] /\ \A i \in 0 .. m - 1 : next[i] = g[i]
    OBVIOUS
  <2>4. next \in [0 .. m -> S] /\ next[0] = a
    BY <2>1, <2>2, <2>3
  <2>5. ASSUME NEW i \in 1 .. m
        PROVE  next[i] = h[i][next[i - 1]]
    <3>1. next[i - 1] = g[i - 1]
      BY <2>3
    <3>2. CASE i = m
      BY <2>3, <3>1, <3>2
    <3>3. CASE i # m
      BY <2>1, <2>3, <3>1, <3>3
    <3> QED
      BY <3>2, <3>3
  <2>6. Good(m, next)
    BY <2>4, <2>5
  <2> HIDE DEF Good
  <2> QED
    BY <2>6
<1>3. n \in P
  <2> HIDE DEF P
  <2> QED
    BY <1>1, <1>2, UpTo
<1> QED
  BY <1>3 DEF Iterates

\* PATHs are set.
Paths == Texts \ {<<>>}

LEMMA ReverseIs ==
    ASSUME NEW s \in Texts
    PROVE  /\ Reverse(s) \in Texts /\ Len(Reverse(s)) = Len(s)
           /\ \A i \in 1 .. Len(s) : Reverse(s)[i] = s[Len(s) - i + 1]
           /\ (s = <<>> <=> Reverse(s) = <<>>)
BY DEF Reverse, Texts

LEMMA AppliedIs ==
    ASSUME NEW path \in Texts, NEW added \in Texts
    PROVE  /\ Applied(path, added) \in Texts
           /\ path # <<>> => Applied(path, added) # <<>>
           /\ added # <<>> => Applied(path, added) # <<>>
           /\ Applied(path, <<>>) = path
<1>1. Reverse(added) \in Texts /\ (added = <<>> <=> Reverse(added) = <<>>) /\ Reverse(<<>>) = <<>>
  <2>1. <<>> \in Texts
    BY DEF Texts
  <2> QED
    BY <2>1, ReverseIs
<1>2. Reverse(<<>>) \o path = path
  BY <1>1, ConcatEmptySeq DEF Texts
<1>3. Reverse(added) \o path \in Texts /\ (Reverse(added) \o path = <<>> => Reverse(added) = <<>> /\ path = <<>>)
  BY <1>1, ConcatProperties, ConcatEqualIffEmpty DEF Texts
<1> QED
  BY <1>1, <1>2, <1>3 DEF Applied

\* What is added in two goes.
LEMMA AppliedTwice ==
    ASSUME NEW path \in Texts, NEW first \in Texts, NEW second \in Texts
    PROVE  Applied(path, first \o second) = Applied(Applied(path, first), second)
<1>0. PICK S : Texts = Seq(S)
  BY DEF Texts
<1>1. first \o second \in Texts /\ Len(first \o second) = Len(first) + Len(second)
      /\ \A i \in 1 .. Len(first) + Len(second) :
            (first \o second)[i] = IF i <= Len(first) THEN first[i] ELSE second[i - Len(first)]
  BY ConcatProperties DEF Texts
<1>2. Len(first) \in Nat /\ Len(second) \in Nat
  BY DEF Texts
<1> DEFINE both == Reverse(second) \o Reverse(first)
<1>3. /\ both \in Texts /\ Len(both) = Len(second) + Len(first)
      /\ \A i \in 1 .. Len(second) + Len(first) :
            both[i] = IF i <= Len(second) THEN Reverse(second)[i] ELSE Reverse(first)[i - Len(second)]
  <2>1. /\ Reverse(second) \in Seq(S) /\ Len(Reverse(second)) = Len(second)
        /\ Reverse(first) \in Seq(S) /\ Len(Reverse(first)) = Len(first)
    BY <1>0, ReverseIs
  <2> DEFINE r1 == Reverse(first)
             r2 == Reverse(second)
  <2>2. r2 \in Seq(S) /\ r1 \in Seq(S)
    BY <2>1
  <2> HIDE DEF r1, r2
  <2>3. /\ r2 \o r1 \in Seq(S) /\ Len(r2 \o r1) = Len(r2) + Len(r1)
        /\ \A i \in 1 .. Len(r2) + Len(r1) : (r2 \o r1)[i] = IF i <= Len(r2) THEN r2[i] ELSE r1[i - Len(r2)]
    BY <2>2, ConcatProperties
  <2> QED
    BY <1>0, <2>1, <2>3 DEF r1, r2
<1>4. Reverse(first \o second) = both
  <2>1. Reverse(first \o second) \in Texts /\ Len(Reverse(first \o second)) = Len(first) + Len(second)
    BY <1>1, ReverseIs
  <2>2. ASSUME NEW i \in 1 .. Len(first) + Len(second)
        PROVE  Reverse(first \o second)[i] = both[i]
    <3> DEFINE k == Len(first) + Len(second) - i + 1
    <3>1. Reverse(first \o second)[i] = (first \o second)[k] /\ k \in 1 .. Len(first) + Len(second)
      <4>1. k \in 1 .. Len(first) + Len(second)
        BY <1>2
      <4>2. Reverse(first \o second)[i] = (first \o second)[Len(first \o second) - i + 1]
        BY <1>1, ReverseIs
      <4> QED
        BY <1>1, <4>1, <4>2
    <3>2. CASE i <= Len(second)
      <4>1. Reverse(second)[i] = second[Len(second) - i + 1] /\ ~(k <= Len(first))
            /\ k - Len(first) = Len(second) - i + 1
        BY <1>2, <3>2, ReverseIs
      <4> QED
        BY <1>1, <1>2, <1>3, <3>1, <3>2, <4>1
    <3>3. CASE ~(i <= Len(second))
      <4>1. i - Len(second) \in 1 .. Len(first)
        BY <1>2, <3>3
      <4>2. Reverse(first)[i - Len(second)] = first[Len(first) - (i - Len(second)) + 1]
        BY <4>1, ReverseIs
      <4>3. k <= Len(first) /\ k = Len(first) - (i - Len(second)) + 1
        BY <1>2, <3>3
      <4> QED
        BY <1>1, <1>2, <1>3, <3>1, <3>3, <4>2, <4>3
    <3> QED
      BY <3>2, <3>3
  <2> HIDE DEF both
  <2> QED
    BY <1>2, <1>3, <2>1, <2>2, SeqEqual DEF Texts
<1>5. both \o path = Reverse(second) \o (Reverse(first) \o path)
  <2>1. Reverse(second) \in Texts /\ Reverse(first) \in Texts
    BY ReverseIs
  <2> QED
    BY <1>0, <2>1, ConcatAssociative
<1> QED
  BY <1>4, <1>5 DEF Applied

LEMMA ChangedIs ==
    ASSUME NEW value \in Texts, NEW written \in Texts
    PROVE  Changed(value, written) \in Texts /\ (value # <<>> => Changed(value, written) # <<>>)
BY DEF Changed

LEMMA PathAfterIs ==
    ASSUME NEW path \in Paths, NEW leaf \in Leaves
    PROVE  PathAfter(path, leaf) \in Paths
<1>1. leaf.writes.path \in Texts /\ leaf.writes.added \in Texts
  BY DEF Leaves
<1>2. Changed(path, leaf.writes.path) \in Texts /\ Changed(path, leaf.writes.path) # <<>>
  BY <1>1, ChangedIs DEF Paths
<1> QED
  BY <1>1, <1>2, AppliedIs DEF PathAfter, Paths

LEMMA PathsAfterAre ==
    ASSUME NEW path \in Paths, NEW leaves \in Seq(Leaves)
    PROVE  /\ PathsAfter(path, leaves)[0] = path
           /\ \A i \in 1 .. Len(leaves) : PathsAfter(path, leaves)[i] = PathAfter(PathsAfter(path, leaves)[i - 1], leaves[i])
           /\ \A i \in 0 .. Len(leaves) : PathsAfter(path, leaves)[i] \in Paths
<1> DEFINE n == Len(leaves)
           Level(g, i) == IF i = 0 THEN path ELSE PathAfter(g[i - 1], leaves[i])
           Is(g) == g = [i \in 0 .. n |-> Level(g, i)]
           after == CHOOSE g : Is(g)
           h == [i \in 1 .. n |-> [x \in Paths |-> PathAfter(x, leaves[i])]]
<1>1. PathsAfter(path, leaves) = after
  BY DEF PathsAfter
<1>2. n \in Nat /\ \A i \in 1 .. n : leaves[i] \in Leaves
  OBVIOUS
<1>3. \A x \in Paths : \A i \in 1 .. n : PathAfter(x, leaves[i]) \in Paths
  BY <1>2, PathAfterIs
<1>4. PICK g : Iterates(g, Paths, path, n, h)
  <2>1. \A i \in 1 .. n : h[i] \in [Paths -> Paths]
    BY <1>3
  <2>2. path \in Paths
    BY PathAfterIs
  <2> HIDE DEF h, n
  <2> QED
    BY <1>2, <2>1, <2>2, Iterated
<1>5. g \in [0 .. n -> Paths] /\ \A i \in 0 .. n : g[i] = Level(g, i)
  <2>1. g \in [0 .. n -> Paths] /\ g[0] = path /\ \A i \in 1 .. n : g[i] = h[i][g[i - 1]]
    <3> HIDE DEF h, n
    <3> QED
      BY <1>4 DEF Iterates
  <2>2. ASSUME NEW i \in 1 .. n
        PROVE  g[i] = PathAfter(g[i - 1], leaves[i])
    <3>1. h[i] = [x \in Paths |-> PathAfter(x, leaves[i])]
      OBVIOUS
    <3> HIDE DEF h, n
    <3>2. g[i - 1] \in Paths /\ g[i] = h[i][g[i - 1]]
      BY <1>2, <2>1
    <3> QED
      BY <3>1, <3>2
  <2> HIDE DEF n
  <2> QED
    BY <1>2, <2>1, <2>2
<1>6. Is(g)
  <2> HIDE DEF Level
  <2> QED
    BY <1>5
<1>7. Is(after)
  <2> HIDE DEF Is
  <2> QED
    BY <1>6
<1> HIDE DEF after, h
<1>8. \A i \in 0 .. n : after[i] = Level(after, i)
  BY ONLY <1>7
<1>9. after[0] = path /\ \A i \in 1 .. n : after[i] = PathAfter(after[i - 1], leaves[i])
  <2> HIDE DEF n
  <2> QED
    BY <1>2, <1>8
<1> DEFINE P == {i \in 0 .. n : after[i] \in Paths}
<1>10. 0 \in P /\ \A i \in 1 .. n : i - 1 \in P => i \in P
  <2>1. path \in Paths
    BY PathAfterIs
  <2> HIDE DEF n
  <2> QED
    BY <1>2, <1>3, <1>9, <2>1
<1>11. \A i \in 0 .. n : after[i] \in Paths
  <2>1. \A i \in 0 .. n : i \in P
    <3> HIDE DEF P
    <3> QED
      BY <1>2, <1>10, UpTo
  <2> QED
    BY <2>1
<1> QED
  BY <1>1, <1>9, <1>11


LEMMA NameWritten ==
    ASSUME NEW leaf \in Leaves
    PROVE  leaf.writes.name \in Texts
BY DEF Leaves

LEMMA NamesAfterAre ==
    ASSUME NEW name \in Texts, NEW leaves \in Seq(Leaves)
    PROVE  /\ NamesAfter(name, leaves)[0] = name
           /\ \A i \in 1 .. Len(leaves) : NamesAfter(name, leaves)[i] = Changed(NamesAfter(name, leaves)[i - 1], leaves[i].writes.name)
           /\ \A i \in 0 .. Len(leaves) : NamesAfter(name, leaves)[i] \in Texts
<1> DEFINE n == Len(leaves)
           Level(g, i) == IF i = 0 THEN name ELSE Changed(g[i - 1], leaves[i].writes.name)
           Is(g) == g = [i \in 0 .. n |-> Level(g, i)]
           after == CHOOSE g : Is(g)
           h == [i \in 1 .. n |-> [x \in Texts |-> Changed(x, leaves[i].writes.name)]]
<1>1. NamesAfter(name, leaves) = after
  BY DEF NamesAfter
<1>2. n \in Nat /\ \A i \in 1 .. n : leaves[i] \in Leaves
  OBVIOUS
<1>3. \A x \in Texts : \A i \in 1 .. n : Changed(x, leaves[i].writes.name) \in Texts
  BY <1>2, NameWritten, ChangedIs
<1>4. PICK g : Iterates(g, Texts, name, n, h)
  <2>1. \A i \in 1 .. n : h[i] \in [Texts -> Texts]
    BY <1>3
  <2>2. name \in Texts
    BY NameWritten, ChangedIs
  <2> HIDE DEF h, n
  <2> QED
    BY <1>2, <2>1, <2>2, Iterated
<1>5. g \in [0 .. n -> Texts] /\ \A i \in 0 .. n : g[i] = Level(g, i)
  <2>1. g \in [0 .. n -> Texts] /\ g[0] = name /\ \A i \in 1 .. n : g[i] = h[i][g[i - 1]]
    <3> HIDE DEF h, n
    <3> QED
      BY <1>4 DEF Iterates
  <2>2. ASSUME NEW i \in 1 .. n
        PROVE  g[i] = Changed(g[i - 1], leaves[i].writes.name)
    <3>1. h[i] = [x \in Texts |-> Changed(x, leaves[i].writes.name)]
      OBVIOUS
    <3> HIDE DEF h, n
    <3>2. g[i - 1] \in Texts /\ g[i] = h[i][g[i - 1]]
      BY <1>2, <2>1
    <3> QED
      BY <3>1, <3>2
  <2> HIDE DEF n
  <2> QED
    BY <1>2, <2>1, <2>2
<1>6. Is(g)
  <2> HIDE DEF Level
  <2> QED
    BY <1>5
<1>7. Is(after)
  <2> HIDE DEF Is
  <2> QED
    BY <1>6
<1> HIDE DEF after, h
<1>8. \A i \in 0 .. n : after[i] = Level(after, i)
  BY ONLY <1>7
<1>9. after[0] = name /\ \A i \in 1 .. n : after[i] = Changed(after[i - 1], leaves[i].writes.name)
  <2> HIDE DEF n
  <2> QED
    BY <1>2, <1>8
<1> DEFINE P == {i \in 0 .. n : after[i] \in Texts}
<1>10. 0 \in P /\ \A i \in 1 .. n : i - 1 \in P => i \in P
  <2>1. name \in Texts
    BY NameWritten, ChangedIs
  <2> HIDE DEF n
  <2> QED
    BY <1>2, <1>3, <1>9, <2>1
<1>11. \A i \in 0 .. n : after[i] \in Texts
  <2>1. \A i \in 0 .. n : i \in P
    <3> HIDE DEF P
    <3> QED
      BY <1>2, <1>10, UpTo
  <2> QED
    BY <2>1
<1> QED
  BY <1>1, <1>9, <1>11


LEMMA StepLeaves ==
    ASSUME NEW step \in JobSteps
    PROVE  /\ step.declared \in Texts /\ step.leaves \in Seq(Leaves) /\ Len(step.leaves) \in 0 .. Len(step.leaves)
           /\ Len(step.leaves) \in Nat /\ \A i \in 1 .. Len(step.leaves) : step.leaves[i] \in Leaves
           /\ DOMAIN step.leaves = 1 .. Len(step.leaves)
<1>1. step.declared \in Texts /\ step.leaves \in Seq(Leaves)
  BY DEF JobSteps
<1>2. Len(step.leaves) \in Nat
  BY <1>1
<1> QED
  BY <1>1, <1>2

LEMMA Singleton ==
    ASSUME NEW S, NEW x \in S
    PROVE  <<x>> \in Seq(S) /\ <<x>> # <<>>
<1>1. <<x>> \in Seq(S)
  OBVIOUS
<1>2. Len(<<x>>) = 1 /\ Len(<<>>) = 0
  OBVIOUS
<1> QED
  BY <1>1, <1>2

LEMMA BaseIs == Base \in Environments /\ Base.path \in Paths /\ Base.name = <<>> /\ Base.name \in Texts
<1>1. \A x \in Entries : <<x>> \in Texts /\ <<x>> # <<>>
  BY Singleton DEF Texts
<1>2. "base" \in Entries /\ "own" \in Entries
  BY ScriptsAssumption
<1>3. <<>> \in Texts /\ <<"base">> \in Texts /\ <<"own">> \in Texts /\ <<"base">> # <<>>
  <2>1. <<>> \in Texts
    BY DEF Texts
  <2> QED
    BY <1>1, <1>2, <2>1
<1> QED
  BY <1>3 DEF Base, Environments, Paths

LEMMA JobPathsAre ==
    ASSUME NEW steps \in Seq(JobSteps)
    PROVE  /\ JobPaths(steps)[0] = Base.path
           /\ \A i \in 1 .. Len(steps) : JobPaths(steps)[i] = PathsAfter(JobPaths(steps)[i - 1], steps[i].leaves)[Len(steps[i].leaves)]
           /\ \A i \in 0 .. Len(steps) : JobPaths(steps)[i] \in Paths
<1> DEFINE n == Len(steps)
           Level(g, i) == IF i = 0 THEN Base.path ELSE PathsAfter(g[i - 1], steps[i].leaves)[Len(steps[i].leaves)]
           Is(g) == g = [i \in 0 .. n |-> Level(g, i)]
           after == CHOOSE g : Is(g)
           h == [i \in 1 .. n |-> [x \in Paths |-> PathsAfter(x, steps[i].leaves)[Len(steps[i].leaves)]]]
<1>1. JobPaths(steps) = after
  BY DEF JobPaths
<1>2. n \in Nat /\ \A i \in 1 .. n : steps[i] \in JobSteps
  OBVIOUS
<1>3. \A x \in Paths : \A i \in 1 .. n : PathsAfter(x, steps[i].leaves)[Len(steps[i].leaves)] \in Paths
  BY <1>2, StepLeaves, PathsAfterAre, BaseIs
<1>4. PICK g : Iterates(g, Paths, Base.path, n, h)
  <2>1. \A i \in 1 .. n : h[i] \in [Paths -> Paths]
    BY <1>3
  <2>2. Base.path \in Paths
    BY StepLeaves, PathsAfterAre, BaseIs
  <2> HIDE DEF h, n
  <2> QED
    BY <1>2, <2>1, <2>2, Iterated
<1>5. g \in [0 .. n -> Paths] /\ \A i \in 0 .. n : g[i] = Level(g, i)
  <2>1. g \in [0 .. n -> Paths] /\ g[0] = Base.path /\ \A i \in 1 .. n : g[i] = h[i][g[i - 1]]
    <3> HIDE DEF h, n
    <3> QED
      BY <1>4 DEF Iterates
  <2>2. ASSUME NEW i \in 1 .. n
        PROVE  g[i] = PathsAfter(g[i - 1], steps[i].leaves)[Len(steps[i].leaves)]
    <3>1. h[i] = [x \in Paths |-> PathsAfter(x, steps[i].leaves)[Len(steps[i].leaves)]]
      OBVIOUS
    <3> HIDE DEF h, n
    <3>2. g[i - 1] \in Paths /\ g[i] = h[i][g[i - 1]]
      BY <1>2, <2>1
    <3> QED
      BY <3>1, <3>2
  <2> HIDE DEF n
  <2> QED
    BY <1>2, <2>1, <2>2
<1>6. Is(g)
  <2> HIDE DEF Level
  <2> QED
    BY <1>5
<1>7. Is(after)
  <2> HIDE DEF Is
  <2> QED
    BY <1>6
<1> HIDE DEF after, h
<1>8. \A i \in 0 .. n : after[i] = Level(after, i)
  BY ONLY <1>7
<1>9. after[0] = Base.path /\ \A i \in 1 .. n : after[i] = PathsAfter(after[i - 1], steps[i].leaves)[Len(steps[i].leaves)]
  <2> HIDE DEF n
  <2> QED
    BY <1>2, <1>8
<1> DEFINE P == {i \in 0 .. n : after[i] \in Paths}
<1>10. 0 \in P /\ \A i \in 1 .. n : i - 1 \in P => i \in P
  <2>1. Base.path \in Paths
    BY StepLeaves, PathsAfterAre, BaseIs
  <2> HIDE DEF n
  <2> QED
    BY <1>2, <1>3, <1>9, <2>1
<1>11. \A i \in 0 .. n : after[i] \in Paths
  <2>1. \A i \in 0 .. n : i \in P
    <3> HIDE DEF P
    <3> QED
      BY <1>2, <1>10, UpTo
  <2> QED
    BY <2>1
<1> QED
  BY <1>1, <1>9, <1>11


LEMMA JobNamesAre ==
    ASSUME NEW steps \in Seq(JobSteps)
    PROVE  /\ JobNames(steps)[0] = Base.name
           /\ \A i \in 1 .. Len(steps) : JobNames(steps)[i] = NamesAfter(JobNames(steps)[i - 1], steps[i].leaves)[Len(steps[i].leaves)]
           /\ \A i \in 0 .. Len(steps) : JobNames(steps)[i] \in Texts
<1> DEFINE n == Len(steps)
           Level(g, i) == IF i = 0 THEN Base.name ELSE NamesAfter(g[i - 1], steps[i].leaves)[Len(steps[i].leaves)]
           Is(g) == g = [i \in 0 .. n |-> Level(g, i)]
           after == CHOOSE g : Is(g)
           h == [i \in 1 .. n |-> [x \in Texts |-> NamesAfter(x, steps[i].leaves)[Len(steps[i].leaves)]]]
<1>1. JobNames(steps) = after
  BY DEF JobNames
<1>2. n \in Nat /\ \A i \in 1 .. n : steps[i] \in JobSteps
  OBVIOUS
<1>3. \A x \in Texts : \A i \in 1 .. n : NamesAfter(x, steps[i].leaves)[Len(steps[i].leaves)] \in Texts
  BY <1>2, StepLeaves, NamesAfterAre, BaseIs
<1>4. PICK g : Iterates(g, Texts, Base.name, n, h)
  <2>1. \A i \in 1 .. n : h[i] \in [Texts -> Texts]
    BY <1>3
  <2>2. Base.name \in Texts
    BY StepLeaves, NamesAfterAre, BaseIs
  <2> HIDE DEF h, n
  <2> QED
    BY <1>2, <2>1, <2>2, Iterated
<1>5. g \in [0 .. n -> Texts] /\ \A i \in 0 .. n : g[i] = Level(g, i)
  <2>1. g \in [0 .. n -> Texts] /\ g[0] = Base.name /\ \A i \in 1 .. n : g[i] = h[i][g[i - 1]]
    <3> HIDE DEF h, n
    <3> QED
      BY <1>4 DEF Iterates
  <2>2. ASSUME NEW i \in 1 .. n
        PROVE  g[i] = NamesAfter(g[i - 1], steps[i].leaves)[Len(steps[i].leaves)]
    <3>1. h[i] = [x \in Texts |-> NamesAfter(x, steps[i].leaves)[Len(steps[i].leaves)]]
      OBVIOUS
    <3> HIDE DEF h, n
    <3>2. g[i - 1] \in Texts /\ g[i] = h[i][g[i - 1]]
      BY <1>2, <2>1
    <3> QED
      BY <3>1, <3>2
  <2> HIDE DEF n
  <2> QED
    BY <1>2, <2>1, <2>2
<1>6. Is(g)
  <2> HIDE DEF Level
  <2> QED
    BY <1>5
<1>7. Is(after)
  <2> HIDE DEF Is
  <2> QED
    BY <1>6
<1> HIDE DEF after, h
<1>8. \A i \in 0 .. n : after[i] = Level(after, i)
  BY ONLY <1>7
<1>9. after[0] = Base.name /\ \A i \in 1 .. n : after[i] = NamesAfter(after[i - 1], steps[i].leaves)[Len(steps[i].leaves)]
  <2> HIDE DEF n
  <2> QED
    BY <1>2, <1>8
<1> DEFINE P == {i \in 0 .. n : after[i] \in Texts}
<1>10. 0 \in P /\ \A i \in 1 .. n : i - 1 \in P => i \in P
  <2>1. Base.name \in Texts
    BY StepLeaves, NamesAfterAre, BaseIs
  <2> HIDE DEF n
  <2> QED
    BY <1>2, <1>3, <1>9, <2>1
<1>11. \A i \in 0 .. n : after[i] \in Texts
  <2>1. \A i \in 0 .. n : i \in P
    <3> HIDE DEF P
    <3> QED
      BY <1>2, <1>10, UpTo
  <2> QED
    BY <2>1
<1> QED
  BY <1>1, <1>9, <1>11


\* What a step has come to, between its leaves.
Results == [env : Environments, base : Texts, added : Texts]
Progresses == [seen : Seq(Environments), result : Results]
Beginning == [seen |-> <<>>, result |-> NewResult]

LEMMA MergedIs ==
    ASSUME NEW env \in Environments, NEW effects \in Environments
    PROVE  /\ Merged(env, effects) \in Environments
           /\ StepMerged(env, effects) \in Environments
           /\ Merged(env, effects).path = Changed(env.path, effects.path)
           /\ Merged(env, effects).name = Changed(env.name, effects.name)
           /\ StepMerged(env, effects).path = Changed(env.path, effects.path)
           /\ StepMerged(env, effects).name = Changed(env.name, effects.name)
           /\ StepMerged(env, effects).guarded = env.guarded
<1>1. env.path \in Texts /\ env.name \in Texts /\ env.guarded \in Texts
      /\ effects.path \in Texts /\ effects.name \in Texts /\ effects.guarded \in Texts
  BY DEF Environments
<1>2. Changed(env.path, effects.path) \in Texts /\ Changed(env.name, effects.name) \in Texts
      /\ Changed(env.guarded, effects.guarded) \in Texts
  BY <1>1, ChangedIs
<1> QED
  BY <1>1, <1>2 DEF Merged, StepMerged, Environments

LEMMA DeclaresIs ==
    ASSUME NEW value \in Texts
    PROVE  /\ Declares(value) \in Environments
           /\ Declares(value).path = <<>> /\ Declares(value).name = value
           /\ Nothing \in Environments
<1>1. <<>> \in Texts
  BY DEF Texts
<1> QED
  BY <1>1 DEF Declares, Nothing, Environments

LEMMA ResultOfIs ==
    ASSUME NEW leaf \in Leaves, NEW env \in Environments
    PROVE  /\ ResultOf(leaf, env) \in Results
           /\ ResultOf(leaf, env).base = leaf.writes.path
           /\ ResultOf(leaf, env).added = leaf.writes.added
           /\ ResultOf(leaf, env).env.name = leaf.writes.name
           /\ ResultOf(leaf, env).env.path =
                 IF leaf.docker \/ leaf.writes.added = <<>> THEN leaf.writes.path
                 ELSE Applied(Changed(env.path, leaf.writes.path), leaf.writes.added)
<1> DEFINE written == [path |-> leaf.writes.path, name |-> leaf.writes.name, guarded |-> leaf.writes.guarded]
<1>1. leaf.writes.path \in Texts /\ leaf.writes.name \in Texts /\ leaf.writes.guarded \in Texts
      /\ leaf.writes.added \in Texts
  BY DEF Leaves
<1>2. written \in Environments
  BY <1>1 DEF Environments
<1>3. Merged(env, written).path = Changed(env.path, leaf.writes.path) /\ Merged(env, written).path \in Texts
  <2>1. Merged(env, written) \in Environments /\ Merged(env, written).path = Changed(env.path, written.path)
    <3> HIDE DEF written
    <3> QED
      BY <1>2, MergedIs
  <2> QED
    BY <2>1 DEF Environments
<1>4. Applied(Merged(env, written).path, leaf.writes.added) \in Texts
  <2> HIDE DEF written
  <2> QED
    BY <1>1, <1>3, AppliedIs
<1> QED
  BY <1>1, <1>2, <1>3, <1>4 DEF ResultOf, Results, Environments

LEMMA CombinedIs ==
    ASSUME NEW result \in Results, NEW next \in Results
    PROVE  /\ Combined(result, next) \in Results
           /\ Combined(result, next).env.path = Changed(result.env.path, next.env.path)
           /\ Combined(result, next).env.name = Changed(result.env.name, next.env.name)
           /\ Combined(result, next).base = Changed(result.base, next.base)
           /\ Combined(result, next).added = (IF next.base = <<>> THEN result.added ELSE <<>>) \o next.added
<1>1. /\ result.env \in Environments /\ result.base \in Texts /\ result.added \in Texts
      /\ next.env \in Environments /\ next.base \in Texts /\ next.added \in Texts
  BY DEF Results
<1>2. <<>> \in Texts
  BY DEF Texts
<1> DEFINE kept == IF next.base = <<>> THEN result.added ELSE <<>>
<1>3. kept \in Texts
  BY <1>1, <1>2
<1>4. kept \o next.added \in Texts
  <2> HIDE DEF kept
  <2> QED
    BY <1>1, <1>3, ConcatProperties DEF Texts
<1>5. Merged(result.env, next.env) \in Environments /\ Changed(result.base, next.base) \in Texts
  BY <1>1, MergedIs, ChangedIs
<1> QED
  BY <1>1, <1>4, <1>5, MergedIs DEF Combined, Results

\* The environment a leaf starts with.
Start(step, env, before, leaf) ==
    StepMerged(StepMerged(StepMerged(env, Declares(step.declared)), before.result.env), Declares(leaf.declared))

LEMMA StartIs ==
    ASSUME NEW step \in JobSteps, NEW env \in Environments, NEW before \in Progresses, NEW leaf \in Leaves
    PROVE  /\ Start(step, env, before, leaf) \in Environments
           /\ Start(step, env, before, leaf).path = Changed(env.path, before.result.env.path)
           /\ Start(step, env, before, leaf).name =
                 Changed(Changed(Changed(env.name, step.declared), before.result.env.name), leaf.declared)
           /\ Start(step, env, before, leaf).guarded = env.guarded
<1> DEFINE around == StepMerged(env, Declares(step.declared))
           inner == StepMerged(around, before.result.env)
<1>1. step.declared \in Texts /\ leaf.declared \in Texts /\ before.result.env \in Environments
  BY DEF JobSteps, Leaves, Progresses, Results
<1>2. /\ Declares(step.declared) \in Environments /\ Declares(step.declared).path = <<>>
      /\ Declares(step.declared).name = step.declared
      /\ Declares(leaf.declared) \in Environments /\ Declares(leaf.declared).path = <<>>
      /\ Declares(leaf.declared).name = leaf.declared
  BY <1>1, DeclaresIs
<1>3. /\ around \in Environments /\ around.path = env.path
      /\ around.name = Changed(env.name, step.declared) /\ around.guarded = env.guarded
  BY <1>2, MergedIs DEF Changed
<1>4. /\ inner \in Environments /\ inner.path = Changed(around.path, before.result.env.path)
      /\ inner.name = Changed(around.name, before.result.env.name) /\ inner.guarded = around.guarded
  <2> HIDE DEF around
  <2> QED
    BY <1>1, <1>3, MergedIs
<1>5. /\ StepMerged(inner, Declares(leaf.declared)) \in Environments
      /\ StepMerged(inner, Declares(leaf.declared)).path = inner.path
      /\ StepMerged(inner, Declares(leaf.declared)).name = Changed(inner.name, leaf.declared)
      /\ StepMerged(inner, Declares(leaf.declared)).guarded = inner.guarded
  <2> HIDE DEF inner
  <2> QED
    BY <1>2, <1>4, MergedIs DEF Changed
<1> QED
  BY <1>3, <1>4, <1>5 DEF Start

LEMMA RunLeafIs ==
    ASSUME NEW step \in JobSteps, NEW env \in Environments, NEW before \in Progresses, NEW leaf \in Leaves
    PROVE  /\ RunLeaf(step, env, before, leaf) \in Progresses
           /\ RunLeaf(step, env, before, leaf).seen = Append(before.seen, Start(step, env, before, leaf))
           /\ RunLeaf(step, env, before, leaf).result =
                 Combined(before.result, ResultOf(leaf, Start(step, env, before, leaf)))
<1> DEFINE start == Start(step, env, before, leaf)
<1>1. RunLeaf(step, env, before, leaf) =
          [seen |-> Append(before.seen, start), result |-> Combined(before.result, ResultOf(leaf, start))]
  BY DEF RunLeaf, Start
<1>2. start \in Environments
  BY StartIs
<1>3. before.seen \in Seq(Environments) /\ before.result \in Results
  BY DEF Progresses
<1> HIDE DEF start
<1>4. Append(before.seen, start) \in Seq(Environments)
  BY <1>2, <1>3, AppendProperties
<1>5. Combined(before.result, ResultOf(leaf, start)) \in Results
  BY <1>2, <1>3, ResultOfIs, CombinedIs
<1> QED
  BY <1>1, <1>4, <1>5 DEF Progresses, start

LEMMA BeginningIs == Beginning \in Progresses
<1>1. <<>> \in Texts /\ Nothing \in Environments
  <2>1. <<>> \in Texts
    BY DEF Texts
  <2> QED
    BY <2>1, DeclaresIs
<1> QED
  BY <1>1 DEF Beginning, NewResult, Progresses, Results


LEMMA RunStepIs ==
    ASSUME NEW step \in JobSteps, NEW env \in Environments
    PROVE  \E run :
              /\ run[0] = Beginning /\ RunStep(step, env) = run[Len(step.leaves)]
              /\ \A i \in 1 .. Len(step.leaves) : run[i] = RunLeaf(step, env, run[i - 1], step.leaves[i])
              /\ \A i \in 0 .. Len(step.leaves) : run[i] \in Progresses
<1> DEFINE n == Len(step.leaves)
           Level(g, i) == IF i = 0 THEN Beginning ELSE RunLeaf(step, env, g[i - 1], step.leaves[i])
           Is(g) == g = [i \in 0 .. n |-> Level(g, i)]
           after == CHOOSE g : Is(g)
           h == [i \in 1 .. n |-> [x \in Progresses |-> RunLeaf(step, env, x, step.leaves[i])]]
<1>1. RunStep(step, env) = after[n]
  BY DEF RunStep, Beginning
<1>2. n \in Nat /\ \A i \in 1 .. n : step.leaves[i] \in Leaves
  BY StepLeaves
<1>3. \A x \in Progresses : \A i \in 1 .. n : RunLeaf(step, env, x, step.leaves[i]) \in Progresses
  BY <1>2, RunLeafIs, BeginningIs
<1>4. PICK g : Iterates(g, Progresses, Beginning, n, h)
  <2>1. \A i \in 1 .. n : h[i] \in [Progresses -> Progresses]
    BY <1>3
  <2>2. Beginning \in Progresses
    BY RunLeafIs, BeginningIs
  <2> HIDE DEF h, n
  <2> QED
    BY <1>2, <2>1, <2>2, Iterated
<1>5. g \in [0 .. n -> Progresses] /\ \A i \in 0 .. n : g[i] = Level(g, i)
  <2>1. g \in [0 .. n -> Progresses] /\ g[0] = Beginning /\ \A i \in 1 .. n : g[i] = h[i][g[i - 1]]
    <3> HIDE DEF h, n
    <3> QED
      BY <1>4 DEF Iterates
  <2>2. ASSUME NEW i \in 1 .. n
        PROVE  g[i] = RunLeaf(step, env, g[i - 1], step.leaves[i])
    <3>1. h[i] = [x \in Progresses |-> RunLeaf(step, env, x, step.leaves[i])]
      OBVIOUS
    <3> HIDE DEF h, n
    <3>2. g[i - 1] \in Progresses /\ g[i] = h[i][g[i - 1]]
      BY <1>2, <2>1
    <3> QED
      BY <3>1, <3>2
  <2> HIDE DEF n
  <2> QED
    BY <1>2, <2>1, <2>2
<1>6. Is(g)
  <2> HIDE DEF Level
  <2> QED
    BY <1>5
<1>7. Is(after)
  <2> HIDE DEF Is
  <2> QED
    BY <1>6
<1> HIDE DEF after, h
<1>8. \A i \in 0 .. n : after[i] = Level(after, i)
  BY ONLY <1>7
<1>9. after[0] = Beginning /\ \A i \in 1 .. n : after[i] = RunLeaf(step, env, after[i - 1], step.leaves[i])
  <2> HIDE DEF n
  <2> QED
    BY <1>2, <1>8
<1> DEFINE P == {i \in 0 .. n : after[i] \in Progresses}
<1>10. 0 \in P /\ \A i \in 1 .. n : i - 1 \in P => i \in P
  <2>1. Beginning \in Progresses
    BY RunLeafIs, BeginningIs
  <2> HIDE DEF n
  <2> QED
    BY <1>2, <1>3, <1>9, <2>1
<1>11. \A i \in 0 .. n : after[i] \in Progresses
  <2>1. \A i \in 0 .. n : i \in P
    <3> HIDE DEF P
    <3> QED
      BY <1>2, <1>10, UpTo
  <2> QED
    BY <2>1
<1> QED
  BY <1>1, <1>9, <1>11


LEMMA ChangedTwice ==
    ASSUME NEW value, NEW first, NEW second
    PROVE  Changed(Changed(value, first), second) = Changed(value, Changed(first, second))
BY DEF Changed

LEMMA SiblingsAre ==
    ASSUME NEW leaves \in Seq(Leaves)
    PROVE  /\ AsSiblings(leaves) \in Seq(Leaves) /\ Len(AsSiblings(leaves)) = Len(leaves)
           /\ \A i \in 1 .. Len(leaves) :
                 /\ AsSiblings(leaves)[i].writes.path = leaves[i].writes.path
                 /\ AsSiblings(leaves)[i].writes.name = leaves[i].writes.name
                 /\ AsSiblings(leaves)[i].writes.added =
                       IF leaves[i].docker THEN <<>> ELSE leaves[i].writes.added
<1> DEFINE n == Len(leaves)
           As(leaf) == IF leaf.docker THEN [leaf EXCEPT !.writes.added = <<>>] ELSE leaf
<1>1. n \in Nat /\ leaves \in [1 .. n -> Leaves] /\ DOMAIN leaves = 1 .. n
  OBVIOUS
<1>2. AsSiblings(leaves) = [i \in 1 .. n |-> As(leaves[i])]
  BY <1>1 DEF AsSiblings
<1>3. <<>> \in Texts
  BY DEF Texts
<1>4. ASSUME NEW leaf \in Leaves
      PROVE  /\ As(leaf) \in Leaves
             /\ As(leaf).writes.path = leaf.writes.path /\ As(leaf).writes.name = leaf.writes.name
             /\ As(leaf).writes.added = IF leaf.docker THEN <<>> ELSE leaf.writes.added
  BY <1>3 DEF Leaves
<1> HIDE DEF As, n
<1>5. [i \in 1 .. n |-> As(leaves[i])] \in Seq(Leaves) /\ Len([i \in 1 .. n |-> As(leaves[i])]) = n
  <2>1. [i \in 1 .. n |-> As(leaves[i])] \in [1 .. n -> Leaves]
    BY <1>1, <1>4
  <2> QED
    BY <1>1, <2>1, IsASeq, LenProperties
<1> QED
  BY <1>1, <1>2, <1>4, <1>5 DEF n

\* The leaves of a step start as they ought to, and what has been done by then
\* is in the result: as siblings see it in its environment, and as the job will
\* in what it adds to the last PATH that was set.
Follows(step, env, progress, i) ==
    LET siblings == AsSiblings(step.leaves)
        around == Changed(env.name, step.declared)
        result == progress.result
    IN  /\ Len(progress.seen) = i
        /\ \A k \in 1 .. i :
              /\ progress.seen[k].path = PathsAfter(env.path, siblings)[k - 1]
              /\ progress.seen[k].name = Changed(NamesAfter(around, siblings)[k - 1], step.leaves[k].declared)
              /\ progress.seen[k].guarded = env.guarded
        /\ Changed(env.path, result.env.path) = PathsAfter(env.path, siblings)[i]
        /\ Changed(around, result.env.name) = NamesAfter(around, siblings)[i]
        /\ Changed(env.name, result.env.name) = NamesAfter(env.name, step.leaves)[i]
        /\ Applied(Changed(env.path, result.base), result.added) = PathsAfter(env.path, step.leaves)[i]
        /\ result.added = <<>> => result.env.path = result.base

\* The PATH a sibling leaves, and the one the job is left.
LEMMA PathSteps ==
    ASSUME NEW path \in Paths, NEW result \in Results, NEW leaf \in Leaves, NEW start \in Environments,
           start.path = Changed(path, result.env.path),
           NEW sibling, sibling.writes.path = leaf.writes.path,
           sibling.writes.added = IF leaf.docker THEN <<>> ELSE leaf.writes.added,
           result.added = <<>> => result.env.path = result.base,
           NEW next, next = Combined(result, ResultOf(leaf, start))
    PROVE  /\ Changed(path, next.env.path) = PathAfter(start.path, sibling)
           /\ Applied(Changed(path, next.base), next.added) =
                 PathAfter(Applied(Changed(path, result.base), result.added), leaf)
           /\ next.added = <<>> => next.env.path = next.base
<1> DEFINE N == ResultOf(leaf, start)
           set == leaf.writes.path
           added == leaf.writes.added
<1>1. /\ set \in Texts /\ added \in Texts /\ path \in Texts /\ path # <<>>
      /\ result.env.path \in Texts /\ result.base \in Texts /\ result.added \in Texts
      /\ start.path \in Texts
  BY DEF Leaves, Results, Environments, Paths
<1>2. start.path # <<>>
  BY <1>1 DEF Changed
<1>3. /\ N \in Results /\ N.base = set /\ N.added = added
      /\ N.env.path = IF leaf.docker \/ added = <<>> THEN set
                      ELSE Applied(Changed(start.path, set), added)
  BY ResultOfIs
<1>4. /\ next.env.path = Changed(result.env.path, N.env.path)
      /\ next.base = Changed(result.base, N.base)
      /\ next.added = (IF N.base = <<>> THEN result.added ELSE <<>>) \o N.added
  <2> HIDE DEF N
  <2> QED
    BY <1>3, CombinedIs DEF N
<1> HIDE DEF N, set, added
<1>5. Changed(path, next.env.path) = Changed(start.path, N.env.path)
  BY <1>4, ChangedTwice
<1>6. Changed(start.path, set) \in Texts /\ Changed(start.path, set) # <<>>
  BY <1>1, <1>2, ChangedIs
<1>7. Changed(path, next.env.path) = PathAfter(start.path, sibling)
  <2>1. PathAfter(start.path, sibling) =
            Applied(Changed(start.path, set), IF leaf.docker THEN <<>> ELSE added)
    BY DEF PathAfter, set, added
  <2>2. CASE leaf.docker \/ added = <<>>
    <3>1. N.env.path = set
      BY <1>3, <2>2
    <3>2. Applied(Changed(start.path, set), <<>>) = Changed(start.path, set)
      BY <1>1, <1>6, AppliedIs
    <3> QED
      BY <1>5, <2>1, <2>2, <3>1, <3>2
  <2>3. CASE ~(leaf.docker \/ added = <<>>)
    <3>1. N.env.path = Applied(Changed(start.path, set), added)
      BY <1>3, <2>3
    <3>2. Applied(Changed(start.path, set), added) # <<>>
      BY <1>1, <1>6, AppliedIs
    <3>3. Changed(start.path, N.env.path) = N.env.path
      BY <3>1, <3>2 DEF Changed
    <3> QED
      BY <1>5, <2>1, <2>3, <3>1, <3>3
  <2> QED
    BY <2>2, <2>3
<1>8. /\ Applied(Changed(path, next.base), next.added) =
            PathAfter(Applied(Changed(path, result.base), result.added), leaf)
      /\ next.added = <<>> => next.env.path = next.base
  <2> DEFINE before == Applied(Changed(path, result.base), result.added)
  <2>0. Changed(path, result.base) \in Texts
    BY <1>1, ChangedIs
  <2>1. before \in Texts
    BY <1>1, <2>0, AppliedIs
  <2>2. PathAfter(before, leaf) = Applied(Changed(before, set), added)
    BY DEF PathAfter, set, added
  <2>3. CASE set = <<>>
    <3>1. next.base = result.base /\ next.added = result.added \o added /\ Changed(before, set) = before
      BY <1>3, <1>4, <2>3 DEF Changed
    <3>2. Applied(Changed(path, result.base), result.added \o added) = Applied(before, added)
      BY <1>1, <2>0, AppliedTwice
    <3>3. ASSUME next.added = <<>>
          PROVE  next.env.path = next.base
      <4>1. result.added = <<>> /\ added = <<>>
        <5>1. PICK S : Texts = Seq(S)
          BY DEF Texts
        <5>2. result.added \in Seq(S) /\ added \in Seq(S) /\ result.added \o added = <<>>
          BY <1>1, <3>1, <3>3, <5>1
        <5> HIDE DEF added
        <5> QED
          BY <5>2, ConcatEqualIffEmpty
      <4>2. N.env.path = <<>>
        BY <1>3, <2>3, <4>1
      <4> QED
        BY <1>4, <3>1, <4>1, <4>2 DEF Changed
    <3> QED
      BY <2>2, <3>1, <3>2, <3>3
  <2>4. CASE set # <<>>
    <3>1. <<>> \o added = added
      BY <1>1, ConcatEmptySeq DEF Texts
    <3>2. next.base = set /\ next.added = added /\ Changed(before, set) = set /\ Changed(path, set) = set
      BY <1>3, <1>4, <2>4, <3>1 DEF Changed
    <3>3. added = <<>> => N.env.path = set
      BY <1>3
    <3>4. next.added = <<>> => next.env.path = next.base
      BY <1>4, <2>4, <3>2, <3>3 DEF Changed
    <3> QED
      BY <2>2, <3>2, <3>4
  <2> QED
    BY <2>3, <2>4
<1> QED
  BY <1>7, <1>8

LEMMA LeafFollows ==
    ASSUME NEW step \in JobSteps, NEW env \in Environments, env.path \in Paths,
           NEW i \in 1 .. Len(step.leaves), NEW before \in Progresses, Follows(step, env, before, i - 1)
    PROVE  Follows(step, env, RunLeaf(step, env, before, step.leaves[i]), i)
<1> DEFINE leaves == step.leaves
           leaf == leaves[i]
           siblings == AsSiblings(leaves)
           around == Changed(env.name, step.declared)
           start == Start(step, env, before, leaf)
           result == before.result
           N == ResultOf(leaf, start)
           next == Combined(result, N)
           after == RunLeaf(step, env, before, leaf)
           paths == PathsAfter(env.path, siblings)
           whole == PathsAfter(env.path, leaves)
           names == NamesAfter(around, siblings)
           plain == NamesAfter(env.name, leaves)
<1>1. /\ leaves \in Seq(Leaves) /\ leaf \in Leaves /\ Len(leaves) \in Nat /\ i \in Nat
      /\ step.declared \in Texts /\ env.name \in Texts /\ leaf.declared \in Texts
      /\ leaf.writes.name \in Texts
  <2>1. /\ leaves \in Seq(Leaves) /\ leaf \in Leaves /\ Len(leaves) \in Nat /\ i \in Nat
        /\ step.declared \in Texts
    BY StepLeaves
  <2> HIDE DEF leaf
  <2>2. leaf.declared \in Texts /\ leaf.writes.name \in Texts
    BY <2>1 DEF Leaves
  <2>3. env.name \in Texts
    BY DEF Environments
  <2> QED
    BY <2>1, <2>2, <2>3
<1>2. /\ siblings \in Seq(Leaves) /\ Len(siblings) = Len(leaves)
      /\ siblings[i].writes.path = leaf.writes.path /\ siblings[i].writes.name = leaf.writes.name
      /\ siblings[i].writes.added = IF leaf.docker THEN <<>> ELSE leaf.writes.added
  <2> HIDE DEF leaves
  <2> QED
    BY <1>1, SiblingsAre DEF leaves
<1>3. /\ start \in Environments /\ start.path = Changed(env.path, result.env.path)
      /\ start.name = Changed(Changed(around, result.env.name), leaf.declared)
      /\ start.guarded = env.guarded
  <2> HIDE DEF leaf
  <2> QED
    BY <1>1, StartIs
<1>4. result \in Results /\ before.seen \in Seq(Environments)
  BY DEF Progresses
<1>5. after.seen = Append(before.seen, start) /\ after.result = next
  <2> HIDE DEF leaf
  <2> QED
    BY <1>1, RunLeafIs
<1>6. around \in Texts
  BY <1>1, ChangedIs
<1>7. N.env.name = leaf.writes.name /\ next.env.name = Changed(result.env.name, leaf.writes.name)
  <2>1. N \in Results /\ N.env.name = leaf.writes.name
    <3> HIDE DEF leaf, start
    <3> QED
      BY <1>1, <1>3, ResultOfIs
  <2> HIDE DEF N, result, leaf
  <2>2. next.env.name = Changed(result.env.name, N.env.name)
    BY <1>4, <2>1, CombinedIs
  <2> QED
    BY <2>1, <2>2
<1>8. /\ paths[i] = PathAfter(paths[i - 1], siblings[i])
      /\ names[i] = Changed(names[i - 1], leaf.writes.name)
  <2> HIDE DEF siblings, around
  <2>1. /\ paths[i] = PathAfter(paths[i - 1], siblings[i])
        /\ names[i] = Changed(names[i - 1], siblings[i].writes.name)
    BY <1>2, <1>6, PathsAfterAre, NamesAfterAre DEF leaves
  <2> QED
    BY <1>2, <2>1
<1>9. whole[i] = PathAfter(whole[i - 1], leaf) /\ plain[i] = Changed(plain[i - 1], leaf.writes.name)
  BY <1>1, PathsAfterAre, NamesAfterAre
<1>10. /\ Len(before.seen) = i - 1
       /\ \A k \in 1 .. i - 1 :
             /\ before.seen[k].path = paths[k - 1]
             /\ before.seen[k].name = Changed(names[k - 1], leaves[k].declared)
             /\ before.seen[k].guarded = env.guarded
       /\ Changed(env.path, result.env.path) = paths[i - 1]
       /\ Changed(around, result.env.name) = names[i - 1]
       /\ Changed(env.name, result.env.name) = plain[i - 1]
       /\ Applied(Changed(env.path, result.base), result.added) = whole[i - 1]
       /\ result.added = <<>> => result.env.path = result.base
  BY DEF Follows
<1> HIDE DEF leaves, leaf, siblings, around, start, result, paths, whole, names, plain
<1>11. /\ Changed(env.path, next.env.path) = PathAfter(start.path, siblings[i])
       /\ Applied(Changed(env.path, next.base), next.added) =
             PathAfter(Applied(Changed(env.path, result.base), result.added), leaf)
       /\ next.added = <<>> => next.env.path = next.base
  BY <1>1, <1>2, <1>3, <1>4, <1>10, PathSteps
<1> HIDE DEF N, next
<1>12. /\ Changed(around, next.env.name) = names[i]
       /\ Changed(env.name, next.env.name) = plain[i]
  BY <1>7, <1>8, <1>9, <1>10, ChangedTwice
<1>13. /\ Changed(env.path, next.env.path) = paths[i]
       /\ Applied(Changed(env.path, next.base), next.added) = whole[i]
  BY <1>3, <1>8, <1>9, <1>10, <1>11
<1> HIDE DEF after
<1>14. /\ Len(after.seen) = i
       /\ \A k \in 1 .. i :
             /\ after.seen[k].path = paths[k - 1]
             /\ after.seen[k].name = Changed(names[k - 1], leaves[k].declared)
             /\ after.seen[k].guarded = env.guarded
  <2>1. /\ Len(after.seen) = i - 1 + 1 /\ after.seen[i - 1 + 1] = start
        /\ \A k \in 1 .. i - 1 : after.seen[k] = before.seen[k]
    BY <1>3, <1>4, <1>5, <1>10, AppendProperties
  <2>2. Len(after.seen) = i /\ after.seen[i] = start
    BY <1>1, <2>1
  <2>3. start.path = paths[i - 1] /\ start.name = Changed(names[i - 1], leaves[i].declared)
        /\ start.guarded = env.guarded
    BY <1>3, <1>10 DEF leaf
  <2>4. \A k \in 1 .. i : k # i => k \in 1 .. i - 1
    BY <1>1
  <2> QED
    BY <1>10, <2>1, <2>2, <2>3, <2>4
<1>15. Follows(step, env, after, i)
  BY <1>5, <1>11, <1>12, <1>13, <1>14
  DEF Follows, leaves, siblings, around, paths, whole, names, plain
<1> QED
  BY <1>15 DEF after, leaf, leaves

LEMMA StepFollows ==
    ASSUME NEW step \in JobSteps, NEW env \in Environments, env.path \in Paths
    PROVE  RunStep(step, env) \in Progresses /\ Follows(step, env, RunStep(step, env), Len(step.leaves))
<1> DEFINE n == Len(step.leaves)
<1>1. /\ n \in Nat /\ n \in 0 .. n /\ step.leaves \in Seq(Leaves) /\ step.declared \in Texts
      /\ env.name \in Texts
  BY StepLeaves DEF Environments
<1>2. PICK run :
         /\ run[0] = Beginning /\ RunStep(step, env) = run[n]
         /\ \A i \in 1 .. n : run[i] = RunLeaf(step, env, run[i - 1], step.leaves[i])
         /\ \A i \in 0 .. n : run[i] \in Progresses
  BY RunStepIs
<1> HIDE DEF n
<1>3. Follows(step, env, Beginning, 0)
  <2> DEFINE siblings == AsSiblings(step.leaves)
             around == Changed(env.name, step.declared)
  <2>1. siblings \in Seq(Leaves) /\ around \in Texts
    BY <1>1, SiblingsAre, ChangedIs
  <2> HIDE DEF siblings, around
  <2>2. /\ PathsAfter(env.path, siblings)[0] = env.path /\ NamesAfter(around, siblings)[0] = around
    BY <2>1, PathsAfterAre, NamesAfterAre
  <2>3. PathsAfter(env.path, step.leaves)[0] = env.path /\ NamesAfter(env.name, step.leaves)[0] = env.name
    BY <1>1, PathsAfterAre, NamesAfterAre
  <2>4. Applied(env.path, <<>>) = env.path
    <3>1. env.path \in Texts /\ <<>> \in Texts
      BY DEF Paths, Texts
    <3> QED
      BY <3>1, AppliedIs
  <2>5. /\ Beginning.seen = <<>> /\ Beginning.result.env.path = <<>> /\ Beginning.result.env.name = <<>>
        /\ Beginning.result.base = <<>> /\ Beginning.result.added = <<>>
    BY DEF Beginning, NewResult, Nothing
  <2>6. Changed(env.path, <<>>) = env.path /\ Changed(env.name, <<>>) = env.name /\ Changed(around, <<>>) = around
    BY DEF Changed
  <2>7. Len(<<>>) = 0 /\ 1 .. 0 = {}
    OBVIOUS
  <2> QED
    BY <2>2, <2>3, <2>4, <2>5, <2>6, <2>7 DEF Follows, siblings, around
<1> DEFINE P == {i \in 0 .. n : Follows(step, env, run[i], i)}
<1>4. 0 \in P
  BY <1>1, <1>2, <1>3
<1>5. ASSUME NEW i \in 1 .. n, i - 1 \in P
      PROVE  i \in P
  <2>1. i - 1 \in 0 .. n /\ i \in 0 .. n /\ run[i - 1] \in Progresses /\ Follows(step, env, run[i - 1], i - 1)
    BY <1>1, <1>2, <1>5
  <2>2. Follows(step, env, RunLeaf(step, env, run[i - 1], step.leaves[i]), i)
    BY <2>1, LeafFollows DEF n
  <2> QED
    BY <1>2, <2>1, <2>2
<1>6. n \in P
  <2> HIDE DEF P
  <2> QED
    BY <1>1, <1>4, <1>5, UpTo
<1> QED
  BY <1>1, <1>2, <1>6 DEF n

\* What has come of the job, between its steps.
JobProgresses == [seen : Seq(Seq(Environments)), env : Environments]
JobBeginning == [seen |-> <<>>, env |-> Base]

LEMMA CommittedIs ==
    ASSUME NEW env \in Environments, NEW result \in Results
    PROVE  /\ Committed(env, result) \in Environments
           /\ Committed(env, result).name = Changed(env.name, result.env.name)
           /\ Committed(env, result).path =
                 Applied(Changed(env.path, IF result.added = <<>> THEN result.env.path ELSE result.base), result.added)
<1> DEFINE effects == IF result.added = <<>> THEN result.env ELSE [result.env EXCEPT !.path = result.base]
           merged == Merged(env, effects)
<1>1. result.env \in Environments /\ result.base \in Texts /\ result.added \in Texts
  BY DEF Results
<1>2. /\ effects \in Environments /\ effects.name = result.env.name
      /\ effects.path = IF result.added = <<>> THEN result.env.path ELSE result.base
  BY <1>1 DEF Environments
<1>3. /\ merged \in Environments /\ merged.path = Changed(env.path, effects.path)
      /\ merged.name = Changed(env.name, effects.name)
  <2> HIDE DEF effects
  <2> QED
    BY <1>2, MergedIs
<1>4. Committed(env, result) = [merged EXCEPT !.path = Applied(merged.path, result.added)]
  BY DEF Committed
<1> HIDE DEF effects, merged
<1>5. merged.path \in Texts
  BY <1>3 DEF Environments
<1>6. Applied(merged.path, result.added) \in Texts
  BY <1>1, <1>5, AppliedIs
<1> QED
  BY <1>2, <1>3, <1>4, <1>6 DEF Environments

LEMMA CommitStepIs ==
    ASSUME NEW before \in JobProgresses, before.env.path \in Paths, NEW step \in JobSteps
    PROVE  /\ CommitStep(before, step) \in JobProgresses
           /\ CommitStep(before, step).env.path =
                 PathsAfter(before.env.path, step.leaves)[Len(step.leaves)]
           /\ CommitStep(before, step).env.name =
                 NamesAfter(before.env.name, step.leaves)[Len(step.leaves)]
           /\ \E run \in Progresses, env \in Environments :
                 /\ CommitStep(before, step).seen = Append(before.seen, run.seen)
                 /\ env.path = before.env.path /\ env.name = before.env.name /\ env.guarded = Base.guarded
                 /\ Follows(step, env, run, Len(step.leaves))
<1> DEFINE env == StepMerged(Base, before.env)
           run == RunStep(step, env)
           after == CommitStep(before, step)
           n == Len(step.leaves)
<1>1. before.env \in Environments /\ before.seen \in Seq(Seq(Environments)) /\ before.env.path # <<>>
  BY DEF JobProgresses, Paths
<1>2. /\ env \in Environments /\ env.path = before.env.path /\ env.name = before.env.name
      /\ env.guarded = Base.guarded
  BY <1>1, BaseIs, MergedIs DEF Changed
<1>3. run \in Progresses /\ Follows(step, env, run, n)
  <2> HIDE DEF env
  <2> QED
    BY <1>2, StepFollows
<1>4. after = [seen |-> Append(before.seen, run.seen), env |-> Committed(before.env, run.result)]
  BY DEF CommitStep
<1> HIDE DEF env, run, after
<1>5. run.result \in Results /\ run.seen \in Seq(Environments)
  BY <1>3 DEF Progresses
<1>6. Append(before.seen, run.seen) \in Seq(Seq(Environments))
  BY <1>1, <1>5, AppendProperties
<1>7. /\ Committed(before.env, run.result) \in Environments
      /\ Committed(before.env, run.result).name = Changed(before.env.name, run.result.env.name)
      /\ Committed(before.env, run.result).path =
            Applied(Changed(before.env.path, IF run.result.added = <<>> THEN run.result.env.path ELSE run.result.base),
                    run.result.added)
  BY <1>1, <1>5, CommittedIs
<1>8. /\ Changed(env.name, run.result.env.name) = NamesAfter(env.name, step.leaves)[n]
      /\ Applied(Changed(env.path, run.result.base), run.result.added) = PathsAfter(env.path, step.leaves)[n]
      /\ run.result.added = <<>> => run.result.env.path = run.result.base
  BY <1>3 DEF Follows
<1>9. after \in JobProgresses
  BY <1>4, <1>6, <1>7 DEF JobProgresses
<1>10. after.env.name = NamesAfter(before.env.name, step.leaves)[n]
  BY <1>2, <1>4, <1>7, <1>8
<1>11. after.env.path = PathsAfter(before.env.path, step.leaves)[n]
  <2>1. run.result.base = IF run.result.added = <<>> THEN run.result.env.path ELSE run.result.base
    BY <1>8
  <2> QED
    BY <1>2, <1>4, <1>7, <1>8, <2>1
<1>12. after.seen = Append(before.seen, run.seen)
  BY <1>4
<1> QED
  BY <1>2, <1>3, <1>9, <1>10, <1>11, <1>12 DEF after

\* What the leaves of step s have seen.
SeenFollows(steps, seenOf, s) ==
    \A k \in DOMAIN steps[s].leaves :
        LET siblings == AsSiblings(steps[s].leaves)
            around == Changed(JobNames(steps)[s - 1], steps[s].declared)
        IN  /\ seenOf[k].path = PathsAfter(JobPaths(steps)[s - 1], siblings)[k - 1]
            /\ seenOf[k].name = Changed(NamesAfter(around, siblings)[k - 1], steps[s].leaves[k].declared)
            /\ seenOf[k].guarded = Base.guarded

JobFollows(steps, progress, i) ==
    /\ progress \in JobProgresses /\ Len(progress.seen) = i
    /\ progress.env.path = JobPaths(steps)[i] /\ progress.env.name = JobNames(steps)[i]
    /\ \A s \in 1 .. i : SeenFollows(steps, progress.seen[s], s)

LEMMA CommitFollows ==
    ASSUME NEW steps \in Seq(JobSteps), NEW i \in 1 .. Len(steps), NEW before, JobFollows(steps, before, i - 1)
    PROVE  JobFollows(steps, CommitStep(before, steps[i]), i)
<1> DEFINE step == steps[i]
           after == CommitStep(before, step)
           n == Len(step.leaves)
<1>1. /\ Len(steps) \in Nat /\ i \in Nat /\ step \in JobSteps
      /\ i - 1 \in 0 .. Len(steps)
  OBVIOUS
<1>2. /\ before \in JobProgresses /\ Len(before.seen) = i - 1
      /\ before.env.path = JobPaths(steps)[i - 1] /\ before.env.name = JobNames(steps)[i - 1]
      /\ \A s \in 1 .. i - 1 : SeenFollows(steps, before.seen[s], s)
  BY DEF JobFollows
<1>3. before.env.path \in Paths
  BY <1>1, <1>2, JobPathsAre
<1>4. JobPaths(steps)[i] = PathsAfter(before.env.path, step.leaves)[n]
      /\ JobNames(steps)[i] = NamesAfter(before.env.name, step.leaves)[n]
  BY <1>2, JobPathsAre, JobNamesAre
<1> HIDE DEF step, n
<1>5. /\ after \in JobProgresses
      /\ after.env.path = PathsAfter(before.env.path, step.leaves)[n]
      /\ after.env.name = NamesAfter(before.env.name, step.leaves)[n]
      /\ \E run \in Progresses, env \in Environments :
            /\ after.seen = Append(before.seen, run.seen)
            /\ env.path = before.env.path /\ env.name = before.env.name /\ env.guarded = Base.guarded
            /\ Follows(step, env, run, n)
  BY <1>1, <1>2, <1>3, CommitStepIs DEF n
<1>6. PICK run \in Progresses, env \in Environments :
         /\ after.seen = Append(before.seen, run.seen)
         /\ env.path = before.env.path /\ env.name = before.env.name /\ env.guarded = Base.guarded
         /\ Follows(step, env, run, n)
  BY <1>5
<1> HIDE DEF after
<1>7. before.seen \in Seq(Seq(Environments)) /\ run.seen \in Seq(Environments)
  BY <1>2 DEF JobProgresses, Progresses
<1>8. /\ Len(after.seen) = i - 1 + 1 /\ after.seen[i - 1 + 1] = run.seen
      /\ \A s \in 1 .. i - 1 : after.seen[s] = before.seen[s]
  BY <1>2, <1>6, <1>7, AppendProperties
<1>9. SeenFollows(steps, run.seen, i)
  <2>1. DOMAIN step.leaves = 1 .. n
    BY <1>1, StepLeaves DEF n
  <2>2. \A k \in 1 .. n :
          /\ run.seen[k].path = PathsAfter(env.path, AsSiblings(step.leaves))[k - 1]
          /\ run.seen[k].name =
                Changed(NamesAfter(Changed(env.name, step.declared), AsSiblings(step.leaves))[k - 1],
                        step.leaves[k].declared)
          /\ run.seen[k].guarded = env.guarded
    BY <1>6 DEF Follows
  <2>3. SeenFollows(steps, run.seen, i) <=>
          \A k \in DOMAIN step.leaves :
            /\ run.seen[k].path = PathsAfter(JobPaths(steps)[i - 1], AsSiblings(step.leaves))[k - 1]
            /\ run.seen[k].name =
                  Changed(NamesAfter(Changed(JobNames(steps)[i - 1], step.declared), AsSiblings(step.leaves))[k - 1],
                          step.leaves[k].declared)
            /\ run.seen[k].guarded = Base.guarded
    BY DEF SeenFollows, step
  <2> QED
    BY <1>2, <1>6, <2>1, <2>2, <2>3
<1>10. Len(after.seen) = i /\ \A s \in 1 .. i : SeenFollows(steps, after.seen[s], s)
  <2>1. Len(after.seen) = i /\ after.seen[i] = run.seen
    BY <1>1, <1>8
  <2>2. \A s \in 1 .. i : s # i => s \in 1 .. i - 1
    BY <1>1
  <2> QED
    BY <1>2, <1>8, <1>9, <2>1, <2>2
<1>11. JobFollows(steps, after, i)
  BY <1>4, <1>5, <1>10 DEF JobFollows
<1> QED
  BY <1>11 DEF after, step

JobStates == [seen : Seq(Seq(Environments)), env : {e \in Environments : e.path \in Paths}]

LEMMA CommitTyped ==
    ASSUME NEW steps \in Seq(JobSteps), NEW i \in 1 .. Len(steps), NEW before \in JobStates
    PROVE  CommitStep(before, steps[i]) \in JobStates
<1> DEFINE step == steps[i]
           after == CommitStep(before, step)
<1>1. step \in JobSteps /\ before \in JobProgresses /\ before.env.path \in Paths
  BY DEF JobProgresses, JobStates
<1>2. step.leaves \in Seq(Leaves) /\ Len(step.leaves) \in 0 .. Len(step.leaves)
  BY <1>1, StepLeaves
<1>3. PathsAfter(before.env.path, step.leaves)[Len(step.leaves)] \in Paths
  <2> HIDE DEF step
  <2> QED
    BY <1>1, <1>2, PathsAfterAre
<1>4. after \in JobProgresses /\ after.env.path = PathsAfter(before.env.path, step.leaves)[Len(step.leaves)]
  <2> HIDE DEF step
  <2> QED
    BY <1>1, CommitStepIs
<1> HIDE DEF after, step
<1>5. after \in JobStates
  BY <1>3, <1>4 DEF JobProgresses, JobStates
<1> QED
  BY <1>5 DEF after, step

LEMMA JobBeginningIs == JobBeginning \in JobStates
BY BaseIs DEF JobBeginning, JobStates

LEMMA RunJobIs ==
    ASSUME NEW steps \in Seq(JobSteps)
    PROVE  \E run :
              /\ run[0] = JobBeginning /\ RunJob(steps) = run[Len(steps)].seen
              /\ \A i \in 1 .. Len(steps) : run[i] = CommitStep(run[i - 1], steps[i])
              /\ \A i \in 0 .. Len(steps) : run[i] \in JobStates
<1> DEFINE n == Len(steps)
           Level(g, i) == IF i = 0 THEN JobBeginning ELSE CommitStep(g[i - 1], steps[i])
           Is(g) == g = [i \in 0 .. n |-> Level(g, i)]
           after == CHOOSE g : Is(g)
           h == [i \in 1 .. n |-> [x \in JobStates |-> CommitStep(x, steps[i])]]
<1>1. RunJob(steps) = after[n].seen
  BY DEF RunJob, JobBeginning
<1>2. n \in Nat /\ \A i \in 1 .. n : steps[i] \in JobSteps
  OBVIOUS
<1>3. \A x \in JobStates : \A i \in 1 .. n : CommitStep(x, steps[i]) \in JobStates
  BY <1>2, CommitTyped, JobBeginningIs
<1>4. PICK g : Iterates(g, JobStates, JobBeginning, n, h)
  <2>1. \A i \in 1 .. n : h[i] \in [JobStates -> JobStates]
    BY <1>3
  <2>2. JobBeginning \in JobStates
    BY CommitTyped, JobBeginningIs
  <2> HIDE DEF h, n
  <2> QED
    BY <1>2, <2>1, <2>2, Iterated
<1>5. g \in [0 .. n -> JobStates] /\ \A i \in 0 .. n : g[i] = Level(g, i)
  <2>1. g \in [0 .. n -> JobStates] /\ g[0] = JobBeginning /\ \A i \in 1 .. n : g[i] = h[i][g[i - 1]]
    <3> HIDE DEF h, n
    <3> QED
      BY <1>4 DEF Iterates
  <2>2. ASSUME NEW i \in 1 .. n
        PROVE  g[i] = CommitStep(g[i - 1], steps[i])
    <3>1. h[i] = [x \in JobStates |-> CommitStep(x, steps[i])]
      OBVIOUS
    <3> HIDE DEF h, n
    <3>2. g[i - 1] \in JobStates /\ g[i] = h[i][g[i - 1]]
      BY <1>2, <2>1
    <3> QED
      BY <3>1, <3>2
  <2> HIDE DEF n
  <2> QED
    BY <1>2, <2>1, <2>2
<1>6. Is(g)
  <2> HIDE DEF Level
  <2> QED
    BY <1>5
<1>7. Is(after)
  <2> HIDE DEF Is
  <2> QED
    BY <1>6
<1> HIDE DEF after, h
<1>8. \A i \in 0 .. n : after[i] = Level(after, i)
  BY ONLY <1>7
<1>9. after[0] = JobBeginning /\ \A i \in 1 .. n : after[i] = CommitStep(after[i - 1], steps[i])
  <2> HIDE DEF n
  <2> QED
    BY <1>2, <1>8
<1> DEFINE P == {i \in 0 .. n : after[i] \in JobStates}
<1>10. 0 \in P /\ \A i \in 1 .. n : i - 1 \in P => i \in P
  <2>1. JobBeginning \in JobStates
    BY CommitTyped, JobBeginningIs
  <2> HIDE DEF n
  <2> QED
    BY <1>2, <1>3, <1>9, <2>1
<1>11. \A i \in 0 .. n : after[i] \in JobStates
  <2>1. \A i \in 0 .. n : i \in P
    <3> HIDE DEF P
    <3> QED
      BY <1>2, <1>10, UpTo
  <2> QED
    BY <2>1
<1> QED
  BY <1>1, <1>9, <1>11


LEMMA JobsFollow ==
    ASSUME NEW steps \in Seq(JobSteps)
    PROVE  \A s \in 1 .. Len(steps) : SeenFollows(steps, RunJob(steps)[s], s)
<1> DEFINE n == Len(steps)
<1>1. n \in Nat
  OBVIOUS
<1>2. PICK run :
         /\ run[0] = JobBeginning /\ RunJob(steps) = run[n].seen
         /\ \A i \in 1 .. n : run[i] = CommitStep(run[i - 1], steps[i])
         /\ \A i \in 0 .. n : run[i] \in JobStates
  BY RunJobIs
<1>3. JobFollows(steps, JobBeginning, 0)
  <2>1. JobPaths(steps)[0] = Base.path /\ JobNames(steps)[0] = Base.name
    BY JobPathsAre, JobNamesAre
  <2>2. JobBeginning \in JobProgresses /\ JobBeginning.seen = <<>> /\ JobBeginning.env = Base
    BY BaseIs DEF JobBeginning, JobProgresses
  <2>3. Len(<<>>) = 0 /\ 1 .. 0 = {}
    OBVIOUS
  <2> QED
    BY <2>1, <2>2, <2>3 DEF JobFollows
<1> DEFINE P == {i \in 0 .. n : JobFollows(steps, run[i], i)}
<1>4. 0 \in P
  <2> HIDE DEF n
  <2> QED
    BY <1>1, <1>2, <1>3
<1>5. ASSUME NEW i \in 1 .. n, i - 1 \in P
      PROVE  i \in P
  <2>1. JobFollows(steps, CommitStep(run[i - 1], steps[i]), i)
    BY <1>5, CommitFollows
  <2> HIDE DEF n
  <2> QED
    BY <1>1, <1>2, <2>1
<1>6. n \in P
  <2> HIDE DEF P, n
  <2> QED
    BY <1>1, <1>4, <1>5, UpTo
<1>7. JobFollows(steps, run[n], n)
  BY <1>6
<1> QED
  BY <1>2, <1>7 DEF JobFollows

EffectsInv ==
    /\ script \in Seq(JobSteps)
    /\ seen # <<>> => seen = RunJob(script)

LEMMA EffectsInvariant == EffectsSpec => []EffectsInv
<1>1. EffectsInit => EffectsInv
  BY ScriptsAssumption DEF EffectsInit, EffectsInv
<1>2. EffectsInv /\ [EffectsNext]_effectVars => EffectsInv'
  BY DEF EffectsInv, EffectsNext, effectVars
<1> QED
  BY <1>1, <1>2, PTL DEF EffectsSpec

\* For every job and all that its steps write and declare (StepEffects): a
\* process starts with what those before it have done, in their order, though
\* a composite action hands on one result, with the last PATH that was set and
\* the directories added since, and its leaves what is seen of it meanwhile.
THEOREM EffectsFollowSteps == EffectsSpec => []EffectsFollow
<1>1. EffectsInv => EffectsFollow
  <2> SUFFICES ASSUME EffectsInv, seen # <<>>, NEW s \in DOMAIN script
               PROVE  SeenFollows(script, seen[s], s)
    BY DEF EffectsFollow, SeenFollows
  <2>1. script \in Seq(JobSteps) /\ seen = RunJob(script)
    BY DEF EffectsInv
  <2>2. s \in 1 .. Len(script)
    BY <2>1
  <2> QED
    BY <2>1, <2>2, JobsFollow
<1> QED
  BY <1>1, EffectsInvariant, PTL
===============================================================================
