------------------------ MODULE ResultTransportProofs ------------------------
(***************************************************************************)
(* Proofs about the needs of a job, for every number of steps and scopes,  *)
(* every receipt they can publish and every number of retries.             *)
(*                                                                         *)
(* The attempts change while the consumer reads them, but a job that has   *)
(* finished, or published, does not take it back (Kept).  What the         *)
(* consumer has drawn so far therefore stays what the attempts say         *)
(* (DrawnSound), and the need of a scope is what it has drawn (NeedSums).  *)
(***************************************************************************)
EXTENDS ResultTransport, FiniteSetTheorems, TLAPS

Attempt == [receipt : Manifests \cup {absent}, outcome : Endings \cup {absent}]

\* Only the latest attempt at a step can be running.
AttemptsInv ==
    /\ attempts \in [Needed -> Seq(Attempt)]
    /\ \A p \in Needed : attempts[p] # <<>>
    /\ \A p \in Needed : \A i \in 1..(Len(attempts[p]) - 1) : attempts[p][i].outcome # absent

Queries == {"waiting", "search", "download", "before", "history", "after", "done", "failed"}

\* What the variables of the consumer hold, as far as the argument needs it.
ConsumerTypes ==
    /\ projection \in {absent} \cup SUBSET Needed
    /\ query \in Queries
    /\ scope \in 1..(Len(Scopes) + 1)
    /\ query # "done" => scope \in ScopeIds
    /\ at \in Needed
    /\ evidence \in [ScopeIds -> [Needed -> Evidence \cup {absent}]]
    /\ needs = [s \in ScopeIds |-> needs[s]]

\* What the consumer has found out about the step it asks for.
FailedHard ==
    /\ before.attempt \in DOMAIN attempts[at]
    /\ attempts[at][before.attempt].outcome = "hard_failed"
Unpublished(p, n) == \A i \in 1..n : attempts[p][i].receipt = absent

Findings ==
    /\ query = "download" => job \in DOMAIN attempts[at]
    /\ query \in {"before", "history", "after"} => Scopes[scope] = "runtime"
    /\ query \in {"history", "after"} => FailedHard
    /\ query = "after" => Unpublished(at, before.attempt)

\* What was found of a step in a scope is what the attempt it was drawn from
\* says.
Justified(s, p, found) ==
    /\ found \in Evidence
    /\ found.attempt \in DOMAIN attempts[p]
    /\ found.recovered =>
          /\ Scopes[s] = "runtime"
          /\ found.receipt = absent
          /\ attempts[p][found.attempt].outcome = "hard_failed"
          /\ Unpublished(p, found.attempt)
    /\ ~found.recovered =>
          /\ found.receipt \in Manifests
          /\ attempts[p][found.attempt].receipt = found.receipt

Drawn(s, p) == s < scope \/ (s = scope /\ p < at)

DrawnSound ==
    \A s \in ScopeIds, p \in Needed :
        IF Drawn(s, p) THEN Justified(s, p, evidence[s][p]) ELSE evidence[s][p] = absent

\* What one piece of evidence adds to a need.
ToldBy(found)   == IF found.recovered THEN "failure" ELSE found.receipt.result
OutputOf(found) == IF found.recovered THEN absent ELSE found.receipt.output
ValueOf(found)  == IF found.receipt.output = absent THEN empty ELSE found.receipt.output

\* The result is the worst of those of the steps of P.
Worst(result, found, P) ==
    /\ result \in Results
    /\ result = "failure" <=> \E p \in P : ToldBy(found[p]) = "failure"
    /\ result = "cancelled" <=> /\ \E p \in P : ToldBy(found[p]) = "cancelled"
                                /\ \A p \in P : ToldBy(found[p]) # "failure"
    /\ result = "skipped" <=> \A p \in P : ToldBy(found[p]) = "skipped"

\* Without a projection, the output is the one all steps of P agree on.
Agreed(output, found, P) ==
    /\ \A p \in P : OutputOf(found[p]) # absent => output = OutputOf(found[p])
    /\ output # absent => \E p \in P : OutputOf(found[p]) # absent

\* With one, that of the selected steps that have a receipt.
Projected(output, found) ==
    /\ \A p \in projection : ~found[p].recovered => output = ValueOf(found[p])
    /\ (\A p \in projection : found[p].recovered) => output = absent

NeedSums ==
    /\ query # "done" =>
          /\ Worst(need.result, evidence[scope], 1..(at - 1))
          /\ projection = absent => Agreed(need.output, evidence[scope], 1..(at - 1))
          /\ projection # absent => need.output = absent
    /\ \A s \in ScopeIds :
          IF s < scope
          THEN /\ Worst(needs[s].result, evidence[s], Needed)
               /\ projection = absent => Agreed(needs[s].output, evidence[s], Needed)
               /\ projection # absent => Projected(needs[s].output, evidence[s])
          ELSE needs[s] = absent

TransportInv ==
    AttemptsInv /\ ConsumerTypes /\ Findings /\ DrawnSound /\ NeedSums

-----------------------------------------------------------------------------
\* A job that has finished or published does not take it back.
Kept ==
    \A p \in Needed : \A i \in DOMAIN attempts[p] :
        /\ i \in DOMAIN attempts'[p]
        /\ attempts[p][i].outcome # absent => attempts'[p][i] = attempts[p][i]
        /\ attempts[p][i].receipt # absent => attempts'[p][i].receipt = attempts[p][i].receipt

LEMMA EndingsAre == Endings = {"passed", "soft_failed", "hard_failed", "errored"}
  BY DEF Endings, Job!Statuses, OutcomesOf

\* A step of a producer keeps what its attempts have said.
LEMMA ProducerStep ==
    ASSUME AttemptsInv, NEW p \in Needed, PublishReceipt(p) \/ Finish(p) \/ Retry(p)
    PROVE  AttemptsInv' /\ Kept
<1> DEFINE n == Len(attempts[p])
<1>1. /\ attempts[p] \in Seq(Attempt) /\ n \in Nat \ {0} /\ DOMAIN attempts[p] = 1..n
      /\ attempts[p][n] \in Attempt /\ Current(p) = attempts[p][n]
  BY DEF AttemptsInv, Current, Last
<1>2. ASSUME NEW a \in Attempt, Running(p),
             attempts' = [attempts EXCEPT ![p][n] = a],
             Current(p).receipt # absent => a.receipt = Current(p).receipt
      PROVE  AttemptsInv' /\ Kept
  <2>1. attempts' = [attempts EXCEPT ![p] = [attempts[p] EXCEPT ![n] = a]]
    BY <1>2, <1>1 DEF AttemptsInv
  <2> DEFINE t == [attempts[p] EXCEPT ![n] = a]
  <2>2. t \in Seq(Attempt) /\ Len(t) = n /\ DOMAIN t = 1..n /\ t[n] = a
        /\ \A i \in 1..n : i # n => t[i] = attempts[p][i]
    BY <1>1, <1>2
  <2>3. /\ attempts' \in [Needed -> Seq(Attempt)]
        /\ attempts'[p] = t
        /\ \A q \in Needed : q # p => attempts'[q] = attempts[q]
    BY <2>1, <2>2 DEF AttemptsInv
  <2> HIDE DEF t, n
  <2>4. \A q \in Needed : attempts'[q] # <<>>
    BY <2>2, <2>3, <1>1 DEF AttemptsInv
  <2>5. \A q \in Needed : \A i \in 1..(Len(attempts'[q]) - 1) : attempts'[q][i].outcome # absent
    <3> SUFFICES ASSUME NEW q \in Needed, NEW i \in 1..(Len(attempts'[q]) - 1)
                 PROVE  attempts'[q][i].outcome # absent
      OBVIOUS
    <3>1. CASE q = p
      <4>1. attempts'[q] = t /\ Len(attempts'[q]) = n /\ i \in 1..(n - 1)
        BY <3>1, <2>2, <2>3
      <4>2. i \in 1..n /\ i # n
        BY <4>1, <1>1
      <4>3. attempts'[q][i] = attempts[p][i]
        BY <4>1, <4>2, <2>2
      <4> QED  BY <4>1, <4>3 DEF AttemptsInv, n
    <3>2. CASE q # p
      BY <3>2, <2>3 DEF AttemptsInv
    <3> QED  BY <3>1, <3>2
  <2>6. Kept
    BY <2>2, <2>3, <1>1, <1>2 DEF Kept, Running
  <2> QED  BY <2>3, <2>4, <2>5, <2>6 DEF AttemptsInv
<1>3. CASE PublishReceipt(p)
  <2>1. PICK m \in Manifests : attempts' = [attempts EXCEPT ![p][n].receipt = m]
    BY <1>3 DEF PublishReceipt
  <2> DEFINE a == [attempts[p][n] EXCEPT !.receipt = m]
  <2>2. a \in Attempt /\ attempts' = [attempts EXCEPT ![p][n] = a]
    BY <2>1, <1>1 DEF Attempt
  <2>3. Running(p) /\ Current(p).receipt = absent
    BY <1>3 DEF PublishReceipt
  <2> HIDE DEF a
  <2> QED  BY <1>2, <2>2, <2>3
<1>4. CASE Finish(p)
  <2>1. PICK o \in Endings : attempts' = [attempts EXCEPT ![p][n].outcome = o]
    <3> DEFINE receipt == Current(p).receipt
               result  == IF receipt = absent THEN absent ELSE receipt.result
    <3>1. PICK s \in Job!StatusesWith(result) : \E o \in OutcomesOf(s) :
             attempts' = [attempts EXCEPT ![p][n].outcome = o]
      BY <1>4 DEF Finish
    <3>2. result \in Results \cup {absent}
      BY <1>1, ManifestsAssumption DEF Attempt
    <3> HIDE DEF result
    <3>3. Job!StatusesWith(result) \subseteq Job!Statuses
      BY <3>2 DEF Results, Job!StatusesWith, Job!Statuses
    <3>4. s \in Job!Statuses
      BY <3>1, <3>3
    <3> QED  BY <3>1, <3>4 DEF Endings
  <2> DEFINE a == [attempts[p][n] EXCEPT !.outcome = o]
  <2>2. a \in Attempt /\ attempts' = [attempts EXCEPT ![p][n] = a] /\ a.receipt = attempts[p][n].receipt
    BY <2>1, <1>1 DEF Attempt
  <2>3. Running(p)
    BY <1>4 DEF Finish
  <2> HIDE DEF a
  <2> QED  BY <1>1, <1>2, <2>2, <2>3
<1>5. CASE Retry(p)
  <2> DEFINE t == Append(attempts[p], Started)
  <2>1. Started \in Attempt
    BY DEF Started, Attempt
  <2>2. t \in Seq(Attempt) /\ Len(t) = n + 1 /\ DOMAIN t = 1..(n + 1)
        /\ \A i \in 1..n : t[i] = attempts[p][i]
    BY <1>1, <2>1
  <2>3. attempts' = [attempts EXCEPT ![p] = t] /\ attempts[p][n].outcome # absent
    BY <1>5, <1>1 DEF Retry, Running
  <2> HIDE DEF t
  <2>4. /\ attempts' \in [Needed -> Seq(Attempt)]
        /\ attempts'[p] = t
        /\ \A q \in Needed : q # p => attempts'[q] = attempts[q]
    BY <2>2, <2>3 DEF AttemptsInv
  <2> HIDE DEF n
  <2>5. \A q \in Needed : attempts'[q] # <<>>
    BY <2>2, <2>4, <1>1 DEF AttemptsInv
  <2>6. \A q \in Needed : \A i \in 1..(Len(attempts'[q]) - 1) : attempts'[q][i].outcome # absent
    <3> SUFFICES ASSUME NEW q \in Needed, NEW i \in 1..(Len(attempts'[q]) - 1)
                 PROVE  attempts'[q][i].outcome # absent
      OBVIOUS
    <3>1. CASE q = p
      <4>1. i \in 1..n /\ attempts'[q][i] = attempts[p][i]
        BY <3>1, <2>2, <2>4, <1>1
      <4>2. CASE i = n
        BY <4>1, <4>2, <2>3
      <4>3. CASE i # n
        <5>1. i \in 1..(n - 1)
          BY <4>1, <4>3, <1>1
        <5> QED  BY <4>1, <5>1 DEF AttemptsInv, n
      <4> QED  BY <4>2, <4>3
    <3>2. CASE q # p
      BY <3>2, <2>4 DEF AttemptsInv
    <3> QED  BY <3>1, <3>2
  <2>7. Kept
    BY <2>2, <2>4, <1>1 DEF Kept
  <2> QED  BY <2>4, <2>5, <2>6, <2>7 DEF AttemptsInv
<1> QED  BY <1>3, <1>4, <1>5

\* What was known of an attempt that failed hard, or that published, stays.
LEMMA KeptJustified ==
    ASSUME AttemptsInv, Kept, NEW s, NEW p \in Needed, NEW found, Justified(s, p, found)
    PROVE  Justified(s, p, found)'
<1>0. /\ attempts[p] \in Seq(Attempt) /\ DOMAIN attempts[p] = 1..Len(attempts[p])
      /\ Len(attempts[p]) \in Nat
      /\ found.attempt \in 1..Len(attempts[p]) /\ found.recovered \in BOOLEAN
  BY DEF AttemptsInv, Justified, Evidence
<1>1. CASE found.recovered
  <2>1. attempts[p][found.attempt].outcome = "hard_failed" /\ Unpublished(p, found.attempt)
    BY <1>1 DEF Justified
  <2>2. \A i \in 1..found.attempt : attempts[p][i].outcome # absent
    <3> TAKE i \in 1..found.attempt
    <3>1. CASE i = found.attempt
      BY <3>1, <2>1, AbsentAssumption, EndingsAre
    <3>2. CASE i # found.attempt
      BY <3>2, <1>0 DEF AttemptsInv
    <3> QED  BY <3>1, <3>2
  <2>3. \A i \in 1..found.attempt : i \in DOMAIN attempts[p] /\ attempts'[p][i] = attempts[p][i]
    BY <2>2, <1>0 DEF Kept
  <2> QED  BY <1>0, <1>1, <2>1, <2>3 DEF Justified, Unpublished, Kept
<1>2. CASE ~found.recovered
  BY <1>0, <1>2, AbsentAssumption DEF Justified, Kept
<1> QED  BY <1>0, <1>1, <1>2

\* Whatever the producers do, the consumer has not been misled.
LEMMA ConsumerKept ==
    ASSUME TransportInv, AttemptsInv', Kept, UNCHANGED <<projection, consumerVars>>
    PROVE  TransportInv'
<1> USE DEF TransportInv, consumerVars
<1>1. ConsumerTypes'
  BY DEF ConsumerTypes
<1>2. Findings'
  <2>1. at \in Needed /\ attempts[at] \in Seq(Attempt) /\ Len(attempts[at]) \in Nat
        /\ DOMAIN attempts[at] = 1..Len(attempts[at])
    BY DEF ConsumerTypes, AttemptsInv
  <2>2. (query = "download" => job \in DOMAIN attempts[at])'
    BY <2>1 DEF Findings, Kept
  <2>3. (query \in {"before", "history", "after"} => Scopes[scope] = "runtime")'
    BY DEF Findings
  <2>4. (query \in {"history", "after"} => FailedHard)'
    BY <2>1, AbsentAssumption, EndingsAre DEF Findings, FailedHard, Kept
  <2>5. (query = "after" => Unpublished(at, before.attempt))'
    <3> SUFFICES ASSUME query = "after", NEW i \in 1..before.attempt
                 PROVE  attempts'[at][i].receipt = absent
      BY DEF Unpublished
    <3>1. FailedHard /\ Unpublished(at, before.attempt)
      BY DEF Findings
    <3>2. i \in 1..Len(attempts[at]) /\ attempts[at][i].outcome # absent
      <4>1. CASE i = before.attempt
        BY <4>1, <3>1, <2>1, AbsentAssumption, EndingsAre DEF FailedHard
      <4>2. CASE i # before.attempt
        BY <4>2, <3>1, <2>1 DEF AttemptsInv, FailedHard
      <4> QED  BY <4>1, <4>2
    <3> QED  BY <3>1, <3>2, <2>1 DEF Kept, Unpublished
  <2> QED  BY <2>2, <2>3, <2>4, <2>5 DEF Findings
<1>3. DrawnSound'
  <2> SUFFICES ASSUME NEW s \in ScopeIds, NEW p \in Needed
               PROVE  (IF Drawn(s, p) THEN Justified(s, p, evidence[s][p]) ELSE evidence[s][p] = absent)'
    BY DEF DrawnSound
  <2>1. Drawn(s, p)' = Drawn(s, p) /\ (evidence[s][p])' = evidence[s][p]
    BY DEF Drawn
  <2>2. CASE Drawn(s, p)
    <3>1. Justified(s, p, evidence[s][p])
      BY <2>2 DEF DrawnSound
    <3> DEFINE found == evidence[s][p]
    <3>2. found' = found
      OBVIOUS
    <3>3. Justified(s, p, found)
      BY <3>1
    <3> QED  BY <2>1, <2>2, <3>2, <3>3, KeptJustified DEF Justified, Unpublished
  <2>3. CASE ~Drawn(s, p)
    BY <2>1, <2>3 DEF DrawnSound
  <2> QED  BY <2>2, <2>3
<1>4. NeedSums'
  BY DEF NeedSums, Worst, Agreed, Projected
<1> QED  BY <1>1, <1>2, <1>3, <1>4

-----------------------------------------------------------------------------
\* The worse of two results.
LEMMA Aggregates ==
    ASSUME NEW a \in Results, NEW b \in Results
    PROVE  /\ aggregateResult(a, b) \in {a, b}
           /\ aggregateResult(a, b) = "failure" <=> a = "failure" \/ b = "failure"
           /\ aggregateResult(a, b) = "cancelled" <=>
                 /\ a = "cancelled" \/ b = "cancelled"
                 /\ a # "failure" /\ b # "failure"
           /\ aggregateResult(a, b) = "skipped" <=> a = "skipped" /\ b = "skipped"
<1>1. CASE a = "skipped"
  BY <1>1 DEF Results, aggregateResult
<1>2. CASE a = "success"
  BY <1>2 DEF Results, aggregateResult
<1>3. CASE a = "cancelled"
  BY <1>3 DEF Results, aggregateResult
<1>4. CASE a = "failure"
  BY <1>4 DEF Results, aggregateResult
<1> QED  BY <1>1, <1>2, <1>3, <1>4 DEF Results

LEMMA WorstGrows ==
    ASSUME NEW f, NEW g, NEW n \in Nat \ {0}, NEW r,
           Worst(r, f, 1..(n - 1)),
           ToldBy(g[n]) \in Results,
           \A p \in 1..(n - 1) : g[p] = f[p]
    PROVE  Worst(aggregateResult(r, ToldBy(g[n])), g, 1..n)
<1> DEFINE b == ToldBy(g[n])
           c == aggregateResult(r, b)
<1>1. r \in Results
  BY DEF Worst
<1>2. /\ c \in Results
      /\ c = "failure" <=> r = "failure" \/ b = "failure"
      /\ c = "cancelled" <=> (r = "cancelled" \/ b = "cancelled") /\ r # "failure" /\ b # "failure"
      /\ c = "skipped" <=> r = "skipped" /\ b = "skipped"
  BY <1>1, Aggregates
<1>3. 1..n = (1..(n - 1)) \cup {n}
  OBVIOUS
<1>4. \A p \in 1..(n - 1) : ToldBy(g[p]) = ToldBy(f[p])
  OBVIOUS
<1> HIDE DEF c
<1>5. c = "failure" <=> \E p \in 1..n : ToldBy(g[p]) = "failure"
  BY <1>2, <1>3, <1>4 DEF Worst
<1>6. c = "cancelled" <=> /\ \E p \in 1..n : ToldBy(g[p]) = "cancelled"
                          /\ \A p \in 1..n : ToldBy(g[p]) # "failure"
  BY <1>2, <1>3, <1>4 DEF Worst
<1>7. c = "skipped" <=> \A p \in 1..n : ToldBy(g[p]) = "skipped"
  BY <1>2, <1>3, <1>4 DEF Worst
<1> QED  BY <1>2, <1>5, <1>6, <1>7 DEF Worst, c

LEMMA AgreedGrows ==
    ASSUME NEW f, NEW g, NEW n \in Nat \ {0},
           Agreed(need.output, f, 1..(n - 1)),
           ~Conflict(OutputOf(g[n])),
           \A p \in 1..(n - 1) : g[p] = f[p]
    PROVE  Agreed(Merged(OutputOf(g[n])), g, 1..n)
<1>1. 1..n = (1..(n - 1)) \cup {n}
  OBVIOUS
<1>2. \A p \in 1..(n - 1) : OutputOf(g[p]) = OutputOf(f[p])
  OBVIOUS
<1> QED  BY <1>1, <1>2 DEF Agreed, Conflict, Merged

\* If the selected steps have one value at most, any of them is the value.
LEMMA SelectedAgree ==
    ASSUME NEW found, projection \in SUBSET Needed, Cardinality(Selected(found)) <= 1,
           NEW v \in Selected(found), NEW w \in Selected(found)
    PROVE  v = w
<1> DEFINE P == {q \in projection : ~found[q].recovered}
           h == [p \in P |-> ValueOf(found[p])]
           S == Selected(found)
<1>1. S = {h[p] : p \in P}
  BY DEF Selected, ValueOf
<1>2. h \in Surjection(P, S)
  BY <1>1 DEF Surjection
<1>3. IsFiniteSet(Needed) /\ P \in SUBSET Needed
  <2>1. 1 \in Int /\ NProducers \in Int
    BY ProducersAssumption
  <2> QED  BY <2>1, FS_Interval DEF Needed
<1>4. IsFiniteSet(P)
  BY <1>3, FS_Subset
<1> HIDE DEF P, h
<1>5. IsFiniteSet(S)
  BY <1>2, <1>4, FS_Surjection
<1>6. SUFFICES ASSUME v # w PROVE FALSE
  OBVIOUS
<1>7. IsFiniteSet({v, w}) /\ Cardinality({v, w}) = 2
  <2>1. IsFiniteSet({v}) /\ Cardinality({v}) = 1
    BY FS_Singleton
  <2>2. {v, w} = {v} \cup {w} /\ w \notin {v}
    BY <1>6
  <2> QED  BY <2>1, <2>2, FS_AddElement
<1>8. {v, w} \in SUBSET S /\ Cardinality(S) \in Nat
  BY <1>5, FS_CardinalityType
<1>9. Cardinality({v, w}) <= Cardinality(S)
  BY <1>5, <1>8, FS_Subset
<1> QED  BY <1>7, <1>8, <1>9

\* One more step is resolved, of which something justified was found.
LEMMA TakeStep ==
    ASSUME TransportInv, query \in {"download", "after"},
           NEW found, Justified(scope, at, found),
           Take(ToldBy(found), found),
           UNCHANGED <<attempts, projection>>
    PROVE  TransportInv'
<1> DEFINE all == [evidence[scope] EXCEPT ![at] = found]
           output == IF found.recovered \/ projection # absent THEN absent ELSE found.receipt.output
           merged == [result |-> aggregateResult(need.result, ToldBy(found)), output |-> Merged(output)]
           values == Selected(all)
<1>0. /\ scope \in ScopeIds /\ Len(Scopes) \in Nat /\ scope \in Nat /\ at \in Needed /\ at \in Nat \ {0}
      /\ NProducers \in Nat \ {0}
      /\ found \in Evidence
      /\ query # "done"
  BY ScopesAssumption, ProducersAssumption DEF TransportInv, ConsumerTypes, ScopeIds, Needed, Justified
<1>1. AttemptsInv'
  BY DEF TransportInv, AttemptsInv
<1>2. all \in [Needed -> Evidence \cup {absent}] /\ all[at] = found
      /\ \A p \in Needed : p # at => all[p] = evidence[scope][p]
  BY <1>0 DEF TransportInv, ConsumerTypes
<1>3. \A s \in ScopeIds, p \in Needed : \A e : Justified(s, p, e) => Justified(s, p, e)'
  BY DEF Justified, Unpublished
<1>4. CASE FailQuery
  <2>1. query' = "failed" /\ UNCHANGED <<scope, at, need, evidence, needs>>
    BY <1>4 DEF FailQuery
  <2>2. ConsumerTypes'
    BY <2>1, <1>0 DEF TransportInv, ConsumerTypes, Queries
  <2>3. Findings'
    BY <2>1 DEF Findings
  <2>4. DrawnSound'
    BY <2>1 DEF TransportInv, DrawnSound, Drawn, Justified, Unpublished
  <2>5. NeedSums'
    BY <2>1, <1>0 DEF TransportInv, NeedSums, Worst, Agreed, Projected
  <2> QED  BY <1>1, <2>2, <2>3, <2>4, <2>5 DEF TransportInv
<1>5. ASSUME ~Conflict(output),
             evidence' = [evidence EXCEPT ![scope] = all]
      PROVE  /\ evidence' \in [ScopeIds -> [Needed -> Evidence \cup {absent}]]
             /\ evidence'[scope] = all
             /\ \A s \in ScopeIds : s # scope => evidence'[s] = evidence[s]
             /\ Worst(merged.result, all, 1..at)
             /\ projection = absent => Agreed(merged.output, all, 1..at)
             /\ projection # absent => merged.output = absent
             /\ \A s \in ScopeIds, p \in Needed :
                   IF Drawn(s, p) \/ (s = scope /\ p = at)
                   THEN Justified(s, p, evidence'[s][p]) ELSE evidence'[s][p] = absent
  <2>1. /\ evidence' \in [ScopeIds -> [Needed -> Evidence \cup {absent}]]
        /\ evidence'[scope] = all
        /\ \A s \in ScopeIds : s # scope => evidence'[s] = evidence[s]
    <3> HIDE DEF all
    <3> QED  BY <1>0, <1>2, <1>5 DEF TransportInv, ConsumerTypes
  <2>2. ToldBy(all[at]) \in Results /\ \A p \in 1..(at - 1) : all[p] = evidence[scope][p]
    BY <1>0, <1>2, ManifestsAssumption DEF ToldBy, Justified, Results, Needed
  <2> HIDE DEF all
  <2>3. Worst(merged.result, all, 1..at)
    <3>1. Worst(need.result, evidence[scope], 1..(at - 1))
      BY <1>0 DEF TransportInv, NeedSums
    <3>2. Worst(aggregateResult(need.result, ToldBy(all[at])), all, 1..at)
      BY <1>0, <2>2, <3>1, WorstGrows
    <3> QED  BY <3>2, <1>2
  <2>4. projection = absent => Agreed(merged.output, all, 1..at)
    <3> SUFFICES ASSUME projection = absent PROVE Agreed(merged.output, all, 1..at)
      OBVIOUS
    <3>1. output = OutputOf(all[at])
      BY <1>2 DEF OutputOf
    <3>2. Agreed(need.output, evidence[scope], 1..(at - 1))
      BY <1>0 DEF TransportInv, NeedSums
    <3> HIDE DEF output
    <3>3. Agreed(Merged(OutputOf(all[at])), all, 1..at)
      BY <1>0, <1>5, <2>2, <3>1, <3>2, AgreedGrows
    <3> QED  BY <3>1, <3>3
  <2>5. projection # absent => merged.output = absent
    BY <1>0 DEF TransportInv, NeedSums, Merged
  <2>6. \A s \in ScopeIds, p \in Needed :
                   IF Drawn(s, p) \/ (s = scope /\ p = at)
                   THEN Justified(s, p, evidence'[s][p]) ELSE evidence'[s][p] = absent
    <3> TAKE s \in ScopeIds, p \in Needed
    <3>1. CASE s = scope /\ p = at
      BY <3>1, <2>1, <1>2
    <3>2. CASE ~(s = scope /\ p = at)
      <4>1. evidence'[s][p] = evidence[s][p]
        BY <3>2, <2>1, <1>2
      <4> QED  BY <3>2, <4>1 DEF TransportInv, DrawnSound
    <3> QED  BY <3>1, <3>2
  <2> QED  BY <2>1, <2>3, <2>4, <2>5, <2>6
<1>6. CASE /\ ~Conflict(output) /\ at < NProducers
           /\ evidence' = [evidence EXCEPT ![scope] = all]
           /\ need' = merged
           /\ at' = at + 1 /\ query' = "search"
           /\ UNCHANGED <<scope, needs>>
  <2> HIDE DEF all, output, merged
  <2>1. ConsumerTypes'
    BY <1>0, <1>5, <1>6 DEF TransportInv, ConsumerTypes, Queries, Needed
  <2>2. Findings'
    BY <1>6 DEF Findings
  <2>3. DrawnSound'
    <3>1. \A s \in ScopeIds, p \in Needed : Drawn(s, p)' <=> Drawn(s, p) \/ (s = scope /\ p = at)
      BY <1>0, <1>6 DEF Drawn, Needed
    <3> QED  BY <1>3, <1>5, <1>6, <3>1 DEF DrawnSound, Justified, Unpublished
  <2>4. NeedSums'
    <3>1. at' - 1 = at
      BY <1>0, <1>6
    <3>2. /\ Worst(need.result, evidence[scope], 1..(at - 1))'
          /\ (projection = absent => Agreed(need.output, evidence[scope], 1..(at - 1)))'
          /\ (projection # absent => need.output = absent)'
      BY <1>5, <1>6, <3>1 DEF Worst, Agreed
    <3>3. \A s \in ScopeIds : s < scope => evidence'[s] = evidence[s]
      BY <1>0, <1>5, <1>6 DEF ScopeIds
    <3> QED  BY <1>6, <3>2, <3>3 DEF TransportInv, NeedSums, Worst, Agreed, Projected
  <2> QED  BY <1>1, <2>1, <2>2, <2>3, <2>4 DEF TransportInv
<1>7. CASE /\ ~Conflict(output) /\ at = NProducers
           /\ projection # absent => Cardinality(values) <= 1
           /\ evidence' = [evidence EXCEPT ![scope] = all]
           /\ needs' = [needs EXCEPT ![scope] =
                 IF projection = absent \/ values = {} THEN merged
                 ELSE [merged EXCEPT !.output = CHOOSE v \in values : TRUE]]
           /\ need' = Skipped /\ at' = 1
           /\ NextScope
  <2>1. scope' = scope + 1 /\ query' = IF scope = Len(Scopes) THEN "done" ELSE "search"
    BY <1>7 DEF NextScope
  <2> DEFINE given == IF projection = absent \/ values = {} THEN merged
                      ELSE [merged EXCEPT !.output = CHOOSE v \in values : TRUE]
  <2>2. /\ needs' = [s \in ScopeIds |-> needs'[s]]
        /\ needs'[scope] = given
        /\ \A s \in ScopeIds : s # scope => needs'[s] = needs[s]
    <3> HIDE DEF given
    <3>1. needs' = [needs EXCEPT ![scope] = given] /\ needs = [s \in ScopeIds |-> needs[s]]
      BY <1>7 DEF given, TransportInv, ConsumerTypes
    <3> QED  BY <1>0, <3>1
  <2>3. given.result = merged.result
    OBVIOUS
  <2>4. projection = absent => given.output = merged.output
    OBVIOUS
  <2>5. projection # absent => Projected(given.output, all)
    <3> SUFFICES ASSUME projection # absent PROVE Projected(given.output, all)
      OBVIOUS
    <3>1. projection \in SUBSET Needed /\ Cardinality(values) <= 1 /\ merged.output = absent
      BY <1>5, <1>7 DEF TransportInv, ConsumerTypes
    <3>2. values = {ValueOf(all[p]) : p \in {q \in projection : ~all[q].recovered}}
      BY DEF Selected, ValueOf
    <3>3. \A v, w \in values : v = w
      <4> HIDE DEF all
      <4> QED  BY <3>1, SelectedAgree
    <3>4. CASE values = {}
      <4>1. given.output = absent
        BY <3>1, <3>4
      <4> HIDE DEF given, all
      <4> QED  BY <3>2, <3>4, <4>1 DEF Projected
    <3>5. CASE values # {}
      <4>1. given.output = CHOOSE v \in values : TRUE
        BY <3>5
      <4>2. given.output \in values
        <5> HIDE DEF values, given
        <5> QED  BY <4>1, <3>5
      <4> HIDE DEF given, all, values
      <4> QED  BY <3>2, <3>3, <4>2, <3>5 DEF Projected
    <3> QED  BY <3>4, <3>5
  <2> HIDE DEF all, output, merged, given, values
  <2>6. ConsumerTypes'
    BY <1>0, <1>5, <1>7, <2>1, <2>2 DEF TransportInv, ConsumerTypes, Queries, Needed, ScopeIds
  <2>7. Findings'
    BY <2>1 DEF Findings
  <2>8. DrawnSound'
    <3>1. \A s \in ScopeIds, p \in Needed : Drawn(s, p)' <=> Drawn(s, p) \/ (s = scope /\ p = at)
      BY <1>0, <1>7, <2>1 DEF Drawn, Needed, ScopeIds
    <3> QED  BY <1>3, <1>5, <1>7, <3>1 DEF DrawnSound, Justified, Unpublished
  <2>9. NeedSums'
    <3>1. need' = [result |-> "skipped", output |-> absent] /\ 1..(at' - 1) = {}
      BY <1>7 DEF Skipped
    <3>2. /\ Worst(need.result, evidence[scope], 1..(at - 1))'
          /\ (projection = absent => Agreed(need.output, evidence[scope], 1..(at - 1)))'
          /\ (projection # absent => need.output = absent)'
      BY <3>1 DEF Worst, Agreed, Results
    <3>3. \A s \in ScopeIds : s < scope' <=> s < scope \/ s = scope
      BY <1>0, <2>1 DEF ScopeIds
    <3>4. 1..at = Needed
      BY <1>7 DEF Needed
    <3>5. ASSUME NEW s \in ScopeIds
          PROVE (IF s < scope
                 THEN /\ Worst(needs[s].result, evidence[s], Needed)
                      /\ projection = absent => Agreed(needs[s].output, evidence[s], Needed)
                      /\ projection # absent => Projected(needs[s].output, evidence[s])
                 ELSE needs[s] = absent)'
      <4>1. CASE s = scope
        <5>1. needs'[s] = given /\ evidence'[s] = all /\ s < scope'
          BY <4>1, <2>2, <1>5, <1>7, <3>3
        <5>2. /\ Worst(given.result, all, Needed)
              /\ projection = absent => Agreed(given.output, all, Needed)
              /\ projection # absent => Projected(given.output, all)
          BY <1>5, <1>7, <2>3, <2>4, <2>5, <3>4
        <5> QED  BY <5>1, <5>2 DEF Worst, Agreed, Projected
      <4>2. CASE s < scope /\ s # scope
        <5>1. needs'[s] = needs[s] /\ evidence'[s] = evidence[s] /\ s < scope'
          BY <4>2, <2>2, <1>5, <1>7, <3>3
        <5> QED  BY <4>2, <5>1 DEF TransportInv, NeedSums, Worst, Agreed, Projected
      <4>3. CASE ~(s < scope) /\ s # scope
        <5>1. needs'[s] = needs[s] /\ ~(s < scope')
          BY <4>3, <2>2, <3>3
        <5> QED  BY <4>3, <5>1 DEF TransportInv, NeedSums
      <4> QED  BY <4>1, <4>2, <4>3
    <3> QED  BY <3>2, <3>5 DEF NeedSums
  <2> QED  BY <1>1, <2>6, <2>7, <2>8, <2>9 DEF TransportInv
<1> QED  BY <1>4, <1>6, <1>7 DEF Take

-----------------------------------------------------------------------------
\* A query that resolves nothing.
LEMMA LookStep ==
    ASSUME TransportInv, UNCHANGED <<attempts, projection, scope, at, need, evidence, needs>>,
           query' \in Queries \ {"done"}, query # "done", Findings'
    PROVE  TransportInv'
<1>1. AttemptsInv' /\ ConsumerTypes'
  BY DEF TransportInv, AttemptsInv, ConsumerTypes
<1>2. DrawnSound'
  BY DEF TransportInv, DrawnSound, Drawn, Justified, Unpublished
<1>3. NeedSums'
  BY DEF TransportInv, NeedSums, Worst, Agreed, Projected
<1> QED  BY <1>1, <1>2, <1>3 DEF TransportInv

LEMMA TransportInit == QueryInit => TransportInv
<1> SUFFICES ASSUME QueryInit PROVE TransportInv
  OBVIOUS
<1> USE DEF QueryInit
<1>0. Len(Scopes) \in Nat \ {0} /\ NProducers \in Nat \ {0}
  BY ScopesAssumption, ProducersAssumption
<1>1. AttemptsInv
  <2>1. <<Started>> \in Seq(Attempt) /\ Len(<<Started>>) = 1
    BY DEF Started, Attempt
  <2> QED  BY <2>1 DEF AttemptsInv
<1>2. ConsumerTypes
  BY <1>0 DEF ConsumerTypes, Queries, ScopeIds, Needed
<1>3. Findings
  BY DEF Findings
<1>4. DrawnSound
  BY <1>0 DEF DrawnSound, Drawn, ScopeIds, Needed
<1>5. NeedSums
  BY <1>0 DEF NeedSums, Worst, Agreed, Skipped, Results, ScopeIds
<1> QED  BY <1>1, <1>2, <1>3, <1>4, <1>5 DEF TransportInv

LEMMA TransportNext == TransportInv /\ [QueryNext]_queryVars => TransportInv'
<1> SUFFICES ASSUME TransportInv, [QueryNext]_queryVars PROVE TransportInv'
  OBVIOUS
<1>0. /\ at \in Needed /\ attempts[at] \in Seq(Attempt) /\ Len(attempts[at]) \in Nat \ {0}
      /\ DOMAIN attempts[at] = 1..Len(attempts[at])
      /\ Current(at) = attempts[at][Len(attempts[at])]
      /\ \A i \in DOMAIN attempts[at] : attempts[at][i].receipt \in Manifests \cup {absent}
  <2>1. at \in Needed /\ attempts[at] \in Seq(Attempt) /\ attempts[at] # <<>>
    BY DEF TransportInv, AttemptsInv, ConsumerTypes
  <2>2. Len(attempts[at]) \in Nat \ {0} /\ DOMAIN attempts[at] = 1..Len(attempts[at])
    BY <2>1
  <2>3. \A i \in DOMAIN attempts[at] : attempts[at][i] \in Attempt
    BY <2>1, <2>2
  <2> QED  BY <2>1, <2>2, <2>3 DEF Current, Last, Attempt
<1>1. ASSUME NEW p \in Needed, PublishReceipt(p) \/ Finish(p) \/ Retry(p) PROVE TransportInv'
  <2>1. AttemptsInv' /\ Kept
    BY <1>1, ProducerStep DEF TransportInv
  <2>2. UNCHANGED <<projection, consumerVars>>
    BY <1>1 DEF PublishReceipt, Finish, Retry
  <2> QED  BY <2>1, <2>2, ConsumerKept
<1>2. CASE Begin
  BY <1>2, LookStep DEF Begin, GoTo, Findings, Queries
<1>3. CASE Search
  BY <1>0, <1>3, LookStep DEF Search, GoTo, FailQuery, Findings, Queries
<1>4. CASE DownloadReceipt
  <2> DEFINE found == [attempt |-> job, recovered |-> FALSE, receipt |-> Downloaded(at)]
  <2>1. Justified(scope, at, found)
    BY <1>0, <1>4 DEF DownloadReceipt, Downloaded, TransportInv, Findings, Justified, Evidence
  <2>2. ToldBy(found) = Downloaded(at).result
    BY DEF ToldBy
  <2>3. Take(ToldBy(found), found) /\ UNCHANGED <<attempts, projection>> /\ query = "download"
    BY <1>4, <2>2 DEF DownloadReceipt
  <2> HIDE DEF found
  <2> QED  BY <2>1, <2>3, TakeStep
<1>5. CASE LookBefore
  BY <1>0, <1>5, LookStep DEF LookBefore, GoTo, FailQuery, Findings, FailedHard, Queries, TransportInv
<1>6. CASE SearchHistory
  <2>1. FailedHard /\ Scopes[scope] = "runtime"
    BY <1>6 DEF SearchHistory, TransportInv, Findings
  <2>2. Records(at) = {} => Unpublished(at, before.attempt)
    BY <2>1, <1>0 DEF Records, Unpublished, FailedHard
  <2> QED
    BY <1>0, <1>6, <2>1, <2>2, LookStep
    DEF SearchHistory, GoTo, FailQuery, Findings, FailedHard, Unpublished, Queries
<1>7. CASE LookAfter
  <2> DEFINE found == [attempt |-> before.attempt, recovered |-> TRUE, receipt |-> absent]
  <2>1. CASE ~SameStep(at)
    BY <1>7, <2>1, LookStep DEF LookAfter, FailQuery, Findings, Queries
  <2>2. CASE SameStep(at)
    <3>1. Justified(scope, at, found)
      BY <1>0, <1>7
      DEF LookAfter, TransportInv, Findings, FailedHard, Justified, Evidence, Unpublished
    <3>2. Take(ToldBy(found), found) /\ UNCHANGED <<attempts, projection>> /\ query = "after"
      BY <1>7, <2>2 DEF LookAfter, ToldBy
    <3> HIDE DEF found
    <3> QED  BY <3>1, <3>2, TakeStep
  <2> QED  BY <2>1, <2>2
<1>8. CASE QueryFails
  BY <1>8, LookStep DEF QueryFails, FailQuery, Findings, Queries
<1>9. CASE Over \/ UNCHANGED queryVars
  <2>1. UNCHANGED queryVars
    BY <1>9 DEF Over
  <2> QED
    BY <2>1 DEF queryVars, consumerVars, TransportInv, AttemptsInv, ConsumerTypes, Findings, FailedHard,
                Unpublished, DrawnSound, Drawn, Justified, NeedSums, Worst, Agreed, Projected
<1> QED  BY <1>1, <1>2, <1>3, <1>4, <1>5, <1>6, <1>7, <1>8, <1>9 DEF QueryNext

\* In every state the consumer knows of the attempts only what is so, and the
\* needs are what it has drawn: for every number of steps, scopes and retries
\* (LoadNeeds, LoadRuntimeNeeds).
THEOREM TransportInvariant == QuerySpec => []TransportInv
<1> QED  BY TransportInit, TransportNext, PTL DEF QuerySpec

\* A recovered failure is one, and the scopes of a job draw the same from the
\* same attempt (terminal_results.go).
THEOREM RecoveryIsJustified == QuerySpec => []EvidenceSound
<1>1. TransportInv => RecoveryJustified
  <2> SUFFICES ASSUME TransportInv, NEW s \in ScopeIds, NEW p \in Needed,
                      evidence[s][p] # absent, evidence[s][p].recovered
               PROVE  /\ Scopes[s] = "runtime"
                      /\ attempts[p][evidence[s][p].attempt].outcome = "hard_failed"
                      /\ \A i \in 1..evidence[s][p].attempt : attempts[p][i].receipt = absent
    BY DEF RecoveryJustified
  <2>1. Justified(s, p, evidence[s][p])
    BY DEF TransportInv, DrawnSound
  <2> QED  BY <2>1 DEF Justified, Unpublished
<1>2. TransportInv => ScopesAgree
  <2> SUFFICES ASSUME TransportInv, NEW s \in ScopeIds, NEW t \in ScopeIds, NEW p \in Needed,
                      evidence[s][p] # absent, evidence[t][p] # absent,
                      evidence[s][p].attempt = evidence[t][p].attempt
               PROVE  evidence[s][p] = evidence[t][p]
    BY DEF ScopesAgree
  <2> DEFINE e == evidence[s][p]
             f == evidence[t][p]
  <2>1. Justified(s, p, e) /\ Justified(t, p, f)
    BY DEF TransportInv, DrawnSound
  <2>2. e \in Evidence /\ f \in Evidence /\ e.attempt = f.attempt
        /\ e.attempt \in Nat \ {0}
    BY <2>1 DEF Justified, Evidence
  <2> HIDE DEF e, f
  <2>3. e.recovered = f.recovered /\ e.receipt = f.receipt
    <3>1. e.recovered \in BOOLEAN /\ f.recovered \in BOOLEAN /\ e.attempt \in 1..e.attempt
      BY <2>2 DEF Evidence
    <3>2. CASE e.recovered /\ f.recovered
      BY <2>1, <3>1, <3>2 DEF Justified
    <3>3. CASE ~e.recovered /\ ~f.recovered
      BY <2>1, <2>2, <3>1, <3>3 DEF Justified
    <3>4. CASE e.recovered # f.recovered
      <4>1. ~(e.recovered /\ ~f.recovered)
        BY <2>1, <2>2, <3>1, AbsentAssumption DEF Justified, Unpublished
      <4>2. ~(f.recovered /\ ~e.recovered)
        BY <2>1, <2>2, <3>1, AbsentAssumption DEF Justified, Unpublished
      <4> QED  BY <3>1, <3>4, <4>1, <4>2
    <3> QED  BY <3>1, <3>2, <3>3, <3>4
  <2>4. e = f
    BY <2>2, <2>3 DEF Evidence
  <2> QED  BY <2>4 DEF e, f
<1> QED  BY <1>1, <1>2, TransportInvariant, PTL DEF EvidenceSound

\* A need that is handed to a job says what the steps have published
\* (aggregateResult, mergeOutputs, projectNeed).
THEOREM NeedsAreExact == QuerySpec => []NeedsExact
<1>1. TransportInv => NeedsExact
  <2> SUFFICES ASSUME TransportInv, NEW s \in ScopeIds, needs[s] # absent
               PROVE  LET From(p)   == evidence[s][p]
                          Receipt(p) == attempts[p][From(p).attempt].receipt
                          Verified  == {p \in Needed : ~From(p).recovered}
                          Counted   == IF projection = absent
                                       THEN {p \in Verified : Receipt(p).output # absent}
                                       ELSE Verified \cap projection
                          Value(p)  == IF Receipt(p).output = absent THEN empty ELSE Receipt(p).output
                          Told      == {IF From(p).recovered THEN "failure" ELSE Receipt(p).result : p \in Needed}
                      IN  /\ \A p \in Verified : Receipt(p) = From(p).receipt /\ Receipt(p) # absent
                          /\ needs[s].result = CASE "failure" \in Told   -> "failure"
                                                 [] "failure" \notin Told /\ "cancelled" \in Told -> "cancelled"
                                                 [] Told = {"skipped"}    -> "skipped"
                                                 [] OTHER                 -> "success"
                          /\ IF Counted = {} THEN needs[s].output = absent
                             ELSE \A p \in Counted : needs[s].output = Value(p)
    BY DEF NeedsExact
  <2> DEFINE f == evidence[s]
             Receipt(p) == attempts[p][f[p].attempt].receipt
             Verified == {p \in Needed : ~f[p].recovered}
             Counted == IF projection = absent
                        THEN {p \in Verified : Receipt(p).output # absent}
                        ELSE Verified \cap projection
             Told == {IF f[p].recovered THEN "failure" ELSE Receipt(p).result : p \in Needed}
  <2>1. /\ s < scope
        /\ Worst(needs[s].result, f, Needed)
        /\ projection = absent => Agreed(needs[s].output, f, Needed)
        /\ projection # absent => Projected(needs[s].output, f)
    BY DEF TransportInv, NeedSums
  <2>2. \A p \in Needed : Justified(s, p, f[p])
    BY <2>1 DEF TransportInv, DrawnSound, Drawn
  <2>3. \A p \in Verified : Receipt(p) = f[p].receipt /\ Receipt(p) # absent
    BY <2>2, AbsentAssumption DEF Justified
  <2>4. \A p \in Needed : (IF f[p].recovered THEN "failure" ELSE Receipt(p).result) = ToldBy(f[p])
    BY <2>3 DEF ToldBy
  <2>5. Told = {ToldBy(f[p]) : p \in Needed} /\ Needed # {}
    BY <2>4, ProducersAssumption DEF Needed
  <2> HIDE DEF f, Told
  <2>6. needs[s].result = CASE "failure" \in Told   -> "failure"
                            [] "failure" \notin Told /\ "cancelled" \in Told -> "cancelled"
                            [] Told = {"skipped"}    -> "skipped"
                            [] OTHER                 -> "success"
    <3> DEFINE r == needs[s].result
    <3>1. /\ r \in {"success", "failure", "cancelled", "skipped"}
          /\ r = "failure" <=> "failure" \in Told
          /\ r = "cancelled" <=> "cancelled" \in Told /\ "failure" \notin Told
          /\ r = "skipped" <=> Told = {"skipped"}
      BY <2>1, <2>5 DEF Worst, Results
    <3> HIDE DEF r
    <3>2. r = CASE "failure" \in Told   -> "failure"
                [] "failure" \notin Told /\ "cancelled" \in Told -> "cancelled"
                [] Told = {"skipped"}    -> "skipped"
                [] OTHER                 -> "success"
      BY <3>1
    <3> QED  BY <3>2 DEF r
  <2>7. IF Counted = {} THEN needs[s].output = absent
        ELSE \A p \in Counted : needs[s].output =
               IF Receipt(p).output = absent THEN empty ELSE Receipt(p).output
    <3>1. CASE projection = absent
      <4>1. \A p \in Needed : p \in Counted <=> OutputOf(f[p]) # absent
        BY <2>3, <3>1 DEF OutputOf
      <4>2. \A p \in Counted : p \in Needed /\ ~f[p].recovered /\ Receipt(p).output = OutputOf(f[p])
        BY <2>3, <3>1 DEF OutputOf
      <4>3. Agreed(needs[s].output, f, Needed)
        BY <2>1, <3>1
      <4> HIDE DEF Counted, Receipt
      <4> QED  BY <4>1, <4>2, <4>3 DEF Agreed
    <3>2. CASE projection # absent
      <4>1. projection \in SUBSET Needed
        BY <3>2 DEF TransportInv, ConsumerTypes
      <4>2. \A p \in projection : p \in Counted <=> ~f[p].recovered
        BY <3>2, <4>1
      <4>3. \A p \in Counted : p \in projection /\ Receipt(p) = f[p].receipt
        BY <2>3, <3>2
      <4>4. Projected(needs[s].output, f)
        BY <2>1, <3>2
      <4> HIDE DEF Counted, Receipt
      <4> QED  BY <4>2, <4>3, <4>4 DEF Projected, ValueOf
    <3> QED  BY <3>1, <3>2
  <2> QED  BY <2>3, <2>6, <2>7 DEF f, Told
<1> QED  BY <1>1, TransportInvariant, PTL
=============================================================================
