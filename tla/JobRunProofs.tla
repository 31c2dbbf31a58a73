---------------------------- MODULE JobRunProofs ----------------------------
(***************************************************************************)
(* Proofs about an attempt at a job, for every number and kind of steps    *)
(* and every set of resources.                                             *)
(***************************************************************************)
EXTENDS JobRun, SequenceTheorems, TLAPS

Unprepared == {"start", "hydrate", "prepare", "setup"}
Running    == {"pre", "steps", "posts", "finalize"}

\* Where a process can run, what it is the process of, and what has not been
\* told to the build yet.
ControlInv ==
    /\ busy => phase \in {"pre", "steps", "posts"}
    /\ busy => at <= IF phase = "posts" THEN Len(posts) ELSE NSteps
    /\ phase # "over" => exit = none
    /\ phase \notin {"exit", "over"} => receipt = none

\* A pre is judged once, and a step whose pre has failed does not run.
PreInv ==
    /\ phase \in Unprepared => \A s \in Steps : preFailure[s] = none
    /\ phase = "pre" => \A s \in Steps : at <= s => preFailure[s] = none
    /\ phase = "steps" /\ busy => preFailure[at] = none

\* The failures of pres whose steps have not been reached.
Owed ==
    {k \in Errors : \E s \in Steps :
        /\ phase = "pre" \/ (phase = "steps" /\ at <= s)
        /\ preFailure[s] # none
        /\ k \in Judged(preFailure[s])}

\* What has gone wrong is an error of the run, or will be when its step is
\* reached.
AccountInv ==
    /\ errors \cup Owed \subseteq mishaps
    /\ phase \in Unprepared => mishaps = {}
    /\ phase \in Running => errors \subseteq {"step", "hard"}
    /\ phase # "over" => mishaps \subseteq errors \cup Owed

\* The conclusion and the errors agree.
ConclusionInv ==
    /\ tolerated => conclusion = "success" /\ continueOnError /\ errors \cap Unforgivable = {}
    /\ phase \in {"start", "hydrate", "prepare"} => conclusion = none
    /\ phase \in Unprepared \cup Running => ~tolerated
    /\ phase \in Running \cup {"setup"} => conclusion = "failure"
    /\ phase \in {"cleanup", "write", "publish"} /\ conclusion \in {none, "failure"} => errors # {}
    /\ phase \in {"write", "publish"} /\ conclusion = "success" => errors = {} \/ tolerated
    /\ phase = "publish" => conclusion # none

\* The receipt and the errors agree.
ReceiptInv ==
    phase = "exit" =>
        /\ receipt = none => "publish" \in errors
        /\ receipt \in {none, "failure"} => errors # {}
        /\ tolerated => receipt = "success"

\* What is held follows the acquisitions.
HeldInv ==
    /\ phase \in {"start", "hydrate", "prepare", "write", "publish", "exit"} => held = <<>>
    /\ phase = "setup" =>
          Range(held) = {r \in Needed : \E i \in 1..Len(Acquisition) : i < at /\ Acquisition[i] = r}
    /\ phase \in Running => Range(held) = Needed

RunInv ==
    /\ TypeOK /\ ControlInv /\ PreInv /\ AccountInv /\ ConclusionInv /\ ReceiptInv /\ HeldInv
    /\ VerdictHonest

-----------------------------------------------------------------------------
LEMMA VerdictType ==
    ASSUME NEW s, NEW hard \in BOOLEAN, NEW done \in BOOLEAN
    PROVE  /\ Verdict(s, hard, done) \in {"success", "failure", "cancelled", "hard"}
           /\ Verdict(s, hard, done) # none
           /\ Judged(Verdict(s, hard, done)) \subseteq {"step", "hard"}
BY NoneAssumption DEF Verdict, Judged

LEMMA ReleaseErrors ==
    \A r \in DOMAIN ReleaseError : ReleaseError[r] \in Errors
BY DEF ReleaseError, Errors

\* Types: the flags first, which are a matter of logic alone.
Flags ==
    /\ busy \in BOOLEAN /\ signalled \in BOOLEAN /\ cancelled \in BOOLEAN /\ postOver \in BOOLEAN
    /\ continueOnError \in BOOLEAN /\ tolerated \in BOOLEAN

LEMMA FlagsStep ==
    ASSUME Flags, Next
    PROVE  Flags'
<1> USE DEF Flags, Enter, GoOn, Join, Mishap, NoMishap, controlVars, contextVars, resultVars, outputVars, ghostVars
<1>1. CASE StartFails \/ Start \/ Hydrate \/ Prepare
  BY <1>1, Zenon DEF StartFails, Start, Hydrate, Prepare
<1>2. CASE Acquire \/ AcquireFails \/ Prepared
  BY <1>2, Zenon DEF Acquire, AcquireFails, SetupTolerated, Prepared
<1>3. CASE PassPre \/ RejectPre \/ PreCannotStart \/ BeginPre \/ EndPre \/ PresDone
  BY <1>3, Zenon DEF PassPre, RejectPre, PreCannotStart, BeginPre, EndPre, FailPre, PresDone
<1>4. CASE CommitPreFailure \/ SkipStep \/ RejectStep \/ BeginStep \/ EndStep \/ StepsDone
  BY <1>4, Zenon DEF CommitPreFailure, SkipStep, RejectStep, BeginStep, FailStep, EndStep, StepsDone
<1>5. CASE SkipPost \/ BeginPost \/ EndPost \/ PostsDone
  BY <1>5, Zenon DEF SkipPost, BeginPost, EndPost, PostsDone
<1>6. CASE Finalize \/ Release \/ Return \/ Write \/ Publish \/ Exit
  BY <1>6, Zenon DEF Finalize, Tolerable, Release, Return, Write, Publish, Exit
<1>7. CASE Signal \/ Deadline \/ PostsExpire \/ Killed \/ Over
  BY <1>7, Zenon DEF Signal, Deadline, PostsExpire, Killed, Over, vars
<1> QED
  BY <1>1, <1>2, <1>3, <1>4, <1>5, <1>6, <1>7 DEF Next, Advance

Values ==
    /\ phase \in Phases
    /\ errors \subseteq Errors /\ mishaps \subseteq Errors
    /\ conclusion \in Conclusions
    /\ preFailure \in [Steps -> {none, "success", "failure", "cancelled", "hard"}]
    /\ posts \in Seq(Steps) /\ held \in Seq(Range(Acquisition))
    /\ receipt \in Conclusions /\ exit \in {none, "0", "1", "78", "killed"}
    /\ trace \in Seq({"pre", "main", "post"} \X Steps)

LEMMA TypeStep ==
    ASSUME TypeOK, ControlInv, Next
    PROVE  TypeOK'
<1> USE DEF Values, Enter, GoOn, Join, Mishap, NoMishap, Phases, Errors, Conclusions,
            controlVars, contextVars, resultVars, outputVars, ghostVars
<1>n. NSteps \in Nat /\ Steps = 1..NSteps
  BY StepsAssumption DEF Steps
<1>v. Values /\ Flags /\ at \in Nat \ {0}
  BY DEF TypeOK, Flags
<1>a. at' \in {at, at + 1, 1}
  <2>1. CASE Advance
    <3>1. CASE StartFails \/ Start \/ Hydrate \/ Prepare \/ Acquire \/ AcquireFails \/ Prepared
      BY <3>1 DEF StartFails, Start, Hydrate, Prepare, Acquire, AcquireFails, Prepared
    <3>2. CASE PassPre \/ RejectPre \/ PreCannotStart \/ BeginPre \/ PresDone
      BY <3>2 DEF PassPre, RejectPre, PreCannotStart, BeginPre, PresDone
    <3>3. CASE CommitPreFailure \/ SkipStep \/ RejectStep \/ BeginStep \/ StepsDone
      BY <3>3 DEF CommitPreFailure, SkipStep, RejectStep, BeginStep, StepsDone
    <3>4. CASE SkipPost \/ BeginPost \/ PostsDone
      BY <3>4 DEF SkipPost, BeginPost, PostsDone
    <3>5. CASE Finalize \/ Release \/ Return \/ Write \/ Publish \/ Exit
      BY <3>5 DEF Finalize, Release, Return, Write, Publish, Exit
    <3> QED
      BY <2>1, <3>1, <3>2, <3>3, <3>4, <3>5 DEF Advance
  <2>2. CASE EndPre \/ EndStep \/ EndPost
    BY <2>2 DEF EndPre, EndStep, EndPost
  <2>3. CASE Signal \/ Deadline \/ PostsExpire \/ Killed \/ Over
    BY <2>3 DEF Signal, Deadline, PostsExpire, Killed, Over, vars
  <2> QED
    BY <2>1, <2>2, <2>3 DEF Next
<1>b. at' \in Nat \ {0}
  BY <1>v, <1>a
<1>0. Values'
  <2>1. CASE StartFails \/ Start \/ Hydrate \/ Prepare
    BY <2>1, <1>v DEF StartFails, Start, Hydrate, Prepare
  <2>2. CASE Acquire \/ AcquireFails \/ Prepared
    <3>1. CASE Acquire
      <4>1. Acquisition[at] \in Range(Acquisition)
        BY <3>1, <1>v DEF Acquire, Range, Acquisition
      <4>2. Append(held, Acquisition[at]) \in Seq(Range(Acquisition))
        BY <4>1, <1>v, AppendProperties
      <4> QED
        BY <3>1, <4>2, <1>v DEF Acquire
    <3>2. CASE AcquireFails
      BY <3>2, <1>v DEF AcquireFails, SetupTolerated
    <3>3. CASE Prepared
      BY <3>3, <1>v DEF Prepared
    <3> QED
      BY <2>2, <3>1, <3>2, <3>3
  <2>3. CASE PassPre \/ RejectPre \/ PresDone
    BY <2>3, <1>v DEF PassPre, RejectPre, PresDone
  <2>4. CASE PreCannotStart \/ EndPre
    <3>1. at \in Steps
      BY <2>4, <1>v, <1>n DEF PreCannotStart, EndPre, ControlInv
    <3>2. /\ \/ UNCHANGED preFailure
             \/ \E v \in {"success", "failure", "cancelled", "hard"} : preFailure' = [preFailure EXCEPT ![at] = v]
          /\ mishaps' \subseteq mishaps \cup {"step", "hard"}
      BY <2>4, <1>v, <3>1, VerdictType, ZenonT(40) DEF PreCannotStart, EndPre, FailPre, Flags
    <3>3. UNCHANGED <<errors, conclusion, posts, held, receipt, exit, trace, phase>>
      BY <2>4 DEF PreCannotStart, EndPre
    <3> QED
      <4>1. preFailure' \in [Steps -> {none, "success", "failure", "cancelled", "hard"}]
        BY <1>v, <3>1, <3>2
      <4> QED
        BY <1>v, <3>2, <3>3, <4>1
  <2>5. CASE BeginPre \/ BeginStep
    <3>1. at \in Steps
      BY <2>5, <1>v, <1>n DEF BeginPre, BeginStep, AtStep
    <3>2. Append(posts, at) \in Seq(Steps)
      BY <1>v, <3>1, AppendProperties
    <3>3. \A kind \in {"pre", "main"} : Append(trace, <<kind, at>>) \in Seq({"pre", "main", "post"} \X Steps)
      BY <1>v, <3>1, AppendProperties
    <3>4. CASE BeginPre
      BY <3>4, <1>v, <3>2, <3>3 DEF BeginPre, Register
    <3>5. CASE BeginStep
      BY <3>5, <1>v, <3>2, <3>3 DEF BeginStep, AtStep, Register
    <3> QED
      BY <2>5, <3>4, <3>5
  <2>6. CASE CommitPreFailure \/ SkipStep \/ RejectStep \/ EndStep \/ StepsDone
    BY <2>6, <1>v, VerdictType DEF CommitPreFailure, Judged, SkipStep, RejectStep, FailStep, EndStep, StepsDone
  <2>7. CASE SkipPost \/ BeginPost \/ EndPost \/ PostsDone
    <3>1. CASE BeginPost
      <4>1. Len(posts) \in Nat /\ Len(posts) + 1 - at \in 1..Len(posts)
        BY <3>1, <1>v DEF BeginPost, AtPost
      <4>2. Post \in Steps
        BY <1>v, <4>1, ElementOfSeq DEF Post
      <4>3. Append(trace, <<"post", Post>>) \in Seq({"pre", "main", "post"} \X Steps)
        BY <1>v, <4>2, AppendProperties
      <4> QED
        BY <3>1, <1>v, <4>3 DEF BeginPost
    <3>2. CASE SkipPost \/ EndPost \/ PostsDone
      <4>1. UNCHANGED <<conclusion, preFailure, posts, held, receipt, exit, trace>> /\ phase' \in {phase, "finalize"}
        BY <3>2 DEF SkipPost, EndPost, PostsDone
      <4>2. errors' \subseteq errors \cup {"step", "hard"} /\ mishaps' \subseteq mishaps \cup {"step", "hard"}
        BY <3>2 DEF SkipPost, EndPost, PostsDone
      <4> QED
        BY <1>v, <4>1, <4>2
    <3> QED
      BY <2>7, <3>1, <3>2
  <2>8. CASE Finalize \/ Return \/ Write
    BY <2>8, <1>v DEF Finalize, Concluded, Tolerable, Return, Corrected, Write, Terminal
  <2>9. CASE Release
    <3>1. Front(held) \in Seq(Range(Acquisition))
      BY <2>9, <1>v, SubSeqProperties DEF Release, Front
    <3> QED
      BY <2>9, <1>v, <3>1, ReleaseErrors DEF Release
  <2>10. CASE Publish \/ Exit
    BY <2>10, <1>v DEF Publish, Fallback, Exit, Status
  <2>11. CASE Signal \/ Deadline \/ PostsExpire \/ Killed \/ Over
    <3>1. UNCHANGED <<errors, mishaps, conclusion, preFailure, posts, held, receipt, trace>>
      BY <2>11 DEF Signal, Deadline, PostsExpire, Killed, Over, vars
    <3>2. phase' \in {phase, "over"} /\ exit' \in {exit, "killed"}
      BY <2>11 DEF Signal, Deadline, PostsExpire, Killed, Over, vars
    <3> QED
      BY <1>v, <3>1, <3>2
  <2> QED
    BY <2>1, <2>2, <2>3, <2>4, <2>5, <2>6, <2>7, <2>8, <2>9, <2>10, <2>11 DEF Next, Advance
<1> QED
  <2>1. Flags'
    BY <1>v, FlagsStep
  <2> QED
    BY <1>0, <1>b, <2>1 DEF TypeOK, Flags

-----------------------------------------------------------------------------
LEMMA ControlStep ==
    ASSUME TypeOK, ControlInv, Next
    PROVE  ControlInv'
<1> USE DEF ControlInv, Enter, GoOn
<1>t. at \in Nat \ {0} /\ NSteps \in Nat
  BY StepsAssumption DEF TypeOK
<1>1. CASE StartFails \/ Start \/ Hydrate \/ Prepare \/ Acquire \/ AcquireFails \/ Prepared
  BY <1>1 DEF StartFails, Start, Hydrate, Prepare, Acquire, AcquireFails, Prepared, outputVars
<1>2. CASE PassPre \/ RejectPre \/ PreCannotStart \/ EndPre \/ PresDone
  BY <1>2 DEF PassPre, RejectPre, PreCannotStart, EndPre, PresDone, outputVars
<1>3. CASE BeginPre \/ BeginStep \/ BeginPost
  BY <1>3, <1>t DEF BeginPre, BeginStep, AtStep, BeginPost, AtPost, outputVars
<1>4. CASE CommitPreFailure \/ SkipStep \/ RejectStep \/ EndStep \/ StepsDone
  BY <1>4 DEF CommitPreFailure, AtStep, SkipStep, RejectStep, EndStep, StepsDone, outputVars
<1>5. CASE SkipPost \/ EndPost \/ PostsDone \/ Finalize
  BY <1>5 DEF SkipPost, AtPost, EndPost, PostsDone, Finalize, outputVars
<1>6. CASE Release \/ Return \/ Write \/ Publish \/ Exit
  BY <1>6 DEF Release, Return, Write, Publish, Exit, controlVars, outputVars
<1>7. CASE Signal \/ Deadline \/ PostsExpire \/ Killed \/ Over
  BY <1>7 DEF Signal, Deadline, PostsExpire, Killed, Over, controlVars, outputVars, vars
<1> QED
  BY <1>1, <1>2, <1>3, <1>4, <1>5, <1>6, <1>7 DEF Next, Advance

LEMMA PreStep ==
    ASSUME TypeOK, ControlInv, PreInv, Next
    PROVE  PreInv'
<1> USE DEF PreInv, ControlInv, Enter, GoOn, Unprepared
<1>t. /\ at \in Nat \ {0} /\ NSteps \in Nat /\ Steps = 1..NSteps
      /\ preFailure \in [Steps -> {none, "success", "failure", "cancelled", "hard"}]
  BY StepsAssumption DEF TypeOK, Steps
<1>1. CASE StartFails \/ Start \/ Hydrate \/ Prepare \/ Acquire \/ AcquireFails \/ Prepared
  BY <1>1 DEF StartFails, Start, Hydrate, Prepare, Acquire, AcquireFails, Prepared
<1>2. CASE PassPre \/ RejectPre \/ PresDone \/ BeginPre
  BY <1>2, <1>t DEF PassPre, RejectPre, PresDone, BeginPre
<1>3. CASE PreCannotStart \/ EndPre
  BY <1>3, <1>t DEF PreCannotStart, EndPre, FailPre
<1>4. CASE CommitPreFailure \/ SkipStep \/ RejectStep \/ BeginStep \/ EndStep \/ StepsDone
  BY <1>4 DEF CommitPreFailure, AtStep, SkipStep, RejectStep, BeginStep, EndStep, StepsDone
<1>5. CASE SkipPost \/ BeginPost \/ EndPost \/ PostsDone \/ Finalize
  BY <1>5 DEF SkipPost, AtPost, BeginPost, EndPost, PostsDone, Finalize
<1>6. CASE Release \/ Return \/ Write \/ Publish \/ Exit
  BY <1>6 DEF Release, Return, Write, Publish, Exit, controlVars
<1>7. CASE Signal \/ Deadline \/ PostsExpire \/ Killed \/ Over
  BY <1>7 DEF Signal, Deadline, PostsExpire, Killed, Over, controlVars, vars
<1> QED
  BY <1>1, <1>2, <1>3, <1>4, <1>5, <1>6, <1>7 DEF Next, Advance

-----------------------------------------------------------------------------
(* What is held.                                                           *)

LEMMA HeldStep ==
    ASSUME TypeOK, HeldInv, Next
    PROVE  HeldInv'
<1> USE DEF HeldInv, Enter, GoOn, Running
<1>t. at \in Nat \ {0} /\ held \in Seq(Range(Acquisition))
  BY DEF TypeOK
<1>1. CASE StartFails \/ Start \/ Hydrate
  BY <1>1 DEF StartFails, Start, Hydrate
<1>2. CASE Prepare
  <2>1. Range(<<>>) = {}
    BY DEF Range
  <2>2. phase' = "setup" => {r \in Needed : \E i \in 1..Len(Acquisition) : i < at' /\ Acquisition[i] = r} = {}
    BY <1>2 DEF Prepare
  <2> QED
    BY <1>2, <2>1, <2>2 DEF Prepare
<1>3. CASE Acquire
  <2>1. at \in 1..Len(Acquisition) /\ phase = "setup" /\ phase' = "setup" /\ at' = at + 1
    BY <1>3, <1>t DEF Acquire, Acquisition
  <2>2. Acquisition[at] \in Range(Acquisition)
    BY <2>1 DEF Range, Acquisition
  <2>3. Range(Append(held, Acquisition[at])) = Range(held) \cup {Acquisition[at]}
    BY <1>t, <2>2, AppendProperties DEF Range
  <2>4. Range(held') = IF Acquisition[at] \in Needed THEN Range(held) \cup {Acquisition[at]} ELSE Range(held)
    BY <1>3, <2>3 DEF Acquire
  <2>5. \A i \in 1..Len(Acquisition) : i < at' <=> i < at \/ i = at
    BY <2>1 DEF Acquisition
  <2>6. Range(held') = {r \in Needed : \E i \in 1..Len(Acquisition) : i < at' /\ Acquisition[i] = r}
    BY <2>1, <2>4, <2>5
  <2> QED
    BY <2>1, <2>6
<1>4. CASE AcquireFails
  BY <1>4 DEF AcquireFails
<1>5. CASE Prepared
  <2>1. \A i \in 1..Len(Acquisition) : i < at
    BY <1>5, <1>t DEF Prepared, Acquisition
  <2>2. \A r \in Needed : \E i \in 1..Len(Acquisition) : Acquisition[i] = r
    <3>1. \A r \in Range(Acquisition) : \E i \in 1..Len(Acquisition) : Acquisition[i] = r
      BY DEF Range, Acquisition
    <3> QED
      BY <3>1, NeededAssumption
  <2>3. {r \in Needed : \E i \in 1..Len(Acquisition) : i < at /\ Acquisition[i] = r} = Needed
    BY <2>1, <2>2
  <2> QED
    BY <1>5, <2>3 DEF Prepared
<1>6. CASE PassPre \/ RejectPre \/ PreCannotStart \/ BeginPre \/ EndPre \/ PresDone
  BY <1>6 DEF PassPre, RejectPre, PreCannotStart, BeginPre, EndPre, PresDone
<1>7. CASE CommitPreFailure \/ SkipStep \/ RejectStep \/ BeginStep \/ EndStep \/ StepsDone
  BY <1>7 DEF CommitPreFailure, AtStep, SkipStep, RejectStep, BeginStep, EndStep, StepsDone
<1>8. CASE SkipPost \/ BeginPost \/ EndPost \/ PostsDone \/ Finalize
  BY <1>8 DEF SkipPost, AtPost, BeginPost, EndPost, PostsDone, Finalize
<1>9. CASE Release \/ Return \/ Write \/ Publish \/ Exit
  BY <1>9 DEF Release, Return, Write, Publish, Exit, controlVars
<1>10. CASE Signal \/ Deadline \/ PostsExpire \/ Killed \/ Over
  <2>1. UNCHANGED held /\ (phase' = "over" \/ UNCHANGED <<phase, at>>)
    BY <1>10 DEF Signal, Deadline, PostsExpire, Killed, Over, controlVars, vars
  <2> QED
    BY <2>1
<1> QED
  BY <1>1, <1>2, <1>3, <1>4, <1>5, <1>6, <1>7, <1>8, <1>9, <1>10 DEF Next, Advance

-----------------------------------------------------------------------------
(* What has gone wrong is accounted for.                                   *)

LEMMA JudgedType ==
    \A verdict : Judged(verdict) \subseteq {"step", "hard"}
BY DEF Judged

LEMMA AccountStep ==
    ASSUME TypeOK, ControlInv, PreInv, AccountInv, Next
    PROVE  AccountInv'
<1> USE DEF AccountInv, Enter, GoOn, Join, Mishap, NoMishap, Unprepared, Running
<1>t. /\ at \in Nat \ {0} /\ NSteps \in Nat /\ Steps = 1..NSteps
      /\ preFailure \in [Steps -> {none, "success", "failure", "cancelled", "hard"}]
      /\ {"step", "hard"} \subseteq Errors
  BY StepsAssumption DEF TypeOK, Steps, Errors
<1>o. phase \notin {"pre", "steps"} => Owed = {}
  BY DEF Owed
<1>p. phase' \notin {"pre", "steps"} => Owed' = {}
  BY DEF Owed
<1>1. CASE StartFails \/ Start \/ Hydrate \/ Prepare \/ Acquire \/ AcquireFails
  BY <1>1, <1>o, <1>p DEF StartFails, Start, Hydrate, Prepare, Acquire, AcquireFails, resultVars, ghostVars
<1>2. CASE Prepared
  <2>1. Owed' = {}
    BY <1>2, <1>t DEF Prepared, PreInv, Owed
  <2> QED
    BY <1>2, <2>1 DEF Prepared
<1>3. CASE PassPre \/ RejectPre \/ PresDone \/ BeginPre
  <2>1. Owed' = Owed
    BY <1>3, <1>t DEF PassPre, RejectPre, PresDone, BeginPre, Owed
  <2> QED
    BY <1>3, <2>1 DEF PassPre, RejectPre, PresDone, BeginPre, resultVars
<1>4. CASE PreCannotStart \/ EndPre
  <2>1. at \in Steps /\ phase = "pre" /\ phase' = "pre" /\ UNCHANGED errors
    BY <1>4, <1>t DEF PreCannotStart, EndPre, ControlInv, resultVars
  <2>2. CASE UNCHANGED <<preFailure, mishaps>>
    <3>1. Owed' = Owed
      BY <2>1, <2>2 DEF Owed
    <3> QED
      BY <2>1, <2>2, <3>1
  <2>3. CASE \E hard \in BOOLEAN : FailPre(at, hard)
    <3>1. PICK hard \in BOOLEAN : FailPre(at, hard)
      BY <2>3
    <3> DEFINE v == Verdict(at, hard, signalled)
    <3>2. preFailure' = [preFailure EXCEPT ![at] = v] /\ mishaps' = mishaps \cup Judged(v)
      BY <3>1 DEF FailPre
    <3>3. v # none /\ Judged(v) \subseteq {"step", "hard"}
      BY VerdictType DEF TypeOK
    <3> HIDE DEF v
    <3>4. preFailure[at] = none
      BY <2>1, <1>t DEF PreInv
    <3>5. Owed' = Owed \cup Judged(v)
      BY <1>t, <2>1, <3>2, <3>3, <3>4 DEF Owed
    <3> QED
      BY <2>1, <3>2, <3>5
  <2> QED
    BY <1>4, <2>2, <2>3 DEF PreCannotStart, EndPre
<1>5. CASE CommitPreFailure
  <2>1. at \in Steps /\ phase = "steps" /\ phase' = "steps" /\ at' = at + 1 /\ UNCHANGED <<preFailure, mishaps>>
    BY <1>5, <1>t DEF CommitPreFailure, AtStep, ghostVars
  <2>2. errors' = errors \cup Judged(preFailure[at]) /\ preFailure[at] # none
    BY <1>5 DEF CommitPreFailure
  <2>3. Owed = Owed' \cup Judged(preFailure[at])
    BY <1>t, <2>1, <2>2, JudgedType DEF Owed
  <2> QED
    BY <2>1, <2>2, <2>3, JudgedType
<1>6. CASE SkipStep \/ RejectStep \/ EndStep
  <2>1. /\ at \in Steps /\ phase = "steps" /\ phase' = "steps" /\ at' = at + 1 /\ preFailure[at] = none
        /\ UNCHANGED preFailure
    BY <1>6, <1>t DEF SkipStep, RejectStep, EndStep, AtStep, PreInv, ControlInv
  <2>2. Owed' = Owed
    BY <1>t, <2>1 DEF Owed
  <2>3. \E kinds \in SUBSET {"step", "hard"} : errors' = errors \cup kinds /\ mishaps' = mishaps \cup kinds
    <3>1. CASE NoMishap
      <4> WITNESS {} \in SUBSET {"step", "hard"}
      <4> QED
        BY <3>1
    <3>2. CASE \E hard \in BOOLEAN : FailStep(hard)
      BY <3>2, JudgedType DEF FailStep
    <3> QED
      BY <1>6, <3>1, <3>2 DEF SkipStep, RejectStep, EndStep
  <2> QED
    BY <2>1, <2>2, <2>3
<1>7. CASE BeginStep
  <2>1. Owed' = Owed
    BY <1>7 DEF BeginStep, Owed
  <2> QED
    BY <1>7, <2>1 DEF BeginStep, AtStep, resultVars
<1>8. CASE StepsDone
  <2>1. Owed = {}
    BY <1>8, <1>t DEF StepsDone, Owed
  <2> QED
    BY <1>8, <1>p, <2>1 DEF StepsDone
<1>9. CASE SkipPost \/ BeginPost \/ EndPost \/ PostsDone
  BY <1>9, <1>o, <1>p DEF SkipPost, AtPost, BeginPost, EndPost, PostsDone, resultVars
<1>10. CASE Finalize \/ Release \/ Return \/ Write \/ Publish \/ Exit
  BY <1>10, <1>o, <1>p DEF Finalize, Release, Return, Write, Publish, Exit, controlVars, resultVars, ghostVars
<1>11. CASE Signal \/ Deadline \/ PostsExpire \/ Killed \/ Over
  <2>1. UNCHANGED <<errors, mishaps, preFailure>> /\ (phase' = "over" \/ UNCHANGED <<phase, at>>)
    BY <1>11 DEF Signal, Deadline, PostsExpire, Killed, Over, controlVars, resultVars, ghostVars, vars
  <2>2. phase' # "over" => Owed' = Owed
    BY <2>1 DEF Owed
  <2> QED
    BY <2>1, <2>2, <1>p
<1> QED
  BY <1>1, <1>2, <1>3, <1>4, <1>5, <1>6, <1>7, <1>8, <1>9, <1>10, <1>11 DEF Next, Advance

-----------------------------------------------------------------------------
(* The verdict.                                                            *)

\* Errors are joined: none is lost, and what joins one takes the tolerance away.
LEMMA JoinFacts ==
    ASSUME NEW kinds, Mishap(kinds) \/ Join(kinds)
    PROVE  errors' = errors \cup kinds /\ (tolerated' => tolerated /\ kinds = {})
<1>1. Join(kinds)
  BY DEF Mishap
<1>2. errors' = errors \cup kinds
  BY <1>1 DEF Join
<1>3. tolerated' => tolerated /\ kinds = {}
  BY <1>1, Zenon DEF Join
<1> QED
  BY <1>2, <1>3

ErrorsJoined == errors \subseteq errors' /\ (tolerated' => tolerated /\ errors' = errors)

LEMMA JoinKeeps ==
    /\ \A kinds : Mishap(kinds) \/ Join(kinds) => ErrorsJoined /\ errors' = errors \cup kinds
    /\ NoMishap => ErrorsJoined /\ errors' = errors
BY JoinFacts DEF NoMishap, ErrorsJoined

LEMMA ConclusionStep ==
    ASSUME TypeOK, AccountInv, ConclusionInv, Next
    PROVE  ConclusionInv'
<1> USE NoneAssumption DEF ConclusionInv, Enter, GoOn, Unprepared, Running
<1>0. UNCHANGED <<errors, tolerated>> => ErrorsJoined
  BY DEF ErrorsJoined
<1>j. ErrorsJoined => (tolerated' => tolerated /\ errors' = errors) /\ (errors # {} => errors' # {})
  BY DEF ErrorsJoined
<1>1. CASE StartFails \/ Start \/ Hydrate
  <2>1. ErrorsJoined
    BY <1>1, <1>0, JoinKeeps DEF StartFails, Start, Hydrate, resultVars
  <2>2. phase' = "write" => errors' # {}
    BY <1>1, JoinKeeps DEF StartFails, Start, Hydrate
  <2> QED
    BY <1>1, <1>j, <2>1, <2>2 DEF StartFails, Start, Hydrate, resultVars
<1>2. CASE Prepare
  <2>1. ErrorsJoined
    BY <1>2, JoinKeeps DEF Prepare
  <2>2. conclusion' # "skipped" /\ phase' = "cleanup" => errors' # {}
    BY <1>2, JoinKeeps DEF Prepare
  <2> QED
    BY <1>2, <1>j, <2>1, <2>2 DEF Prepare
<1>3. CASE Acquire \/ Prepared
  BY <1>3, <1>j, JoinKeeps DEF Acquire, Prepared
<1>4. CASE AcquireFails
  <2>1. errors = {}
    BY <1>4 DEF AcquireFails, AccountInv
  <2>2. PICK kind \in {"setup", "workflow", "hard"} :
          /\ errors' = errors \cup {kind}
          /\ \/ UNCHANGED <<tolerated, conclusion>>
             \/ /\ conclusion' = IF cancelled THEN "cancelled"
                                 ELSE IF SetupTolerated(kind) THEN "success" ELSE "failure"
                /\ tolerated' = (~cancelled /\ SetupTolerated(kind))
    BY <1>4, Zenon DEF AcquireFails
  <2>3. tolerated' => ~cancelled /\ SetupTolerated(kind) /\ conclusion' = "success"
    BY <1>4, <2>2, Zenon DEF AcquireFails
  <2> QED
    BY <1>4, <2>1, <2>2, <2>3 DEF AcquireFails, SetupTolerated, Unforgivable
<1>5. CASE PassPre \/ RejectPre \/ PreCannotStart \/ BeginPre \/ EndPre \/ PresDone
  <2>1. ErrorsJoined
    BY <1>5, <1>0, JoinKeeps DEF PassPre, RejectPre, PreCannotStart, BeginPre, EndPre, PresDone, resultVars
  <2> QED
    BY <1>5, <1>j, <2>1 DEF PassPre, RejectPre, PreCannotStart, BeginPre, EndPre, PresDone, resultVars
<1>6. CASE CommitPreFailure \/ SkipStep \/ RejectStep \/ BeginStep \/ EndStep \/ StepsDone
  <2>1. ErrorsJoined
    BY <1>6, <1>0, JoinKeeps DEF CommitPreFailure, SkipStep, RejectStep, FailStep, BeginStep, EndStep, StepsDone, resultVars
  <2> QED
    BY <1>6, <1>j, <2>1 DEF CommitPreFailure, AtStep, SkipStep, RejectStep, BeginStep, EndStep, StepsDone, resultVars
<1>7. CASE SkipPost \/ BeginPost \/ EndPost \/ PostsDone
  <2>1. ErrorsJoined
    BY <1>7, <1>0, JoinKeeps DEF SkipPost, BeginPost, EndPost, PostsDone, resultVars
  <2> QED
    BY <1>7, <1>j, <2>1 DEF SkipPost, AtPost, BeginPost, EndPost, PostsDone, resultVars
<1>8. CASE Finalize
  <2>1. Tolerable => continueOnError /\ errors \cap Unforgivable = {}
    BY <1>8 DEF Finalize, Tolerable, AccountInv, Unforgivable, Errors
  <2>2. CASE Mishap({"output"}) /\ UNCHANGED conclusion
    BY <1>8, <1>j, <2>2, JoinKeeps DEF Finalize
  <2>3. CASE conclusion' = Concluded /\ tolerated' = (~cancelled /\ errors # {} /\ Tolerable) /\ UNCHANGED errors
    <3>1. tolerated' => ~cancelled /\ errors # {} /\ Tolerable
      BY <2>3, Zenon
    <3> QED
      BY <1>8, <2>1, <2>3, <3>1 DEF Finalize, Concluded
  <2> QED
    BY <1>8, <2>2, <2>3 DEF Finalize
<1>9. CASE Release \/ Return
  <2>1. ErrorsJoined
    BY <1>9, JoinKeeps DEF Release, Return
  <2>2. Return => UNCHANGED <<errors, tolerated>>
    BY DEF Return, NoMishap
  <2> QED
    BY <1>9, <1>j, <2>1, <2>2 DEF Release, Return, Corrected, controlVars
<1>10. CASE Write
  <2>1. CASE conclusion' = (IF conclusion = none THEN Terminal ELSE conclusion) /\ NoMishap
    <3>1. UNCHANGED <<errors, tolerated>>
      BY <2>1 DEF NoMishap
    <3> QED
      BY <1>10, <2>1, <3>1 DEF Write, Terminal
  <2>2. CASE conclusion' = Terminal /\ Mishap({"write"})
    <3>1. errors' # {} /\ ~tolerated'
      BY <2>2, JoinFacts
    <3> QED
      BY <1>10, <2>2, <3>1 DEF Write, Terminal
  <2> QED
    BY <1>10, <2>1, <2>2 DEF Write
<1>12. CASE Publish \/ Exit
  <2>1. ErrorsJoined
    BY <1>12, <1>0, JoinKeeps DEF Publish, Exit, resultVars
  <2> QED
    BY <1>12, <1>j, <2>1 DEF Publish, Exit, resultVars
<1>11. CASE Signal \/ Deadline \/ PostsExpire \/ Killed \/ Over
  BY <1>11 DEF Signal, Deadline, PostsExpire, Killed, Over, controlVars, resultVars, vars
<1> QED
  BY <1>1, <1>2, <1>3, <1>4, <1>5, <1>6, <1>7, <1>8, <1>9, <1>10, <1>11, <1>12 DEF Next, Advance

LEMMA ReceiptStep ==
    ASSUME TypeOK, ControlInv, ConclusionInv, ReceiptInv, Next
    PROVE  ReceiptInv'
<1> USE NoneAssumption DEF ReceiptInv, Enter, GoOn
<1>1. CASE Publish
  <2>1. CASE receipt' = conclusion /\ NoMishap
    <3>1. UNCHANGED <<errors, tolerated>>
      BY <2>1 DEF NoMishap
    <3> QED
      BY <1>1, <2>1, <3>1 DEF Publish, ConclusionInv
  <2>2. CASE Mishap({"publish"})
    <3>1. "publish" \in errors' /\ ~tolerated'
      BY <2>2, JoinFacts
    <3> QED
      BY <3>1
  <2> QED
    BY <1>1, <2>1, <2>2 DEF Publish
<1>2. CASE Signal \/ Deadline \/ PostsExpire \/ Killed \/ Over
  BY <1>2 DEF Signal, Deadline, PostsExpire, Killed, Over, controlVars, resultVars, outputVars, vars
<1>3. CASE ~Publish /\ (Advance \/ EndPre \/ EndStep \/ EndPost)
  <2>1. phase' # "exit"
    <3>1. CASE StartFails \/ Start \/ Hydrate \/ Prepare \/ Acquire \/ AcquireFails \/ Prepared
      BY <3>1 DEF StartFails, Start, Hydrate, Prepare, Acquire, AcquireFails, Prepared
    <3>2. CASE PassPre \/ RejectPre \/ PreCannotStart \/ BeginPre \/ EndPre \/ PresDone
      BY <3>2 DEF PassPre, RejectPre, PreCannotStart, BeginPre, EndPre, PresDone
    <3>3. CASE CommitPreFailure \/ SkipStep \/ RejectStep \/ BeginStep \/ EndStep \/ StepsDone
      BY <3>3 DEF CommitPreFailure, AtStep, SkipStep, RejectStep, BeginStep, EndStep, StepsDone
    <3>4. CASE SkipPost \/ BeginPost \/ EndPost \/ PostsDone \/ Finalize
      BY <3>4 DEF SkipPost, AtPost, BeginPost, EndPost, PostsDone, Finalize
    <3>5. CASE Release \/ Return \/ Write \/ Exit
      BY <3>5 DEF Release, Return, Write, Exit, controlVars
    <3> QED
      BY <1>3, <3>1, <3>2, <3>3, <3>4, <3>5 DEF Advance
  <2> QED
    BY <2>1
<1> QED
  BY <1>1, <1>2, <1>3 DEF Next

LEMMA VerdictStep ==
    ASSUME RunInv, Next, ControlInv'
    PROVE  VerdictHonest'
<1> USE NoneAssumption DEF RunInv, Enter
<1>1. CASE StartFails
  <2>1. receipt' = none /\ exit' = "1" /\ mishaps' = {"start"}
    BY <1>1 DEF StartFails, ControlInv
  <2> QED
    BY <2>1 DEF VerdictHonest
<1>2. CASE Publish
  <2>0. Owed = {}
    BY <1>2 DEF Publish, Owed
  <2>1. mishaps \subseteq errors /\ exit' = none /\ UNCHANGED continueOnError /\ phase = "publish"
    BY <1>2, <2>0 DEF Publish, AccountInv, ControlInv
  <2>2. receipt' = "success" => conclusion = "success"
    BY <1>2 DEF Publish, Fallback
  <2>3. conclusion = "success" => errors = {} \/ (continueOnError /\ errors \cap Unforgivable = {})
    BY <2>1 DEF ConclusionInv
  <2>4. mishaps' \subseteq mishaps \cup {"publish"}
    BY <1>2 DEF Publish, NoMishap, Mishap
  <2>5. receipt' = "success" =>
          mishaps' \ {"publish"} = {} \/ (continueOnError' /\ (mishaps' \ {"publish"}) \cap Unforgivable = {})
    BY <2>1, <2>2, <2>3, <2>4
  <2> QED
    BY <2>1, <2>5 DEF VerdictHonest
<1>3. CASE Exit
  <2>0. Owed = {}
    BY <1>3 DEF Exit, Owed
  <2>1. mishaps = errors /\ exit' = Status /\ UNCHANGED <<receipt, mishaps, errors, tolerated, continueOnError>>
    BY <1>3, <2>0 DEF Exit, AccountInv, resultVars, ghostVars
  <2>2. receipt = none => "publish" \in mishaps
    BY <1>3, <2>1 DEF Exit, ReceiptInv
  <2>3. exit' = "0" <=> mishaps = {}
    BY <2>1 DEF Status
  <2>4. exit' = "78" => continueOnError /\ mishaps \cap Unforgivable = {}
    BY <2>1 DEF Status, ConclusionInv
  <2> QED
    BY <2>1, <2>2, <2>3, <2>4 DEF VerdictHonest
<1>4. CASE Signal \/ Deadline \/ PostsExpire \/ Over
  <2>1. UNCHANGED <<receipt, exit, mishaps, continueOnError>>
    BY <1>4 DEF Signal, Deadline, PostsExpire, Over, outputVars, ghostVars, vars
  <2> QED
    BY <2>1 DEF VerdictHonest
<1>5. CASE Killed
  <2>1. UNCHANGED <<receipt, mishaps, continueOnError>> /\ exit' = "killed"
    BY <1>5 DEF Killed, ghostVars
  <2> QED
    BY <2>1 DEF VerdictHonest
<1>6. CASE phase' \notin {"exit", "over"}
  BY <1>6 DEF ControlInv, VerdictHonest
<1>7. CASE ~(StartFails \/ Publish \/ Exit) /\ (Advance \/ EndPre \/ EndStep \/ EndPost)
  <2>1. CASE Start \/ Hydrate \/ Prepare \/ Acquire \/ AcquireFails \/ Prepared
    BY <2>1, <1>6 DEF Start, Hydrate, Prepare, Acquire, GoOn, AcquireFails, Prepared
  <2>2. CASE PassPre \/ RejectPre \/ PreCannotStart \/ BeginPre \/ EndPre \/ PresDone
    BY <2>2, <1>6 DEF PassPre, RejectPre, PreCannotStart, BeginPre, EndPre, PresDone, GoOn
  <2>3. CASE CommitPreFailure \/ SkipStep \/ RejectStep \/ BeginStep \/ EndStep \/ StepsDone
    BY <2>3, <1>6 DEF CommitPreFailure, AtStep, SkipStep, RejectStep, BeginStep, EndStep, StepsDone, GoOn
  <2>4. CASE SkipPost \/ BeginPost \/ EndPost \/ PostsDone \/ Finalize
    BY <2>4, <1>6 DEF SkipPost, AtPost, BeginPost, EndPost, PostsDone, Finalize, GoOn
  <2>5. CASE Release \/ Return \/ Write
    BY <2>5, <1>6 DEF Release, Return, Write, controlVars
  <2> QED
    BY <1>7, <2>1, <2>2, <2>3, <2>4, <2>5 DEF Advance
<1> QED
  BY <1>1, <1>2, <1>3, <1>4, <1>5, <1>7 DEF Next

-----------------------------------------------------------------------------
LEMMA RunInvInit == Init => RunInv
<1> SUFFICES ASSUME Init PROVE RunInv
  OBVIOUS
<1> USE NoneAssumption DEF Init
<1>1. TypeOK
  <2>1. Flags
    BY Zenon DEF Flags
  <2>2. Values /\ at \in Nat \ {0}
    BY DEF Values, Phases, Conclusions
  <2> QED
    BY <2>1, <2>2 DEF TypeOK, Flags, Values
<1>2. ControlInv /\ PreInv /\ ConclusionInv /\ ReceiptInv /\ HeldInv
  BY DEF ControlInv, PreInv, ConclusionInv, ReceiptInv, HeldInv, Unprepared, Running
<1>3. AccountInv
  BY DEF AccountInv, Owed, Unprepared, Running
<1>4. VerdictHonest
  BY DEF VerdictHonest
<1> QED
  BY <1>1, <1>2, <1>3, <1>4 DEF RunInv

LEMMA RunInvStep == RunInv /\ [Next]_vars => RunInv'
<1> SUFFICES ASSUME RunInv, [Next]_vars PROVE RunInv'
  OBVIOUS
<1>1. CASE Next
  BY <1>1, TypeStep, ControlStep, PreStep, HeldStep, AccountStep, ConclusionStep, ReceiptStep, VerdictStep DEF RunInv
<1>2. CASE UNCHANGED vars
  <2>1. UNCHANGED <<phase, at, busy, signalled, cancelled, postOver, continueOnError, errors, tolerated, conclusion,
                    preFailure, posts, held, receipt, exit, trace, mishaps>>
    BY <1>2 DEF vars, controlVars, contextVars, resultVars, outputVars, ghostVars
  <2> QED
    BY <2>1 DEF RunInv, TypeOK, ControlInv, PreInv, AccountInv, Owed, ConclusionInv, ReceiptInv, HeldInv, VerdictHonest
<1> QED
  BY <1>1, <1>2

\* The inductive invariant of an attempt.
THEOREM RunInvariant == Spec => []RunInv
BY RunInvInit, RunInvStep, PTL DEF Spec

\* A receipt says success only if nothing went wrong or continue-on-error
\* forgives all of it, and the exit status tells exactly what happened, however
\* signals, timeouts and a kill fall between the phases (run-job, jobRun.run).
THEOREM VerdictIsHonest == Spec => []VerdictHonest
BY RunInvariant, PTL DEF RunInv

\* While a process of a step, pre or post runs, all that prepare acquired is
\* held, and nothing is when the result is written.
THEOREM ResourcesHeld == Spec => []ResourcesOutliveProcesses
<1>1. RunInv => ResourcesOutliveProcesses
  BY DEF RunInv, ControlInv, HeldInv, ResourcesOutliveProcesses, Running
<1> QED
  BY RunInvariant, <1>1, PTL

-----------------------------------------------------------------------------
\* To the build, an attempt does what JobContract says: one receipt at most,
\* before the exit, and an exit status that goes with it.
THEOREM AttemptImplementsContract == Spec => ImplementsContract
<1>1. Init => Contract!Init
  BY DEF Init, Contract!Init
<1>2. RunInv /\ [Next]_vars => [Contract!Next]_<<receipt, exit>>
  <2> SUFFICES ASSUME RunInv, Next, ~UNCHANGED <<receipt, exit>>
               PROVE  Contract!Next
    BY DEF vars, outputVars
  <2> USE NoneAssumption DEF RunInv
  <2>1. StartFails \/ Publish \/ Exit \/ Killed
    <3>1. CASE Start \/ Hydrate \/ Prepare \/ Acquire \/ AcquireFails \/ Prepared
      BY <3>1 DEF Start, Hydrate, Prepare, Acquire, AcquireFails, Prepared, outputVars
    <3>2. CASE PassPre \/ RejectPre \/ PreCannotStart \/ BeginPre \/ EndPre \/ PresDone
      BY <3>2 DEF PassPre, RejectPre, PreCannotStart, BeginPre, EndPre, PresDone, outputVars
    <3>3. CASE CommitPreFailure \/ SkipStep \/ RejectStep \/ BeginStep \/ EndStep \/ StepsDone
      BY <3>3 DEF CommitPreFailure, SkipStep, RejectStep, BeginStep, EndStep, StepsDone, outputVars
    <3>4. CASE SkipPost \/ BeginPost \/ EndPost \/ PostsDone \/ Finalize
      BY <3>4 DEF SkipPost, BeginPost, EndPost, PostsDone, Finalize, outputVars
    <3>5. CASE Release \/ Return \/ Write \/ Signal \/ Deadline \/ PostsExpire \/ Over
      BY <3>5 DEF Release, Return, Write, Signal, Deadline, PostsExpire, Over, outputVars, vars
    <3> QED
      BY <3>1, <3>2, <3>3, <3>4, <3>5 DEF Next, Advance
  <2>2. phase # "over" /\ exit = none
    BY <2>1 DEF StartFails, Publish, Exit, Killed, ControlInv
  <2>3. CASE Publish
    <3>1. receipt = none /\ exit' = exit /\ receipt' # none
      BY <2>3 DEF Publish, ControlInv
    <3>2. receipt' \in Contract!Results
      BY <2>3, <3>1 DEF Publish, Fallback, ConclusionInv, TypeOK, Conclusions, Contract!Results
    <3> QED
      BY <2>2, <3>1, <3>2 DEF Contract!Next, Contract!Publish
  <2>4. CASE StartFails \/ Killed
    <3>1. receipt' = receipt /\ exit' \in {"1", "killed"} /\ (exit' = "1" => receipt = none)
      BY <2>4 DEF StartFails, Killed, ControlInv
    <3>2. exit' \in Contract!StatusesWith(receipt)
      BY <3>1 DEF Contract!StatusesWith, TypeOK, Conclusions
    <3> QED
      BY <2>2, <3>1, <3>2 DEF Contract!Next, Contract!Exit
  <2>5. CASE Exit
    <3>1. receipt' = receipt /\ exit' = Status /\ phase = "exit"
      BY <2>5 DEF Exit
    <3>2. /\ receipt \in {none, "failure"} => Status = "1"
          /\ receipt # "success" => Status \in {"0", "1"}
          /\ Status \in {"0", "1", "78"}
      BY <3>1 DEF Status, ReceiptInv
    <3>3. exit' \in Contract!StatusesWith(receipt)
      BY <3>1, <3>2 DEF Contract!StatusesWith, TypeOK, Conclusions
    <3> QED
      BY <2>2, <3>1, <3>3 DEF Contract!Next, Contract!Exit
  <2> QED
    BY <2>1, <2>3, <2>4, <2>5
<1> QED
  BY RunInvariant, <1>1, <1>2, PTL DEF Spec, ImplementsContract, Contract!Spec

-----------------------------------------------------------------------------
(* The life cycle of actions.                                              *)

\* What has been started where the chain is.
TraceInv ==
    /\ phase \in Unprepared => trace = <<>> /\ posts = <<>>
    /\ phase = "pre" => \A i \in 1..Len(trace) :
          trace[i][1] = "pre" /\ (trace[i][2] < at \/ (trace[i][2] = at /\ busy))
    /\ phase = "steps" => \A i \in 1..Len(trace) :
          /\ trace[i][1] \in {"pre", "main"}
          /\ trace[i][1] = "main" => trace[i][2] < at \/ (trace[i][2] = at /\ busy)
    /\ phase = "posts" => \A i \in 1..Len(trace) : trace[i][1] = "post" =>
          \E k \in 1..Len(posts) :
             (k < at \/ (k = at /\ busy)) /\ trace[i][2] = posts[Len(posts) + 1 - k]

\* A post is registered when its action starts.
RegisteredInv ==
    \A i \in 1..Len(posts) : \E j \in 1..Len(trace) :
        trace[j][1] \in {"pre", "main"} /\ trace[j][2] = posts[i]

\* The parts of LifecyclesPaired.
OnceInv == IsInjective(trace) /\ IsInjective(posts)

PostOrderInv ==
    \A i, j \in 1..Len(trace), k, l \in 1..Len(posts) :
        /\ i < j /\ trace[i][1] = "post" /\ trace[j][1] = "post"
        /\ posts[k] = trace[i][2] /\ posts[l] = trace[j][2]
        => k > l

StartedInv ==
    \A i \in 1..Len(trace) : trace[i][1] = "post" =>
        /\ \E j \in 1..Len(trace) :
              trace[j][1] \in {"pre", "main"} /\ j < i /\ trace[j][2] = trace[i][2]
        /\ \E k \in 1..Len(posts) : posts[k] = trace[i][2]

SoundMainInv ==
    \A i \in 1..Len(trace) : trace[i][1] = "main" => preFailure[trace[i][2]] = none

PairedInv ==
    \A i \in 1..Len(trace) :
        trace[i][1] \in {"pre", "main"} /\ Kind[trace[i][2]] # "run" =>
            \E k \in 1..Len(posts) : posts[k] = trace[i][2]

LifeInv ==
    TraceInv /\ RegisteredInv /\ OnceInv /\ PostOrderInv /\ StartedInv /\ SoundMainInv /\ PairedInv

\* Actions that start nothing.
LEMMA QuietStep ==
    ASSUME RunInv, LifeInv, Next, ~BeginPre, ~BeginStep, ~BeginPost
    PROVE  LifeInv'
<1> USE DEF RunInv
<1>t. at \in Nat /\ NSteps \in Nat /\ trace \in Seq({"pre", "main", "post"} \X Steps) /\ Steps = 1..NSteps
  BY StepsAssumption DEF TypeOK, Steps
<1>1. UNCHANGED <<trace, posts>> /\ (UNCHANGED preFailure \/ phase = "pre")
  <2>1. CASE StartFails \/ Start \/ Hydrate \/ Prepare \/ Acquire \/ AcquireFails \/ Prepared
    BY <2>1 DEF StartFails, Start, Hydrate, Prepare, Acquire, AcquireFails, Prepared, ghostVars
  <2>2. CASE PassPre \/ RejectPre \/ PreCannotStart \/ EndPre \/ PresDone
    BY <2>2 DEF PassPre, RejectPre, PreCannotStart, EndPre, PresDone
  <2>3. CASE CommitPreFailure \/ SkipStep \/ RejectStep \/ EndStep \/ StepsDone
    BY <2>3 DEF CommitPreFailure, SkipStep, RejectStep, EndStep, StepsDone, ghostVars
  <2>4. CASE SkipPost \/ EndPost \/ PostsDone \/ Finalize
    BY <2>4 DEF SkipPost, EndPost, PostsDone, Finalize
  <2>5. CASE Release \/ Return \/ Write \/ Publish \/ Exit
    BY <2>5 DEF Release, Return, Write, Publish, Exit, ghostVars
  <2>6. CASE Signal \/ Deadline \/ PostsExpire \/ Killed \/ Over
    BY <2>6 DEF Signal, Deadline, PostsExpire, Killed, Over, ghostVars, vars
  <2> QED
    BY <2>1, <2>2, <2>3, <2>4, <2>5, <2>6 DEF Next, Advance
<1>2. TraceInv'
  <2> USE <1>1 DEF LifeInv, TraceInv, Enter, GoOn, Unprepared
  <2>1. CASE StartFails \/ Start \/ Hydrate \/ Prepare \/ Acquire \/ AcquireFails \/ Prepared
    BY <2>1 DEF StartFails, Start, Hydrate, Prepare, Acquire, AcquireFails, Prepared
  <2>2. CASE PassPre \/ PreCannotStart \/ EndPre
    <3>1. CASE PassPre
      BY <3>1, <1>t DEF PassPre
    <3>2. CASE PreCannotStart
      BY <3>2, <1>t DEF PreCannotStart
    <3>3. CASE EndPre
      BY <3>3, <1>t DEF EndPre
    <3> QED
      BY <2>2, <3>1, <3>2, <3>3
  <2>3. CASE RejectPre \/ PresDone
    BY <2>3 DEF RejectPre, PresDone
  <2>4. CASE CommitPreFailure \/ SkipStep \/ RejectStep \/ EndStep
    <3>1. CASE CommitPreFailure
      BY <3>1, <1>t DEF CommitPreFailure, AtStep
    <3>2. CASE SkipStep
      BY <3>2, <1>t DEF SkipStep, AtStep
    <3>3. CASE RejectStep
      BY <3>3, <1>t DEF RejectStep, AtStep
    <3>4. CASE EndStep
      BY <3>4, <1>t DEF EndStep, AtStep
    <3> QED
      BY <2>4, <3>1, <3>2, <3>3, <3>4
  <2>5. CASE StepsDone
    BY <2>5 DEF StepsDone
  <2>6. CASE SkipPost \/ EndPost
    <3>1. CASE SkipPost
      BY <3>1, <1>t DEF SkipPost, AtPost
    <3>2. CASE EndPost
      BY <3>2, <1>t DEF EndPost, AtPost
    <3> QED
      BY <2>6, <3>1, <3>2
  <2>7. CASE PostsDone \/ Finalize \/ Release \/ Return \/ Write \/ Publish \/ Exit
    BY <2>7 DEF PostsDone, Finalize, Release, Return, Write, Publish, Exit, controlVars
  <2>8. CASE Signal \/ Deadline \/ PostsExpire \/ Killed \/ Over
    BY <2>8 DEF Signal, Deadline, PostsExpire, Killed, Over, controlVars, vars
  <2> QED
    BY <2>1, <2>2, <2>3, <2>4, <2>5, <2>6, <2>7, <2>8 DEF Next, Advance
<1>3. SoundMainInv'
  BY <1>1 DEF LifeInv, SoundMainInv, TraceInv
<1>4. RegisteredInv' /\ StartedInv' /\ PairedInv'
  BY <1>1, ZenonT(40) DEF LifeInv, RegisteredInv, StartedInv, PairedInv
<1>5. OnceInv' /\ PostOrderInv'
  BY <1>1 DEF LifeInv, OnceInv, IsInjective, PostOrderInv
<1> QED
  BY <1>2, <1>3, <1>4, <1>5 DEF LifeInv

\* Something new at the end of a sequence without repetition.
LEMMA InjectiveAppend ==
    ASSUME NEW S, NEW q \in Seq(S), NEW e \in S, IsInjective(q), \A i \in 1..Len(q) : q[i] # e
    PROVE  IsInjective(Append(q, e))
<1>1. /\ DOMAIN q = 1..Len(q) /\ Len(q) \in Nat
      /\ DOMAIN Append(q, e) = 1..(Len(q) + 1)
      /\ \A i \in 1..Len(q) : Append(q, e)[i] = q[i]
      /\ Append(q, e)[Len(q) + 1] = e
  BY AppendProperties, LenProperties
<1> QED
  BY <1>1 DEF IsInjective

\* A pre or a main starts, before any post, and its post is registered.
LEMMA StartKeeps ==
    ASSUME TypeOK, RegisteredInv, OnceInv, PairedInv,
           NEW kind \in {"pre", "main"}, NEW s \in Steps,
           \A i \in 1..Len(trace) : trace[i] # <<kind, s>> /\ trace[i][1] # "post",
           trace' = Append(trace, <<kind, s>>),
           \/ UNCHANGED posts /\ (Kind[s] # "run" => Registered(s))
           \/ posts' = Append(posts, s) /\ ~Registered(s)
    PROVE  RegisteredInv' /\ OnceInv' /\ PostOrderInv' /\ StartedInv' /\ PairedInv'
<1>t. /\ trace \in Seq({"pre", "main", "post"} \X Steps) /\ posts \in Seq(Steps)
      /\ Len(trace) \in Nat /\ Len(posts) \in Nat /\ DOMAIN posts = 1..Len(posts)
      /\ <<kind, s>> \in {"pre", "main", "post"} \X Steps
  BY DEF TypeOK
<1>1. /\ Len(trace') = Len(trace) + 1
      /\ \A i \in 1..Len(trace) : trace'[i] = trace[i]
      /\ trace'[Len(trace) + 1] = <<kind, s>>
  BY <1>t, AppendProperties
<1>2. \/ UNCHANGED posts
      \/ /\ Len(posts') = Len(posts) + 1 /\ posts'[Len(posts) + 1] = s
         /\ \A i \in 1..Len(posts) : posts'[i] = posts[i]
  BY <1>t, AppendProperties
<1>3. RegisteredInv'
  <2> SUFFICES ASSUME NEW i \in 1..Len(posts')
               PROVE  \E j \in 1..Len(trace') : trace'[j][1] \in {"pre", "main"} /\ trace'[j][2] = posts'[i]
    BY DEF RegisteredInv
  <2>1. CASE i \in 1..Len(posts) /\ posts'[i] = posts[i]
    <3>1. PICK j \in 1..Len(trace) : trace[j][1] \in {"pre", "main"} /\ trace[j][2] = posts[i]
      BY <2>1 DEF RegisteredInv
    <3> QED
      BY <1>t, <1>1, <2>1, <3>1
  <2>2. CASE posts'[i] = s
    BY <1>t, <1>1, <2>2
  <2> QED
    BY <1>t, <1>2, <2>1, <2>2
<1>4. OnceInv'
  <2>1. IsInjective(trace')
    BY <1>t, InjectiveAppend DEF OnceInv
  <2>2. ~Registered(s) => \A i \in 1..Len(posts) : posts[i] # s
    BY <1>t DEF Registered
  <2>3. IsInjective(posts')
    BY <1>t, <2>2, InjectiveAppend DEF OnceInv
  <2> QED
    BY <2>1, <2>3 DEF OnceInv
<1>5. \A i \in 1..Len(trace') : trace'[i][1] # "post"
  BY <1>t, <1>1
<1>6. PostOrderInv' /\ StartedInv'
  BY <1>5 DEF PostOrderInv, StartedInv
<1>7. PairedInv'
  <2> SUFFICES ASSUME NEW i \in 1..Len(trace'), Kind[trace'[i][2]] # "run"
               PROVE  \E k \in 1..Len(posts') : posts'[k] = trace'[i][2]
    BY DEF PairedInv
  <2>1. CASE i = Len(trace) + 1
    BY <2>1, <1>t, <1>1, <1>2 DEF Registered
  <2>2. CASE i \in 1..Len(trace)
    <3>1. trace[i][1] \in {"pre", "main"} /\ trace'[i] = trace[i]
      BY <2>2, <1>t, <1>1
    <3>2. PICK k \in 1..Len(posts) : posts[k] = trace[i][2]
      BY <2>2, <3>1 DEF PairedInv
    <3> QED
      BY <1>t, <1>2, <3>1, <3>2
  <2> QED
    BY <1>t, <1>1, <2>1, <2>2
<1> QED
  BY <1>3, <1>4, <1>6, <1>7

LEMMA BeginPreStep ==
    ASSUME RunInv, LifeInv, BeginPre
    PROVE  LifeInv'
<1> USE DEF RunInv, LifeInv
<1>t. /\ at \in 1..NSteps /\ NSteps \in Nat /\ Steps = 1..NSteps /\ phase = "pre" /\ ~busy
      /\ trace \in Seq({"pre", "main", "post"} \X Steps) /\ Len(trace) \in Nat
      /\ <<"pre", at>> \in {"pre", "main", "post"} \X Steps
  BY StepsAssumption DEF TypeOK, Steps, BeginPre
<1>1. \A i \in 1..Len(trace) : trace[i][1] = "pre" /\ trace[i][2] < at
  BY <1>t DEF TraceInv
<1>2. \A i \in 1..Len(trace) : trace[i] # <<"pre", at>> /\ trace[i][1] # "post"
  BY <1>t, <1>1
<1>3. RegisteredInv' /\ OnceInv' /\ PostOrderInv' /\ StartedInv' /\ PairedInv'
  BY <1>t, <1>2, StartKeeps, Zenon DEF BeginPre, Register
<1>4. /\ Len(trace') = Len(trace) + 1 /\ trace'[Len(trace) + 1] = <<"pre", at>>
      /\ \A i \in 1..Len(trace) : trace'[i] = trace[i]
      /\ phase' = "pre" /\ at' = at /\ busy'
  BY <1>t, AppendProperties DEF BeginPre
<1>5. \A i \in 1..Len(trace') :
        trace'[i][1] = "pre" /\ (trace'[i][2] < at \/ trace'[i][2] = at)
  <2> TAKE i \in 1..Len(trace')
  <2>1. CASE i \in 1..Len(trace)
    BY <2>1, <1>1, <1>4
  <2>2. CASE i = Len(trace) + 1
    BY <2>2, <1>4
  <2> QED
    BY <1>t, <1>4, <2>1, <2>2
<1>6. TraceInv' /\ SoundMainInv'
  BY <1>4, <1>5 DEF TraceInv, SoundMainInv, Unprepared
<1> QED
  BY <1>3, <1>6

LEMMA BeginStepStep ==
    ASSUME RunInv, LifeInv, BeginStep
    PROVE  LifeInv'
<1> USE DEF RunInv, LifeInv
<1>t. /\ at \in 1..NSteps /\ NSteps \in Nat /\ Steps = 1..NSteps /\ phase = "steps" /\ ~busy
      /\ trace \in Seq({"pre", "main", "post"} \X Steps) /\ Len(trace) \in Nat
      /\ <<"main", at>> \in {"pre", "main", "post"} \X Steps
  BY StepsAssumption DEF TypeOK, Steps, BeginStep, AtStep
<1>1. \A i \in 1..Len(trace) :
        trace[i][1] \in {"pre", "main"} /\ (trace[i][1] = "main" => trace[i][2] < at)
  BY <1>t DEF TraceInv
<1>2. \A i \in 1..Len(trace) : trace[i] # <<"main", at>> /\ trace[i][1] # "post"
  BY <1>t, <1>1
<1>3. RegisteredInv' /\ OnceInv' /\ PostOrderInv' /\ StartedInv' /\ PairedInv'
  BY <1>t, <1>2, StartKeeps, Zenon DEF BeginStep, Register
<1>4. /\ Len(trace') = Len(trace) + 1 /\ trace'[Len(trace) + 1] = <<"main", at>>
      /\ \A i \in 1..Len(trace) : trace'[i] = trace[i]
      /\ phase' = "steps" /\ at' = at /\ busy' /\ preFailure' = preFailure /\ preFailure[at] = none
  BY <1>t, AppendProperties DEF BeginStep
<1>5. TraceInv'
  BY <1>t, <1>1, <1>4 DEF TraceInv, Unprepared
<1>6. SoundMainInv'
  BY <1>t, <1>1, <1>4 DEF SoundMainInv
<1> QED
  BY <1>3, <1>5, <1>6

LEMMA BeginPostStep ==
    ASSUME RunInv, LifeInv, BeginPost
    PROVE  LifeInv'
<1> USE DEF RunInv, LifeInv
<1> DEFINE n == Len(trace)  m == Len(posts)
<1>t. /\ n \in Nat /\ m \in Nat /\ at \in 1..m /\ phase = "posts" /\ ~busy
      /\ trace \in Seq({"pre", "main", "post"} \X Steps) /\ posts \in Seq(Steps)
      /\ DOMAIN posts = 1..m /\ m + 1 - at \in 1..m
  BY DEF TypeOK, BeginPost, AtPost
<1>u. Post = posts[m + 1 - at] /\ <<"post", Post>> \in {"pre", "main", "post"} \X Steps
  BY <1>t, ElementOfSeq DEF Post
<1>1. \A i \in 1..n : trace[i][1] = "post" => \E k \in 1..m : k < at /\ trace[i][2] = posts[m + 1 - k]
  BY <1>t DEF TraceInv
<1>i. \A k, l \in 1..m : posts[k] = posts[l] => k = l
  BY <1>t DEF OnceInv, IsInjective
<1>2. /\ Len(trace') = n + 1 /\ trace'[n + 1] = <<"post", Post>>
      /\ \A i \in 1..n : trace'[i] = trace[i]
      /\ phase' = "posts" /\ at' = at /\ busy' /\ UNCHANGED <<posts, preFailure>>
  BY <1>t, <1>u, AppendProperties DEF BeginPost
<1> HIDE DEF n, m
<1>3. TraceInv'
  <2> SUFFICES ASSUME NEW i \in 1..(n + 1), trace'[i][1] = "post"
               PROVE  \E k \in 1..m : (k < at \/ k = at) /\ trace'[i][2] = posts[m + 1 - k]
    BY <1>2 DEF TraceInv, Unprepared, n, m
  <2> QED
    BY <1>t, <1>u, <1>1, <1>2
<1>4. OnceInv'
  <2>1. \A i \in 1..n : trace[i] # <<"post", Post>>
    <3> SUFFICES ASSUME NEW i \in 1..n, trace[i] = <<"post", Post>> PROVE FALSE
      OBVIOUS
    <3>1. PICK k \in 1..m : k < at /\ Post = posts[m + 1 - k]
      BY <1>1
    <3>2. m + 1 - k \in 1..m /\ posts[m + 1 - k] = posts[m + 1 - at]
      BY <1>t, <1>u, <3>1
    <3>3. m + 1 - k = m + 1 - at
      BY <1>t, <1>i, <3>2
    <3> QED
      BY <1>t, <3>1, <3>3
  <2>2. IsInjective(trace')
    BY <1>t, <1>u, <2>1, InjectiveAppend DEF OnceInv, BeginPost, n
  <2> QED
    BY <1>2, <2>2 DEF OnceInv
<1>5. PostOrderInv'
  <2> SUFFICES ASSUME NEW i \in 1..(n + 1), NEW j \in 1..(n + 1), NEW k \in 1..m, NEW l \in 1..m,
                      i < j, trace'[i][1] = "post", trace'[j][1] = "post",
                      posts[k] = trace'[i][2], posts[l] = trace'[j][2]
               PROVE  k > l
    BY <1>2 DEF PostOrderInv, n, m
  <2>1. i \in 1..n /\ trace'[i] = trace[i]
    BY <1>t, <1>2
  <2>2. CASE j \in 1..n
    BY <2>1, <2>2, <1>2 DEF PostOrderInv, n, m
  <2>3. CASE j = n + 1
    <3>1. PICK h \in 1..m : h < at /\ posts[k] = posts[m + 1 - h]
      BY <1>1, <2>1
    <3>2. m + 1 - h \in 1..m /\ k = m + 1 - h
      BY <1>t, <1>i, <3>1
    <3>3. l = m + 1 - at
      BY <1>t, <1>u, <1>i, <1>2, <2>3
    <3> QED
      BY <1>t, <3>1, <3>2, <3>3
  <2> QED
    BY <1>t, <2>2, <2>3
<1>6. StartedInv'
  <2> SUFFICES ASSUME NEW i \in 1..(n + 1), trace'[i][1] = "post"
               PROVE  /\ \E j \in 1..(n + 1) :
                            trace'[j][1] \in {"pre", "main"} /\ j < i /\ trace'[j][2] = trace'[i][2]
                      /\ \E k \in 1..m : posts[k] = trace'[i][2]
    BY <1>2 DEF StartedInv, m
  <2>1. CASE i \in 1..n
    <3>1. trace[i][1] = "post" /\ trace'[i] = trace[i]
      BY <2>1, <1>2
    <3>2. PICK j \in 1..n : trace[j][1] \in {"pre", "main"} /\ j < i /\ trace[j][2] = trace[i][2]
      BY <2>1, <3>1 DEF StartedInv, n
    <3>3. \E k \in 1..m : posts[k] = trace[i][2]
      BY <2>1, <3>1 DEF StartedInv, n, m
    <3>4. j \in 1..(n + 1) /\ trace'[j] = trace[j]
      BY <1>t, <1>2, <3>2
    <3> QED
      BY <3>1, <3>2, <3>3, <3>4
  <2>2. CASE i = n + 1
    <3>1. PICK j \in 1..n : trace[j][1] \in {"pre", "main"} /\ trace[j][2] = posts[m + 1 - at]
      BY <1>t DEF RegisteredInv, n, m
    <3>2. j \in 1..(n + 1) /\ j < i /\ trace'[j] = trace[j]
      BY <1>t, <1>2, <2>2, <3>1
    <3>3. trace'[i][2] = posts[m + 1 - at]
      BY <1>u, <1>2, <2>2
    <3> QED
      BY <1>t, <3>1, <3>2, <3>3
  <2> QED
    BY <1>t, <2>1, <2>2
<1>7. RegisteredInv'
  BY <1>t, <1>2 DEF RegisteredInv, n, m
<1>8. SoundMainInv'
  <2> SUFFICES ASSUME NEW i \in 1..(n + 1), trace'[i][1] = "main" PROVE preFailure[trace'[i][2]] = none
    BY <1>2 DEF SoundMainInv
  <2>1. i \in 1..n
    BY <1>t, <1>2
  <2> QED
    BY <1>2, <2>1 DEF SoundMainInv, n
<1>9. PairedInv'
  <2> SUFFICES ASSUME NEW i \in 1..(n + 1), trace'[i][1] \in {"pre", "main"}, Kind[trace'[i][2]] # "run"
               PROVE  \E k \in 1..m : posts[k] = trace'[i][2]
    BY <1>2 DEF PairedInv, m
  <2>1. i \in 1..n
    BY <1>t, <1>2
  <2> QED
    BY <1>2, <2>1 DEF PairedInv, n, m
<1> QED
  BY <1>3, <1>4, <1>5, <1>6, <1>7, <1>8, <1>9

\* Posts run once each, the last registered first, and only for actions that
\* have started; no main runs after its own pre has failed; the post of what
\* has started of a JavaScript action is registered (postRegistry).
THEOREM LifecyclesArePaired == Spec => []LifecyclesPaired
<1>1. Init => LifeInv
  <2> SUFFICES ASSUME Init PROVE LifeInv
    OBVIOUS
  <2>1. Len(trace) = 0 /\ Len(posts) = 0 /\ DOMAIN trace = {} /\ DOMAIN posts = {} /\ phase = "start"
    BY DEF Init
  <2> QED
    BY <2>1 DEF Init, LifeInv, TraceInv, RegisteredInv, OnceInv, IsInjective, PostOrderInv, StartedInv,
                SoundMainInv, PairedInv
<1>2. RunInv /\ LifeInv /\ [Next]_vars => LifeInv'
  <2>1. ASSUME RunInv, LifeInv, UNCHANGED vars PROVE LifeInv'
    <3>1. UNCHANGED <<phase, at, busy, preFailure, posts, trace>>
      BY <2>1 DEF vars, controlVars, ghostVars
    <3> QED
      BY <2>1, <3>1 DEF LifeInv, TraceInv, RegisteredInv, OnceInv, IsInjective, PostOrderInv, StartedInv,
                        SoundMainInv, PairedInv
  <2> QED
    BY <2>1, QuietStep, BeginPreStep, BeginStepStep, BeginPostStep
<1>3. RunInv /\ LifeInv => LifecyclesPaired
  <2> SUFFICES ASSUME RunInv, LifeInv PROVE LifecyclesPaired
    OBVIOUS
  <2>t. DOMAIN trace = 1..Len(trace) /\ DOMAIN posts = 1..Len(posts)
    BY DEF RunInv, TypeOK
  <2> DEFINE Ran(kind) == {i \in DOMAIN trace : trace[i][1] = kind}
             Place(s) == CHOOSE i \in DOMAIN posts : posts[i] = s
  <2>1. \A s : (\E k \in 1..Len(posts) : posts[k] = s) => Place(s) \in 1..Len(posts) /\ posts[Place(s)] = s
    BY <2>t
  <2> HIDE DEF Place
  <2>2. IsInjective(trace) /\ IsInjective(posts)
    BY DEF LifeInv, OnceInv
  <2>3. \A i, j \in Ran("post") : i < j => Place(trace[i][2]) > Place(trace[j][2])
    <3> SUFFICES ASSUME NEW i \in Ran("post"), NEW j \in Ran("post"), i < j
                 PROVE  Place(trace[i][2]) > Place(trace[j][2])
      OBVIOUS
    <3>1. /\ \E k \in 1..Len(posts) : posts[k] = trace[i][2]
          /\ \E k \in 1..Len(posts) : posts[k] = trace[j][2]
      BY <2>t DEF LifeInv, StartedInv
    <3> QED
      BY <2>t, <2>1, <3>1 DEF LifeInv, PostOrderInv
  <2>4. \A i \in Ran("post") : \E j \in Ran("pre") \cup Ran("main") : j < i /\ trace[j][2] = trace[i][2]
    BY <2>t DEF LifeInv, StartedInv
  <2>5. \A i \in Ran("main") : preFailure[trace[i][2]] = none
    BY <2>t DEF LifeInv, SoundMainInv
  <2>6. \A i \in Ran("pre") \cup Ran("main") : Kind[trace[i][2]] # "run" => Registered(trace[i][2])
    BY <2>t DEF LifeInv, PairedInv, Registered
  <2> QED
    BY <2>2, <2>3, <2>4, <2>5, <2>6, Zenon DEF LifecyclesPaired, Place
<1> QED
  BY RunInvariant, <1>1, <1>2, <1>3, PTL DEF Spec
=============================================================================
