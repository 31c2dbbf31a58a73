------------------------------ MODULE StepOutput ------------------------------
(***************************************************************************)
(* What a job writes, of the processes of all its steps and of the runner: *)
(* one commandOutputProcessor reads their lines under its lock, obeys the  *)
(* workflow commands, masks what it writes and collects annotations, which *)
(* it masks when the job ends, together with summaries and outputs.        *)
(*                                                                         *)
(* A text is a sequence of letters, which are numbers; four of them stand  *)
(* for line breaks, the percent-encoded line feed and a star.              *)
(***************************************************************************)
EXTENDS Naturals, Sequences, FiniteSets, SequencesExt

CONSTANTS Masked,      \* what is registered as a mask
          Written,     \* other texts steps write
          Closing,     \* stop tokens; <<>> is an invalid one
          MaxRendered, \* maxJobAnnotationBytes, less the notice
          MaxSummary,  \* maxJobSummaryBytes; the notice takes one letter
          MaxLines     \* bound: lines, masks and summaries of a job

lf == 10
cr == 13
encoded == 37
star == 42
Stars == <<star, star, star>>

VARIABLES
    masks, stopToken, discard,
    trusted, warnings, raised,    \* the buffers of annotations
    summary,                      \* [text, truncated]
    line,                         \* the last line written
    lines,                        \* how many there have been
    result                        \* what the finished job shows, <<>> before

processor == <<masks, stopToken, discard>>
buffers == <<trusted, warnings, raised>>
outputVars == <<processor, buffers, summary, line, lines, result>>

-----------------------------------------------------------------------------
(* Texts                                                                   *)

Starts(m, t, i) == i + Len(m) - 1 <= Len(t) /\ SubSeq(t, i, i + Len(m) - 1) = m
Occurs(m, t) == \E i \in DOMAIN t : Starts(m, t, i)

\* strings.ReplaceAll
Replaced(t, m, r) ==
    LET f[i \in 1..Len(t) + Len(m)] ==
            IF i > Len(t) THEN <<>>
            ELSE IF Starts(m, t, i) THEN r \o f[i + Len(m)]
            ELSE <<t[i]>> \o f[i + 1]
    IN  f[1]

\* The order of masks: longest first, then as strings are ordered.
Longer(m, n) ==
    \/ Len(m) > Len(n)
    \/ /\ Len(m) = Len(n)
       /\ \E i \in DOMAIN m : m[i] < n[i] /\ \A j \in 1..i - 1 : m[j] = n[j]
Ordered(ms) == SetToSortSeq(ms, Longer)

\* Mutant: masks that are not sorted.
ShortestFirst(t, ms) == FoldLeft(LAMBDA s, m : Replaced(s, m, Stars), t, Reverse(Ordered(ms)))

Scrubbed(t, ms) == FoldLeft(LAMBDA s, m : Replaced(s, m, Stars), t, Ordered(ms))

\* commandText
Plain(t) == Replaced(Replaced(t, <<cr, lf>>, <<lf>>), <<cr>>, <<lf>>)

\* A command as its step wrote it: the text of a command is decoded.
AsWritten(t) == Replaced(t, <<lf>>, <<encoded>>)

\* The non-empty lines of a text.
Lines(t) ==
    LET u == Replaced(t, <<cr, lf>>, <<lf>>)
        ends == {0, Len(u) + 1} \cup {i \in DOMAIN u : u[i] = lf}
    IN  {SubSeq(u, i + 1, j - 1) : <<i, j>> \in
            {p \in ends \X ends : p[1] < p[2] /\ \A k \in p[1] + 1..p[2] - 1 : k \notin ends}} \ {<<>>}

-----------------------------------------------------------------------------
OutputInit ==
    /\ masks = {} /\ stopToken = <<>> /\ discard = FALSE
    /\ trusted = [texts |-> <<>>, truncated |-> FALSE]
    /\ warnings = trusted /\ raised = trusted
    /\ summary = [text |-> <<>>, truncated |-> FALSE]
    /\ line = [from |-> <<>>, under |-> {}, shown |-> <<>>]
    /\ lines = 0
    /\ result = <<>>

\* addMaskLocked
Masking(t) == IF t = <<>> THEN masks ELSE masks \cup {t} \cup Lines(t)

\* writeMaskedLineLocked
Write(t, ms) == line' = [from |-> t, under |-> ms, shown |-> Scrubbed(t, ms)]

\* What an annotation takes up in its list, and the list itself.
Size(texts) == IF texts = <<>> THEN 0 ELSE 2 + FoldLeft(LAMBDA n, t : n + 1 + Len(t), 0, texts)

Collect(buffer, t) ==
    IF buffer.truncated THEN buffer
    ELSE IF Size(Append(buffer.texts, t)) > MaxRendered THEN [buffer EXCEPT !.truncated = TRUE]
    ELSE [buffer EXCEPT !.texts = Append(@, t)]

-----------------------------------------------------------------------------
(* Lines of a step                                                         *)

Reads == result = <<>> /\ ~discard
Obeys == Reads /\ stopToken = <<>>

AddMask(t) ==
    /\ Obeys
    /\ masks' = Masking(t)
    /\ UNCHANGED <<stopToken, discard, buffers, summary, line, result>>

\* A token too short to be a mask is shown with its command.
StopCommands(t) ==
    /\ Obeys
    /\ IF t = <<>> THEN /\ raised' = Collect(raised, <<>>)
                        /\ Write(<<>>, masks)
                        /\ UNCHANGED <<processor, trusted, warnings>>
       ELSE /\ stopToken' = t
            /\ masks' = IF Len(t) > 2 THEN Masking(t) ELSE masks
            /\ Write(t, masks')
            /\ UNCHANGED <<discard, buffers>>
    /\ UNCHANGED <<summary, result>>

\* While commands are stopped a command is a line as any other.
Stopped(t) ==
    /\ Reads /\ stopToken # <<>>
    /\ stopToken' = IF t = stopToken THEN <<>> ELSE stopToken
    /\ Write(AsWritten(t), masks)
    /\ UNCHANGED <<masks, discard, buffers, summary, result>>

Annotate(t) ==
    /\ Obeys
    /\ \/ warnings' = Collect(warnings, Plain(t)) /\ UNCHANGED raised
       \/ raised' = Collect(raised, Plain(t)) /\ UNCHANGED warnings
    /\ Write(t, masks)
    /\ UNCHANGED <<processor, trusted, summary, result>>

\* A group is masked before it is made one line.
Group(t) ==
    /\ Obeys
    /\ line' = [from |-> t, under |-> masks,
                shown |-> SelectSeq(Scrubbed(t, masks), LAMBDA c : c \notin {cr, lf})]
    /\ UNCHANGED <<processor, buffers, summary, result>>

WriteLine(t) ==
    /\ Obeys
    /\ Write(AsWritten(t), masks)
    /\ UNCHANGED <<processor, buffers, summary, result>>

\* A line too long to be read may have been a command: nothing more of the
\* steps is shown.
Suppress ==
    /\ Reads
    /\ discard' = TRUE
    /\ UNCHANGED <<masks, stopToken, buffers, summary, line, result>>

-----------------------------------------------------------------------------
(* The runner                                                              *)

\* resolveSecrets, resolveWorkflowToken
MaskSecret(t) ==
    /\ result = <<>>
    /\ masks' = Masking(t)
    /\ UNCHANGED <<stopToken, discard, buffers, summary, line, result>>

\* trustedWarning, warnContinuedError
Warn(t) ==
    /\ result = <<>>
    /\ trusted' = Collect(trusted, Plain(t))
    /\ Write(t, masks)
    /\ UNCHANGED <<processor, warnings, raised, summary, result>>

\* appendBoundedText: a text that is cut off leaves room for the notice.
Bounded(s, t, cutOff) ==
    IF s.truncated THEN s
    ELSE LET all == s.text \o t
         IN  IF Len(all) <= MaxSummary /\ ~cutOff THEN [s EXCEPT !.text = all]
             ELSE [text |-> SubSeq(all, 1, Min({Len(all), MaxSummary - 1})), truncated |-> TRUE]

AddSummary(t) ==
    /\ result = <<>>
    /\ summary' = Bounded(summary, t, FALSE)
    /\ UNCHANGED <<processor, buffers, line, result>>

-----------------------------------------------------------------------------
(* The end of the job                                                      *)

\* workflowCommandAnnotations: masked, they are measured again.
Annotations(texts) ==
    FoldLeft(LAMBDA b, t : Collect(b, Scrubbed(t, {Plain(m) : m \in masks})),
             [texts |-> <<>>, truncated |-> FALSE], texts).texts

\* scrubJobResult: every replacement can lengthen a summary past its limit.
ScrubbedSummary ==
    FoldLeft(LAMBDA s, m : Bounded([text |-> <<>>, truncated |-> FALSE],
                                   Replaced(s.text, m, Stars), s.truncated),
             summary, Ordered(masks))

\* How much of the beginning of m, which is not all of it, ends t.
Begun(m, t) == {n \in 1..Len(m) - 1 : IsSuffix(SubSeq(m, 1, n), t)}

\* trimSensitiveSuffix
Trimmed(t) ==
    LET f[n \in 0..Len(t)] ==
            LET begun == SelectSeq(Ordered(masks), LAMBDA m : Begun(m, SubSeq(t, 1, n)) # {})
            IN  IF begun = <<>> THEN SubSeq(t, 1, n)
                ELSE f[n - Max(Begun(Head(begun), SubSeq(t, 1, n)))]
    IN  f[Len(t)]

\* finalize, with a text as the output of the job; an output that holds a
\* mask fails the job.
Finalize(t) ==
    /\ result = <<>>
    /\ result' = [warnings |-> Annotations(trusted.texts \o warnings.texts),
                  errors   |-> Annotations(raised.texts),
                  output   |-> IF \E m \in masks : Occurs(m, t) THEN <<>> ELSE t,
                  summary  |-> LET s == ScrubbedSummary
                               IN  [s EXCEPT !.text = IF s.truncated THEN Trimmed(@) ELSE @]]
    /\ UNCHANGED <<processor, buffers, summary, line>>

OutputNext ==
    \/ /\ lines < MaxLines
       /\ lines' = lines + 1
       /\ \/ Suppress
          \/ \E t \in Masked : AddMask(t) \/ MaskSecret(t)
          \/ \E t \in Closing : StopCommands(t) \/ Stopped(t)
          \/ \E t \in Masked \cup Written :
                Stopped(t) \/ Annotate(t) \/ Group(t) \/ WriteLine(t) \/ Warn(t) \/ AddSummary(t)
    \/ \E t \in Written : Finalize(t) /\ UNCHANGED lines
    \/ result # <<>> /\ UNCHANGED outputVars

-----------------------------------------------------------------------------
(* Properties                                                              *)

Occurrences(t, ms) == {<<i, i + Len(m) - 1>> : <<i, m>> \in {p \in (DOMAIN t) \X ms : Starts(p[2], t, p[1])}}
Inside(o, p) == p[1] <= o[1] /\ o[2] <= p[2]
Apart(o, p) == o[2] < p[1] \/ p[2] < o[1]
Legible(t) == SelectSeq(t, LAMBDA c : c \notin {star, cr, lf})

\* What is shown of a text is the text without some of the places in which a
\* mask occurs: of each of them at least a part, all of one that no other
\* crosses, and nothing else.
Hides(shown, t, ms) ==
    LET occurrences == Occurrences(t, ms)
    IN  \E hidden \in SUBSET UNION {o[1]..o[2] : o \in occurrences} :
          /\ Legible(shown) = Legible([i \in DOMAIN t |-> IF i \in hidden THEN star ELSE t[i]])
          /\ \A o \in occurrences :
               /\ hidden \cap (o[1]..o[2]) # {}
               /\ (\A p \in occurrences : Inside(o, p) \/ Inside(p, o) \/ Apart(o, p)) => o[1]..o[2] \subseteq hidden

\* A mask is in force, for every stream and for the runner's own lines, from
\* the moment it is registered.  Annotations, which are collected while the
\* job runs, outputs and the summary hide what has been registered until its
\* end, and a summary that is cut off does not end within a mask.
MasksHold ==
    /\ Hides(line.shown, line.from, line.under)
    /\ result # <<>> =>
         /\ \A i \in DOMAIN result.warnings :
               Hides(result.warnings[i], (trusted.texts \o warnings.texts)[i], {Plain(m) : m \in masks})
         /\ \A i \in DOMAIN result.errors : Hides(result.errors[i], raised.texts[i], {Plain(m) : m \in masks})
         /\ \A m \in masks : ~Occurs(m, result.output) /\ ~Occurs(m, result.summary.text)
         /\ result.summary.truncated => \A m \in masks : Begun(m, result.summary.text) = {}
=============================================================================
