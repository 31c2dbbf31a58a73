------------------------------- MODULE MCNeeds -------------------------------
(* What depends on the results of other jobs: what a job knows when it     *)
(* starts, the expressions that the importer left to the runner, and the    *)
(* jobs whose matrices come from outputs.  A behaviour is of one of these.  *)
EXTENDS MCResultTransport, Expressions, MCDeferredGraph, Matrix

\* Matrices of up to two dimensions, two includes and two excludes over two
\* spellings of a name, a number with two forms and a nested value.
MCAlphabet == <<"A", "a", "b">>
MCFold == [n \in Range(MCAlphabet) |-> IF n = "A" THEN "a" ELSE n]
MCCanon == [v \in {"1", "1.0", "2", "nested"} |-> IF v = "1.0" THEN "1" ELSE v]
MCScalars == {"1", "1.0", "2"}
MCNeighbours == {{}, {"a" :> "1"}}

Row(name, values) == [name |-> name, values |-> values]
MCDimensions ==
    { <<>>, <<Row("a", <<"1", "2">>)>>, <<Row("a", <<"1", "1.0">>)>>,
      <<Row("b", <<"1", "2">>), Row("a", <<"2", "1.0">>)>>, <<Row("a", <<"1">>), Row("A", <<"2">>)>>,
      <<Row("b", <<>>)>>, <<Row("b", <<"nested", "1">>)>> }
MCEntries ==
    UNION {[names -> MCScalars] : names \in {{"a"}, {"b"}, {"a", "b"}}}
      \cup {<<>>, "A" :> "1", "b" :> "nested", ("A" :> "1") @@ ("a" :> "2")}
MCExcludes == {<<>>, <<"a" :> "1">>, <<"a" :> "2">>, <<("a" :> "1.0") @@ ("b" :> "2")>>, <<"A" :> "1">>, << <<>> >>,
               <<"a" :> "1", "a" :> "2">>}
MCIncludes == {<<>>} \cup [1..1 -> MCEntries] \cup [1..2 -> MCEntries]

Def(rows, include, exclude, hasInclude) ==
    [rows |-> rows, include |-> include, exclude |-> exclude, hasInclude |-> hasInclude]
MCDefinitions ==
    {Def(d, i, e, TRUE) : d \in MCDimensions, i \in MCIncludes, e \in MCExcludes}
      \cup {Def(d, <<>>, e, FALSE) : d \in MCDimensions, e \in MCExcludes}

-----------------------------------------------------------------------------

VARIABLE part

Flag  == Name("github.event.flag")
Token == Name("github.token")
Input == Name("inputs.i")
Var   == Name("vars.v")
Text(t) == Lit(Str(t))

\* The scenarios of a job with these expressions, where something may have
\* failed in the scope of one of them: only what is named varies.
Varying(named, name, values) == IF name \in named THEN values ELSE {Null}
Scene(written, failing) ==
    LET named == UNION {Names(written[s]) : s \in {t \in Sites : written[t] # Empty}}
    IN  [sites    : {written},
         flag     : IF named \cap EventNames # {} THEN {Bool(TRUE), Bool(FALSE)} ELSE {Null},
         m        : Varying(named, "matrix.m", {Str("on"), Bool(TRUE)}),
         i        : Varying(named, "inputs.i", {Str("flag"), Bool(FALSE)}),
         v        : Varying(named, "vars.v", {Str("flag"), Str("")}),
         o        : Varying(named, "needs.o", {Json(Bool(TRUE)), Str("")}),
         deferred : IF "inputs.i" \in named THEN BOOLEAN ELSE {FALSE},
         trouble  : {"none", failing}]

\* Conditions of up to two operators over the event, an input, a variable and
\* a status function.
Atoms == {Flag, Input, Var, Name("always()"), Name("failure()")}
Simple == {Not(e) : e \in Atoms} \cup {And(e, f) : e, f \in Atoms} \cup {Or(e, f) : e, f \in Atoms}
Conds ==
    Atoms \cup Simple \cup {And(e, f) : e \in Simple, f \in Atoms} \cup {Or(e, f) : e \in Simple, f \in Atoms}
          \cup {Choice(e, f, g) : e, f, g \in Atoms}
          \cup {Eq(e, f) : e \in Atoms, f \in {Flag, Input, Lit(Bool(TRUE)), Text("")}}

Blank == [s \in Sites |-> IF s = "body" THEN Text("body") ELSE Empty]

\* Templates that read the event or the token behind other reads, in a step
\* that can be left out.  What reads the whole github context and an event
\* in one template is left out: see the README.
Reads == {Flag, Token, Input, Var, Name("matrix.m"), Event(Var), Event(Input), ToJSON(Name("github")), ToJSON(Name("github.event")),
          FromJSON(Flag), FromJSON(Name("needs.o"))}
Bodies == {e \in Reads \cup {And(e, f) : e, f \in Reads} \cup {Or(e, f) : e, f \in Reads}
                 \cup {Choice(Eq(e, Lit(Bool(FALSE))), f, g) : e \in {Flag, Input, Var}, f, g \in Reads} :
              ~("github" \in Names(e) /\ NamesPayload(e))}
Guarded == {Empty, Flag, Input, And(Flag, Var), Or(Input, Name("failure()"))}
MCScenarios ==
    [f \in (Conditions \X Conds) \cup ({"body"} \X Guarded \X Bodies) |->
        IF f[1] = "body" THEN Scene([Blank EXCEPT !["step"] = f[2], !["body"] = f[3]], "step")
        ELSE Scene([Blank EXCEPT ![f[1]] = f[2]], f[1])]

\* A behaviour that is not about expressions has none.
NoScene == [sites |-> Blank, flag |-> Null, m |-> Null, i |-> Null, v |-> Null, o |-> Null,
            deferred |-> FALSE, trouble |-> "none"]

MCInit ==
    /\ part \in {"needs", "expressions", "graph", "matrix"}
    /\ QueryInit /\ (part # "needs" => projection = absent)
    /\ IF part = "expressions" THEN ExprInit ELSE scene = NoScene /\ ExprStart
    /\ IF part = "graph" THEN GraphInit ELSE graph = OneJob /\ open = {} /\ uploads = << <<1>> >> /\ causes = {}
    /\ IF part = "matrix" THEN MatrixInit ELSE matrix = Def(<<>>, <<>>, <<>>, FALSE) /\ taken = {} /\ reads = <<>>

MCNext ==
    \/ part = "needs" /\ QueryNext /\ UNCHANGED <<part, exprVars, stageVars, matrixVars>>
    \/ part = "expressions" /\ ExprNext /\ UNCHANGED <<part, queryVars, stageVars, matrixVars>>
    \/ part = "graph" /\ GraphNext /\ UNCHANGED <<part, queryVars, exprVars, matrixVars>>
    \/ part = "matrix" /\ MatrixNext /\ UNCHANGED <<part, queryVars, exprVars, stageVars>>

MCSpec == MCInit /\ [][MCNext]_<<part, queryVars, exprVars, stageVars, matrixVars>>
=============================================================================
