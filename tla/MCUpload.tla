------------------------------- MODULE MCUpload -------------------------------
(* What uploads to a build: the importer, for the workflows that the event  *)
(* of the build selects, the stages of matrices that come from outputs, and *)
(* the steps of jobs their artifacts.  A behaviour is of one of these.      *)
EXTENDS MCStageUpload, TriggerSelection, ArtifactTransfer

(* Transfers of artifacts. *)
TransferNames == {"d", "f", "g", "F", ".e", "h", "o", "x", "X", "y"}
MCLower == [n \in TransferNames |-> CASE n = "F" -> "f" [] n = "X" -> "x" [] OTHER -> n]
MCDotted == {".e"}
MCWeight == [c \in {"a", "b", "long"} |-> IF c = "long" THEN 2 ELSE 1]
MCTarget == <<"h">>

\* A file and a directory of up to three files, and room for what is installed.
MCTree(more) ==
    [p \in {<<"d">>, <<"d", "f">>, <<"d", "g">>, <<"d", "F">>, <<"d", ".e">>, <<"h">>, <<"o">>, <<"o", "f">>, <<"o", "g">>} |->
        CASE p = <<"d">> -> Directory
          [] p \in {<<"d", "f">>, <<"h">>} \cup more -> Regular(p, "a", 0)
          [] OTHER -> Nothing]

Literal(p)   == [path |-> p, glob |-> FALSE, dirOnly |-> FALSE]
Slash(p)     == [path |-> p, glob |-> FALSE, dirOnly |-> TRUE]
Below1(p)    == [path |-> p, glob |-> TRUE, dirOnly |-> FALSE]
Upload1(name, roots, hidden) ==
    [kind |-> "upload", name |-> name, roots |-> roots, hidden |-> hidden, noFiles |-> "warn", v1 |-> FALSE]
Download1(names, pattern, path) == [kind |-> "download", names |-> names, pattern |-> pattern, path |-> path]

Held(name, archive) == [name |-> name, archive |-> archive, count |-> Cardinality(DOMAIN archive), producer |-> "none"]
InTwo == << Held("x", (<<"f">> :> "a") @@ (<<"g">> :> "long")), Held("y", <<"f">> :> "b") >>

Transfer(steps, tree0, needs) ==
    [steps |-> IF Len(steps) = 1 THEN "p" :> steps[1] ELSE ("p" :> steps[1]) @@ ("q" :> steps[2]),
     tree |-> tree0, needs |-> needs, events |-> IF Len(steps) = 1 THEN 0 ELSE 2]

\* Two uploads under one name; an upload of what a download installs; two
\* downloads to one place.
MCShared ==
    { Transfer(<<Upload1("x", <<Literal(<<"d">>)>>, FALSE), Upload1("X", <<Literal(<<"d", "f">>), Literal(<<"h">>)>>, FALSE)>>, MCTree({}), <<>>),
      Transfer(<<Upload1("y", <<Below1(<<"o">>)>>, TRUE), Download1({"x", "y"}, TRUE, <<"o">>)>>, MCTree({}), InTwo),
      Transfer(<<Download1({"x"}, FALSE, <<"d">>), Download1({"y"}, FALSE, <<"d">>)>>, MCTree({}), InTwo) }

\* Every selection of two roots, and members that are in each other's way.
MCSelections ==
    {Transfer(<<[Upload1("x", <<r, q>>, hidden) EXCEPT !.noFiles = policy]>>, MCTree(more), <<>>) :
        r \in {Literal(<<"d">>), Slash(<<"d">>), Slash(<<"h">>), Below1(<<"d">>), Literal(<<"o">>)},
        q \in {Literal(<<"d", "f">>), Literal(<<"h">>), Below1(<<"o">>), Literal(<<"d", ".e">>)},
        hidden \in BOOLEAN, policy \in {"warn", "error"},
        more \in {{}, {<<"d", ".e">>}, {<<"d", "F">>, <<"o">>}}}
      \cup {Transfer(<<[Upload1("x", <<r>>, FALSE) EXCEPT !.v1 = TRUE, !.noFiles = "error"]>>,
                     [MCTree({}) EXCEPT ![<<"d", "f">>] = Nothing], <<>>) : r \in {Literal(<<"d">>), Literal(<<"o">>)}}
      \cup {Transfer(<<Download1({"x", "y"}, TRUE, <<"o">>)>>, MCTree({}), <<Held("x", <<"f">> :> "a"), Held("y", n :> "b")>>) :
                n \in {<<"f">>, <<"F">>, <<"f", "g">>, <<"g">>}}
      \cup {Transfer(<<Download1({"x"}, p, <<>>)>>, MCTree({}), <<Held("x", <<"h">> :> "b")>> \o twice) :
                p \in BOOLEAN, twice \in {<<>>, <<Held("X", <<"h">> :> "b")>>, <<Held("x", <<"h">> :> "b")>>}}
MCTransfers1 == MCShared \cup MCSelections

VARIABLE part

Found == INSTANCE MCTriggers
MCScenarios == Found!MCScenarios
MCParents == Found!MCParents
MCContent == Found!MCContent

MCInit ==
    /\ part \in {"selection", "stages", "transfers"}
    /\ Init
    /\ TransferInit /\ (part # "transfers" => transfer = CHOOSE t \in Transfers : TRUE)
    /\ IF part = "selection" THEN SelectionInit
       ELSE /\ scene = [workflows |-> <<>>]
            /\ pc = "failed" /\ event = none /\ paths = none
            /\ pathError = {} /\ verified = {} /\ selection = <<>> /\ ran = {}

MCNext ==
    /\ UNCHANGED part
    /\ \/ part = "selection" /\ SelectionNext /\ UNCHANGED <<vars, transferVars>>
       \/ part = "stages" /\ Next /\ UNCHANGED <<selectionVars, transferVars>>
       \/ part = "transfers" /\ TransferNext /\ UNCHANGED <<vars, selectionVars>>

MCSpec == MCInit /\ [][MCNext]_<<part, vars, selectionVars, transferVars>>
=============================================================================
