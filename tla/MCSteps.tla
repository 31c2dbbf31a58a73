-------------------------------- MODULE MCSteps --------------------------------
(* Steps of a job that are under way at once: background steps with a       *)
(* single slot, and checkouts.  A behaviour is of one of these.             *)
EXTENDS MCBackgroundSteps, Checkout

VARIABLE part

-----------------------------------------------------------------------------

Plain == [path |-> "", ref |-> "", computed |-> FALSE, depth |-> "", lfs |-> FALSE, sparse |-> "no",
          filter |-> FALSE, submodules |-> "no", release |-> "v7", background |-> FALSE,
          nested |-> FALSE]

\* One checkout with all inputs that concern the provider; one of each ref;
\* two side by side or one after the other, in the same directory or below.
Single ==
    {[Plain EXCEPT !.lfs = l, !.sparse = s, !.filter = o, !.submodules = m, !.release = r, !.nested = (r = "v1")] :
        l \in BOOLEAN, s \in {"no", "yes"}, o \in BOOLEAN, m \in {"no", "direct"}, r \in {"v1", "v7"}}
References ==
    {[Plain EXCEPT !.ref = r, !.depth = n, !.computed = x, !.release = v] :
        r \in {"", "e", "x", "main"}, n \in {"", "0"}, x \in BOOLEAN, v \in {"v1", "v7"}}
PlainIn(p, o, r) == [Plain EXCEPT !.path = p, !.background = o, !.ref = r]
Pairs == {<<PlainIn(p, o, "main"), PlainIn(q, FALSE, "")>> : p \in Places, q \in Places, o \in BOOLEAN}

CheckoutJob(private, tracked, uses, tools) ==
    [private |-> private, tracked |-> tracked, uses |-> uses, tools |-> tools]
MCCheckoutJobs ==
    {CheckoutJob(TRUE, {}, <<s>>, t) : s \in Single, t \in BOOLEAN}
      \cup {CheckoutJob(FALSE, {}, <<s>>, FALSE) : s \in References}
      \cup {CheckoutJob(TRUE, t, u, TRUE) : t \in {{}, {"a"}}, u \in Pairs}

-----------------------------------------------------------------------------

MCInit ==
    /\ part \in {"background", "checkouts"}
    /\ Init /\ (part # "background" => program = CHOOSE p \in Programs : TRUE)
    /\ IF part = "checkouts" THEN CheckoutInit
       ELSE /\ job = [private |-> FALSE, tracked |-> {}, uses |-> <<>>, tools |-> FALSE]
            /\ place = <<>> /\ repo = <<>> /\ doing = <<>> /\ running = {}
            /\ tip = NoCommit /\ tips = <<>> /\ given = {} /\ needed = {}
            /\ output = <<>> /\ trouble = MaxTrouble

\* Nothing else stops a checkout.
Over == part = "checkouts" /\ \A c \in Checkouts : doing[c] \in {"done", "failed"}

MCNext ==
    /\ UNCHANGED part
    /\ \/ part = "background" /\ Next /\ UNCHANGED checkoutVars
       \/ part = "checkouts" /\ CheckoutNext /\ UNCHANGED vars
       \/ Over /\ UNCHANGED <<vars, checkoutVars>>

\* The fairness of BackgroundSteps, for behaviours that are of it.
Supervised(A) == part = "background" /\ A
MCFairness ==
    /\ WF_vars(Supervised(RunJob))
    /\ WF_vars(Supervised(Dispatch \/ Unlock))
    /\ \A s \in Steps :
          /\ WF_vars(Supervised(StepReturns(s) /\ cause[s] # "none"))
          /\ WF_vars(Supervised(ClassifyBackground(s)))
          /\ WF_vars(Supervised(FinishBackground(s)))

MCSpec == MCInit /\ [][MCNext]_<<part, vars, checkoutVars>> /\ MCFairness

\* Of a job with background steps: see StepsDrain of BackgroundSteps.
JobsDrain == part = "background" => StepsDrain
=============================================================================
