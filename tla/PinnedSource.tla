----------------------------- MODULE PinnedSource -----------------------------
(* What the compilations of one build share: each reference to an action is *)
(* fetched once, and each repository and ref is resolved to one commit and  *)
(* digest, whatever the paths asked for in it and however the ref moves     *)
(* meanwhile (memoizedActionSource of internal/compiler/actions.go).  A     *)
(* later stage starts from the pins that its locks record.                  *)
EXTENDS Naturals

CONSTANTS
    Askers,        \* fetches, concurrent ones among them
    RefOf, PathOf, \* what each asks for: a repository with a ref, and a path in it
    Recorded,      \* sets of [ref, pin]: what the locks of an earlier stage can record
    Revisions,     \* commits a ref can be at
    Nothing,       \* no pin, no leader, no outcome
    Failed, GivenUp, \* outcomes other than a source
    MaxAway        \* moves of refs, failures and changed contents, together

ASSUME PinAssumption ==
    /\ MaxAway \in Nat
    /\ \A locks \in Recorded : \A x \in locks : x.pin \in [commit : Revisions, digest : Revisions]
    /\ {Nothing, Failed, GivenUp} \cap [commit : Revisions, digest : Revisions] = {}
    /\ Nothing # Failed /\ Nothing # GivenUp /\ Failed # GivenUp
    /\ Nothing \notin Askers

VARIABLES
    asker,     \* of each fetch [at, leader, pin, live, outcome]
    recorded,  \* the element of Recorded
    kept,      \* of each reference, the source in the cache
    leading,   \* of each reference, the fetch under way
    pins,      \* of each ref
    resolving, \* of each ref without a pin, the fetch under way
    heads,     \* what each ref is at
    away       \* how much went wrong so far

pinVars == <<asker, recorded, kept, leading, pins, resolving, heads, away>>

RefsAsked == {RefOf[c] : c \in Askers}
Wanted(c) == <<RefOf[c], PathOf[c]>>
References == {Wanted(c) : c \in Askers}

\* A source is its commit and the digest of its files, which is that of the
\* commit unless the server sends other files.
PinSource(commit, digest) == [commit |-> commit, digest |-> digest]
IsSource(outcome) == outcome \notin {Nothing, Failed, GivenUp}
Back(c) == asker[c].at = "over"
Succeeded(c) == Back(c) /\ IsSource(asker[c].outcome)

\* Locks that record two commits for a ref make every fetch fail.
Conflicting == \E x, y \in recorded : x.ref = y.ref /\ x.pin # y.pin

PinInit ==
    /\ recorded \in Recorded
    /\ asker = [c \in Askers |-> [at |-> "ask", leader |-> Nothing, pin |-> Nothing, live |-> TRUE,
                                  outcome |-> Nothing]]
    /\ kept = [w \in References |-> Nothing] /\ leading = [w \in References |-> Nothing]
    /\ pins = [r \in RefsAsked |->
                 IF \E x \in recorded : x.ref = r THEN (CHOOSE x \in recorded : x.ref = r).pin ELSE Nothing]
    /\ resolving = [r \in RefsAsked |-> Nothing]
    /\ heads \in [RefsAsked -> Revisions]
    /\ away = 0

EndsWith(c, outcome) == asker' = [asker EXCEPT ![c].at = "over", ![c].outcome = outcome]
Await(c, at, leader) == asker' = [asker EXCEPT ![c].at = at, ![c].leader = leader]
Pinning == <<recorded, kept, leading, pins, resolving>>

\* Under the lock: what is cached is taken, what is under way is followed,
\* and while a ref without a pin is resolved everything else of it waits.
\* Keeping a cached source from eviction can fail when its caller is gone.
Ask(c) ==
    LET w == Wanted(c)
        r == RefOf[c]
    IN /\ asker[c].at = "ask"
       /\ UNCHANGED <<recorded, kept, pins, heads, away>>
       /\ IF Conflicting
            THEN EndsWith(c, Failed) /\ UNCHANGED <<leading, resolving>>
          ELSE IF kept[w] # Nothing
            THEN /\ \/ EndsWith(c, kept[w])
                    \/ ~asker[c].live /\ EndsWith(c, GivenUp)
                 /\ UNCHANGED <<leading, resolving>>
          ELSE IF leading[w] # Nothing
            THEN Await(c, "follow", leading[w]) /\ UNCHANGED <<leading, resolving>>
          ELSE IF pins[r] = Nothing /\ resolving[r] # Nothing
            THEN Await(c, "gate", resolving[r]) /\ UNCHANGED <<leading, resolving>>
          ELSE /\ asker' = [asker EXCEPT ![c].at = "fetch", ![c].leader = c, ![c].pin = pins[r]]
               /\ leading' = [leading EXCEPT ![w] = c]
               /\ resolving' = IF pins[r] = Nothing THEN [resolving EXCEPT ![r] = c] ELSE resolving

\* Its caller gives up while it waits.
GiveUp(c) ==
    /\ asker[c].at \in {"follow", "gate"} /\ ~asker[c].live
    /\ EndsWith(c, GivenUp)
    /\ UNCHANGED <<Pinning, heads, away>>

\* Mutant: what came of it is taken even when it was only given up.
TakeOver(c) ==
    /\ asker[c].at = "follow" /\ Back(asker[c].leader)
    /\ \/ EndsWith(c, asker[asker[c].leader].outcome)
       \/ ~asker[c].live /\ EndsWith(c, GivenUp)
    /\ UNCHANGED <<Pinning, heads, away>>

\* The fetch that it follows is over: what came of it is taken, unless it was
\* only given up and this one is not.
Follow(c) ==
    LET outcome == asker[asker[c].leader].outcome
    IN /\ asker[c].at = "follow" /\ Back(asker[c].leader)
       /\ IF outcome = GivenUp /\ asker[c].live THEN Await(c, "ask", Nothing)
          ELSE \/ EndsWith(c, outcome)
               \/ ~asker[c].live /\ EndsWith(c, GivenUp)
       /\ UNCHANGED <<Pinning, heads, away>>

PassGate(c) ==
    /\ asker[c].at = "gate" /\ Back(asker[c].leader)
    /\ Await(c, "ask", Nothing)
    /\ UNCHANGED <<Pinning, heads, away>>

\* A pinned ref is fetched by its commit, and must be what it was.  The fetch
\* can fail, or be given up: with its caller, or for a time limit of its own.
Commit(c) == IF asker[c].pin = Nothing THEN heads[RefOf[c]] ELSE asker[c].pin.commit
Fetch(c) ==
    /\ asker[c].at = "fetch"
    /\ \E found \in {PinSource(Commit(c), d) : d \in Revisions} \cup {Failed, GivenUp} :
         /\ asker' = [asker EXCEPT
              ![c].at = "publish",
              ![c].outcome = IF IsSource(found) /\ asker[c].pin \notin {Nothing, found}
                               THEN Failed ELSE found]
         /\ away' = away + IF \/ found = PinSource(Commit(c), Commit(c))
                              \/ found = GivenUp /\ ~asker[c].live THEN 0 ELSE 1
         /\ away' <= MaxAway
    /\ UNCHANGED <<Pinning, heads>>

\* Under the lock again: a success is the pin of a ref that had none.
Keep(c) ==
    LET w == Wanted(c)
        r == RefOf[c]
        good == IsSource(asker[c].outcome)
        first == asker[c].pin = Nothing
    IN /\ asker[c].at = "publish"
       /\ leading' = [leading EXCEPT ![w] = Nothing]
       /\ kept' = IF good THEN [kept EXCEPT ![w] = asker[c].outcome] ELSE kept
       /\ pins' = IF good /\ first THEN [pins EXCEPT ![r] = asker[c].outcome] ELSE pins
       /\ resolving' = IF first THEN [resolving EXCEPT ![r] = Nothing] ELSE resolving
       /\ EndsWith(c, asker[c].outcome)
       /\ UNCHANGED <<recorded, heads, away>>

Leave(c) ==
    /\ ~Back(c) /\ asker[c].live
    /\ asker' = [asker EXCEPT ![c].live = FALSE]
    /\ UNCHANGED <<Pinning, heads, away>>

Retag(r) ==
    /\ away < MaxAway /\ away' = away + 1
    /\ \E v \in Revisions \ {heads[r]} : heads' = [heads EXCEPT ![r] = v]
    /\ UNCHANGED <<Pinning, asker>>

PinNext ==
    \/ \E c \in Askers :
         Ask(c) \/ GiveUp(c) \/ Follow(c) \/ PassGate(c) \/ Fetch(c) \/ Keep(c) \/ Leave(c)
    \/ \E r \in RefsAsked : Retag(r)

PinSpec == PinInit /\ [][PinNext]_pinVars

-----------------------------------------------------------------------------

Busy(c) == asker[c].at \in {"fetch", "publish"}

\* Whatever moves, fails, is given up or sends other files, all that is ever
\* fetched of one repository and ref is one commit with one digest, the one
\* that the locks record when they do; nobody takes over that another gave
\* up; no two fetches of one reference, or first ones of one ref, run at the
\* same time; and nobody waits for what is not under way.
OnePinPerRef ==
    /\ \A c \in Askers : Succeeded(c) =>
         /\ asker[c].outcome = pins[RefOf[c]]
         /\ \A x \in recorded : x.ref = RefOf[c] => x.pin = asker[c].outcome
    /\ \A c \in Askers : Back(c) /\ asker[c].outcome = GivenUp /\ asker[c].live => asker[c].leader = c
    /\ \A c, d \in Askers : c # d /\ Busy(c) /\ Busy(d) =>
         Wanted(c) # Wanted(d) /\ (RefOf[c] = RefOf[d] => asker[c].pin # Nothing \/ asker[d].pin # Nothing)
    /\ \A c \in Askers : asker[c].at \in {"follow", "gate"} =>
         Busy(asker[c].leader) \/ Back(asker[c].leader)
=============================================================================
