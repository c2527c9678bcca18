----------------------------- MODULE MCServices -----------------------------
(* The modules of the services around the pipeline, checked in one run.  They *)
(* share no state: a behaviour picks one of them at the start and the others  *)
(* stay as they were initially.                                                 *)
EXTENDS Catalog, Stealth, Todos, ReleaseLists, GithubTokens, Onboarding, Sessions, Events, Registries

VARIABLE part

Parts == {"catalog", "stealth", "todos", "lists", "tokens", "onboard", "sessions", "events", "registries"}
allVars == <<part, catalogVars, stealthVars, todoVars, listVars, tokenVars, onboardVars, sessionVars, eventVars, registryVars>>

\* a choice at the start of a part that does not run is made once
Settled == /\ part # "catalog" => backend = CHOOSE b \in Backends : TRUE
           /\ part # "onboard" => llm = CHOOSE b \in Extractors : TRUE
           /\ part # "tokens" => /\ env = CHOOSE e \in Setups : TRUE
                                 /\ default = IF env.default THEN CHOOSE i \in Insts : TRUE ELSE NoInst
                                 /\ gh = [r \in GhRepos |-> NoInst]

Init == /\ part \in Parts
        /\ CatalogInit /\ StealthInit /\ TodosInit /\ ListsInit /\ TokensInit /\ OnboardInit
        /\ SessionsInit /\ EventsInit /\ RegistriesInit
        /\ Settled

Next == /\ part' = part
        /\ \/ part = "catalog" /\ CatalogNext
           \/ part # "catalog" /\ UNCHANGED catalogVars
        /\ \/ part = "stealth" /\ StealthNext
           \/ part # "stealth" /\ UNCHANGED stealthVars
        /\ \/ part = "todos" /\ TodosNext
           \/ part # "todos" /\ UNCHANGED todoVars
        /\ \/ part = "lists" /\ ListsNext
           \/ part # "lists" /\ UNCHANGED listVars
        /\ \/ part = "tokens" /\ TokensNext
           \/ part # "tokens" /\ UNCHANGED tokenVars
        /\ \/ part = "onboard" /\ OnboardNext
           \/ part # "onboard" /\ UNCHANGED onboardVars
        /\ \/ part = "sessions" /\ SessionsNext
           \/ part # "sessions" /\ UNCHANGED sessionVars
        /\ \/ part = "events" /\ EventsNext
           \/ part # "events" /\ UNCHANGED eventVars
        /\ \/ part = "registries" /\ RegistriesNext
           \/ part # "registries" /\ UNCHANGED registryVars

Spec == Init /\ [][Next]_allVars

-----------------------------------------------------------------------------
MCGroupOf == [i \in {"r1", "r2", "q", "s1", "s2"} |-> IF i \in {"r1", "r2"} THEN "A" ELSE "B"]

V(pre, nums, tail) == [pre |-> pre, nums |-> nums, tail |-> tail]
MCVers == {V(<<>>, <<1, 9, 0>>, ""), V(<<"v">>, <<2, 0, 0>>, "-security"), V(<<"V">>, <<2, 0>>, "-rc")}
MCPatterns == {NoFilter, [kind |-> "empty", matches |-> {}], [kind |-> "broken", matches |-> {}],
               [kind |-> "regex", matches |-> {v \in MCVers : v.tail # ""}]}
MCRulePattern == {v \in MCVers : v.tail = "-rc"}

Setup(app, dflt, static) == [app |-> app, default |-> dflt, static |-> static]
MCSetups == {Setup(TRUE, FALSE, TRUE), Setup(TRUE, TRUE, TRUE), Setup(FALSE, FALSE, TRUE)}

MCDateSets == {{}, {"config", "child"}}

=============================================================================
