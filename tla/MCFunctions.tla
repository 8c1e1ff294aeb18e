------------------------------ MODULE MCFunctions ------------------------------
(***************************************************************************)
(* The functions of the arena package and the command line of scenarios:   *)
(* they share nothing, so each behaviour takes one of the three.  Here are *)
(* the inputs: every field at, inside and past each of its bounds, the     *)
(* fields that constrain each other in all combinations.                   *)
(***************************************************************************)
EXTENDS ArenaDesign, ArenaScore, ScenarioRelease, TLC

(***************************************************************************)
(* Designs                                                                 *)
(***************************************************************************)
Document(amin, amax, cpu, memory, placement, wmin) ==
    [extra |-> FALSE, schema_version |-> 1,
     api |-> [platform |-> "cloudrun", min_instances |-> amin, max_instances |-> amax,
              concurrency |-> 80, cpu |-> cpu, memory |-> memory],
     workers |-> [placement |-> placement, min_instances |-> wmin],
     cache |-> [enabled |-> TRUE, tier |-> "basic-1gb"],
     db |-> [tier |-> "small"]]

Interacting ==
    {Document(amin, amax, cpu, memory, placement, wmin) :
        amin \in {-1, 0, 1, 2, 5, 6, Other}, amax \in {0, 1, 2, 5, 20, 21, Other},
        cpu \in {1, 2, 4, 8}, memory \in {"1Gi", "2Gi", Other},
        placement \in {"in_process", "separate_service", Other},
        wmin \in {-1, 0, 1, 2, 3, 4}}

Plain == Document(1, 5, 2, "1Gi", "separate_service", 1)

\* One other field out of place, or at the edge of its range.
Odd ==
    {[Plain EXCEPT !.extra = TRUE]}
    \cup {[Plain EXCEPT !.schema_version = v] : v \in {2, Other}}
    \cup {[Plain EXCEPT !.api.platform = Other]}
    \cup {[Plain EXCEPT !.api.concurrency = n] : n \in {0, 1, 250, 251, Other}}
    \cup {[Plain EXCEPT !.cache = [enabled |-> e, tier |-> t]] :
            e \in BOOLEAN \cup {Other}, t \in CacheTiers \cup {Other}}
    \cup {[Plain EXCEPT !.db.tier = t] : t \in DbTiers \cup {Other}}

Echoes == {<<>>, <<"a">>, <<"newline">>, <<"bell", "a">>, <<"a", "bell", "bell">>,
           <<"newline", "newline", "newline", "a">>}

TextSet ==
    {[form |-> "yaml", doc |-> d, echo |-> <<"a", "newline">>] : d \in Interacting \cup Odd}
    \cup {[form |-> "yaml", doc |-> [Plain EXCEPT !.extra = TRUE], echo |-> e] : e \in Echoes}
    \cup {[form |-> "notYaml", echo |-> e] : e \in Echoes}
    \cup {[form |-> f] : f \in {"tooLong", "blank"}}

SlugSet == {"env", <<"a", "newline", "bell">>}

MarkerText == <<"a", "a">>

Rendered == renderTfvars(Plain, "env")

\* What a migration or an UPDATE by hand may leave: one variable changed.
ReplacedSet ==
    {[Rendered EXCEPT !.extra = TRUE]}
    \cup {[Rendered EXCEPT !.api_min_instances = n] : n \in {-1, 0, 5, 6, Other}}
    \cup {[Rendered EXCEPT !.api_max_instances = n] : n \in {0, 1, 20, 21, Other}}
    \cup {[Rendered EXCEPT !.api_concurrency = n] : n \in {0, 1, 250, 251, Other}}
    \cup {[Rendered EXCEPT !.api_cpu = n] : n \in {1, 2, 3, 4, Other}}
    \cup {[Rendered EXCEPT !.worker_min_instances = n] : n \in {-1, 0, 3, 4, Other}}
    \cup {[Rendered EXCEPT !.worker_max_instances = n] : n \in {0, 1, 20, 21, Other}}
    \cup {[Rendered EXCEPT !.api_memory = Other], [Rendered EXCEPT !.db_tier = Other],
          [Rendered EXCEPT !.cache_tier = Other], [Rendered EXCEPT !.cache_enabled = Other],
          [Rendered EXCEPT !.worker_service_enabled = Other]}

(***************************************************************************)
(* Usage, rates, metrics and pars                                          *)
(***************************************************************************)
MeteredSet ==
    {[f \in Metered |-> IF f = odd THEN n ELSE k] :
        odd \in Metered, n \in {-1, 0, 3, NaN, Infinity}, k \in {0, 2}}

UsageSet ==
    [metered : MeteredSet, windowHours : {-1, 0, 1, 3, NaN, Infinity},
     cacheEnabled : BOOLEAN, cacheTier : {"basic-1gb", "constructor"},
     dbTier : {"micro", "constructor"}]

RateSet ==
    {[metered |-> [f \in Metered |-> IF f = "requests" THEN 1 ELSE 2],
      redisGibHour |-> [t \in {"basic-1gb"} |-> 5],
      dbHour |-> [t \in {"micro"} |-> n]] : n \in {0, 1}}

MetricSet ==
    [apiP95Ms : {-1, 0, 1, 2, NaN, Infinity}, jobStartP95Ms : {1, 2, NaN},
     errorRate : {0, 1, NaN},
     opsEvents : {Missing, {}, {TRUE}, {FALSE}, BOOLEAN, {TRUE, Missing}}]

ParSet ==
    {[slo |-> [apiP95Ms |-> a, jobStartP95Ms |-> 1, maxErrorRate |-> e],
      budgetCeilingUsd |-> b, parMonthlyUsd |-> p] :
        a \in {0, 1, NaN}, e \in {0, Infinity}, b \in {0, 1, 2, NaN}, p \in {0, 1, 2}}

CostSet == {-1, 0, 1, 2, 3, NaN}

(***************************************************************************)
(* Scenario folders: two files and two snippets                            *)
(***************************************************************************)
Files == {"app", "util"}
Snippets == {"todo", "done"}
Contents == SUBSET Snippets

Trees == UNION {[S -> Contents] : S \in SUBSET Files}

Mutations == [file : Files, find : Snippets, replace : {{}, {"todo"}}]

FolderSet ==
    [template : {t \in Trees : "app" \in DOMAIN t /\ t["app"] = {"todo"}},
     solution : {s \in Trees : \A f \in DOMAIN s : s[f] \in {{}, {"done"}, {"todo"}}},
     suite : {{}, {<<"app", "done">>}, {<<"util", "todo">>},
              {<<"app", "done">>, <<"util", "todo">>}},
     mutations : {{m} : m \in Mutations},
     ignored : {{}}, weightsSum : {TRUE}]
    \cup
    [template : {[f \in S |-> {"todo"}] : S \in {{"app"}, Files}},
     solution : {[f \in {"app"} |-> {"done"}]},
     suite : {{<<"app", "done">>}},
     mutations : {{[file |-> "app", find |-> "done", replace |-> {}],
                   [file |-> "app", find |-> "done", replace |-> {"todo"}]}},
     ignored : {{}, {"app"}, {"util"}}, weightsSum : BOOLEAN]

Fixed(content) ==
    [template |-> [f \in {"app"} |-> content], solution |-> [f \in {"app"} |-> {"done"}],
     suite |-> {<<"app", "done">>},
     mutations |-> {[file |-> "app", find |-> "done", replace |-> {}]},
     ignored |-> {}, weightsSum |-> TRUE]

RewriteSet == {Fixed({"todo"}), Fixed({}), Fixed({"done"})}

(***************************************************************************)
(* One of the three                                                        *)
(***************************************************************************)
Init == DesignInit /\ ScoreInit /\ ReleaseInit

DesignIdle == stage = "idle"
ScoreIdle == asked.fn = "none"
ReleaseIdle == folder = NoTree

Next ==
    \/ ScoreIdle /\ ReleaseIdle /\ DesignNext /\ UNCHANGED <<scoreVars, releaseVars>>
    \/ DesignIdle /\ ReleaseIdle /\ ScoreNext /\ UNCHANGED <<designVars, releaseVars>>
    \/ DesignIdle /\ ScoreIdle /\ ReleaseNext /\ UNCHANGED <<designVars, scoreVars>>

Spec == Init /\ [][Next]_<<designVars, scoreVars, releaseVars>>
=============================================================================
