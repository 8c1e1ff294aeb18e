----------------------------- MODULE ArenaDesign -----------------------------
(***************************************************************************)
(* A design from the buyer's text to Terraform: parseDesign, renderTfvars, *)
(* the jsonb column, parseTfvars and the validations of the Terraform      *)
(* module, one function after the other.  Each checks its own input; what  *)
(* is asked is whether the checks agree.                                   *)
(*                                                                         *)
(* A field is an integer or a string, or Other: missing, of another type,  *)
(* not an integer, not in its enumeration.  CPU is counted in halves.      *)
(***************************************************************************)
EXTENDS Integers, Sequences

CONSTANTS
    Texts,          \* the texts a buyer may submit, see TextSet
    Slugs,          \* environment ids; "env" is any that matches the pattern
    StoredValues,   \* what else the jsonb column may hold when it is read
    StoredEchoes,   \* what an error repeats of such a value (a key, a path)
    MaxTextLength,
    Marker,         \* the truncation marker
    Other

\* text-safety.ts: a text is a sequence of characters, "a" an ordinary one,
\* "newline" and "bell" control characters with escapes of two and four.
ControlChars == {"newline", "bell"}
PlainChars == {"a"}
Characters == PlainChars \cup ControlChars

ASSUME TextsAssumption ==
    \A t \in Texts :
        /\ t.form \in {"tooLong", "blank", "notYaml", "yaml"}
        /\ t.form \in {"notYaml", "yaml"} => t.echo \in Seq(Characters)
ASSUME SlugsAssumption == \A slug \in Slugs : slug # "env" => slug \in Seq(Characters)
ASSUME EchoesAssumption == StoredEchoes \subseteq Seq(Characters)
ASSUME OtherAssumption == Other \notin Int \cup BOOLEAN
ASSUME MarkerAssumption ==
    MaxTextLength \in Nat /\ Marker \in Seq(PlainChars) /\ Len(Marker) < MaxTextLength

VARIABLES stage, input, output, replaced

designVars == <<stage, input, output, replaced>>

(***************************************************************************)
(* text-safety.ts                                                          *)
(***************************************************************************)
Escape(c) == CASE c = "newline" -> <<"a", "a">>
               [] c = "bell" -> <<"a", "a", "a", "a">>
               [] c \notin ControlChars -> <<c>>

\* singleLine after each turn of the loop over the characters.
EscapedUpTo(text) ==
    LET singleLine[n \in 0..Len(text)] ==
            IF n = 0 THEN <<>> ELSE singleLine[n - 1] \o Escape(text[n])
    IN  singleLine

Escaped(text) == EscapedUpTo(text)[Len(text)]

cutThenMarked(text) ==
    LET line == Escaped(text)
    IN  IF Len(line) <= MaxTextLength
        THEN line
        ELSE SubSeq(line, 1, MaxTextLength) \o Marker

sanitizeText(text) ==
    LET line == Escaped(text)
    IN  IF Len(line) <= MaxTextLength
        THEN line
        ELSE SubSeq(line, 1, MaxTextLength - Len(Marker)) \o Marker

(***************************************************************************)
(* schema.ts and parse.ts                                                  *)
(***************************************************************************)
Cpus == {1, 2, 4}
Memories == {"512Mi", "1Gi", "2Gi"}
CacheTiers == {"basic-1gb", "standard-1gb"}
DbTiers == {"micro", "small", "medium"}

apiIsValid(api) ==
    /\ api.platform = "cloudrun"
    /\ api.min_instances \in 0..5
    /\ api.max_instances \in 1..20
    /\ api.concurrency \in 1..250
    /\ api.cpu \in Cpus
    /\ api.memory \in Memories
    /\ api.max_instances >= api.min_instances
    /\ api.memory = "2Gi" => api.cpu >= 2

workersAreValid(workers) ==
    /\ workers.placement \in {"in_process", "separate_service"}
    /\ workers.min_instances \in 0..3

\* extra: some object has a key that its schema does not know.
blocksAreValid(doc) ==
    /\ ~doc.extra
    /\ doc.schema_version = 1
    /\ apiIsValid(doc.api)
    /\ workersAreValid(doc.workers)
    /\ doc.cache.enabled \in BOOLEAN /\ doc.cache.tier \in CacheTiers
    /\ doc.db.tier \in DbTiers

blocksAlone(doc) == blocksAreValid(doc)

designSchema(doc) ==
    /\ blocksAreValid(doc)
    /\ \/ doc.workers.placement # "separate_service"
       \/ doc.workers.min_instances <= doc.api.max_instances

\* A text is too long, blank, not YAML, or a document; echo is what an error
\* repeats of it (a key, a path, the parser's excerpt).
parseDesign(text) ==
    CASE text.form \in {"tooLong", "blank"} -> [ok |-> FALSE, errors |-> {<<"a">>}]
      [] text.form = "notYaml" ->
            [ok |-> FALSE, errors |-> {sanitizeText(<<"a">> \o text.echo)}]
      [] text.form = "yaml" /\ ~designSchema(text.doc) ->
            [ok |-> FALSE, errors |-> {sanitizeText(text.echo), <<"a">>}]
      [] OTHER -> [ok |-> TRUE, design |-> text.doc]

(***************************************************************************)
(* render.ts                                                               *)
(***************************************************************************)
renderTfvars(design, environmentId) ==
    LET workersAreSeparate == design.workers.placement = "separate_service"
    IN  [environment_id |-> environmentId,
         api_min_instances |-> design.api.min_instances,
         api_max_instances |-> design.api.max_instances,
         api_concurrency |-> design.api.concurrency,
         api_cpu |-> design.api.cpu,
         api_memory |-> design.api.memory,
         worker_service_enabled |-> workersAreSeparate,
         worker_min_instances |-> IF workersAreSeparate THEN design.workers.min_instances ELSE 0,
         worker_max_instances |-> design.api.max_instances,
         cache_enabled |-> design.cache.enabled,
         cache_tier |-> design.cache.tier,
         db_tier |-> design.db.tier,
         extra |-> FALSE]

arenaTfvarsSchema(v) ==
    /\ ~v.extra
    /\ v.environment_id = "env"
    /\ v.api_min_instances \in 0..5
    /\ v.api_max_instances \in 1..20
    /\ v.api_concurrency \in 1..250
    /\ v.api_cpu \in Cpus
    /\ v.api_memory \in Memories
    /\ v.worker_service_enabled \in BOOLEAN
    /\ v.worker_min_instances \in 0..3
    /\ v.worker_max_instances \in 1..20
    /\ v.cache_enabled \in BOOLEAN /\ v.cache_tier \in CacheTiers
    /\ v.db_tier \in DbTiers

\* The validation blocks of the Terraform module, for the variables that
\* have the type their block declares.
variablesAreValid(v) ==
    /\ v.environment_id = "env"
    /\ v.api_min_instances >= 0 /\ v.api_min_instances <= 5
    /\ v.api_max_instances >= 1 /\ v.api_max_instances <= 20
    /\ v.api_concurrency >= 1 /\ v.api_concurrency <= 250
    /\ v.api_cpu \in {1, 2, 4}
    /\ v.api_memory \in {"512Mi", "1Gi", "2Gi"}
    /\ v.worker_min_instances >= 0 /\ v.worker_min_instances <= 3
    /\ v.worker_max_instances >= 1 /\ v.worker_max_instances <= 20
    /\ v.cache_tier \in {"basic-1gb", "standard-1gb"}
    /\ v.db_tier \in {"micro", "small", "medium"}

(***************************************************************************)
(* The path of one design                                                  *)
(***************************************************************************)
DesignInit ==
    /\ stage = "idle"
    /\ input = [text |-> [form |-> "blank"], slug |-> "env"]
    /\ output = [ok |-> FALSE, errors |-> {}]
    /\ replaced = FALSE

Submit ==
    /\ stage = "idle"
    /\ stage' = "text"
    /\ \E text \in Texts, slug \in Slugs : input' = [text |-> text, slug |-> slug]
    /\ UNCHANGED <<output, replaced>>

\* The errors are stored with a rejected turn and shown to the buyer.
ParseDesign ==
    /\ stage = "text"
    /\ LET result == parseDesign(input.text)
       IN  /\ stage' = IF result.ok THEN "design" ELSE "refused"
           /\ output' = IF result.ok THEN result.design ELSE result
    /\ UNCHANGED <<input, replaced>>

RenderTfvars ==
    /\ stage = "design"
    /\ input.slug = "env"
    /\ stage' = "tfvars"
    /\ output' = renderTfvars(output, input.slug)
    /\ UNCHANGED <<input, replaced>>

\* What stands before and after the slug in the error thrown.
ThrownPrefix == <<"a">>
ThrownQuote == <<"a">>

\* The slug does not match its pattern: renderTfvars throws.
RenderThrows ==
    /\ stage = "design"
    /\ input.slug # "env"
    /\ stage' = "threw"
    /\ output' = [ok |-> FALSE, errors |-> {ThrownPrefix \o sanitizeText(input.slug) \o ThrownQuote}]
    /\ UNCHANGED <<input, replaced>>

\* The variables rest in arena_turns.tfvars; a migration, an UPDATE by hand or
\* a restored backup may replace them.
Stored ==
    /\ stage = "tfvars"
    /\ stage' = "stored"
    /\ UNCHANGED <<input, output, replaced>>

Replaced ==
    /\ stage = "tfvars"
    /\ stage' = "stored"
    /\ output' \in StoredValues
    /\ replaced' = TRUE
    /\ UNCHANGED input

ParseTfvars ==
    /\ stage = "stored"
    /\ arenaTfvarsSchema(output)
    /\ stage' = "vetted"
    /\ UNCHANGED <<input, output, replaced>>

\* The runner joins the sanitized issues to a text of its own and stores that,
\* sanitized, as the error of the turn.
ParseTfvarsFails ==
    /\ stage = "stored"
    /\ ~arenaTfvarsSchema(output)
    /\ stage' = "failed"
    /\ \E echo \in StoredEchoes :
          output' = [ok |-> FALSE, errors |-> {sanitizeText(<<"a">> \o sanitizeText(echo))}]
    /\ UNCHANGED <<input, replaced>>

\* The runner writes the variables to a file and Terraform reads it.
TerraformReads ==
    /\ stage = "vetted"
    /\ stage' = IF variablesAreValid(output) THEN "planned" ELSE "rejected"
    /\ UNCHANGED <<input, output, replaced>>

DesignNext ==
    \/ Submit \/ ParseDesign \/ RenderTfvars \/ RenderThrows
    \/ Stored \/ Replaced \/ ParseTfvars \/ ParseTfvarsFails
    \/ TerraformReads

DesignSpec == DesignInit /\ [][DesignNext]_designVars

(***************************************************************************)
(* Properties                                                              *)
(***************************************************************************)
\* What Cloud Run itself demands of a service, which no schema after
\* designSchema repeats.
CloudRunAccepts(v) ==
    /\ v.api_min_instances <= v.api_max_instances
    /\ v.worker_service_enabled => v.worker_min_instances <= v.worker_max_instances
    /\ v.api_memory = "2Gi" => v.api_cpu >= 2

\* A design that parses is deployable: unless someone touches the stored row,
\* no later check refuses what an earlier one let through, and Cloud Run accepts
\* the bounds taken together.  Touched or not, what parseTfvars lets through the
\* validations of the Terraform module let through too.
AcceptedIsDeployable ==
    /\ stage # "rejected"
    /\ stage = "failed" => replaced
    /\ stage = "planned" /\ ~replaced => CloudRunAccepts(output)

\* Whatever a buyer writes or the stored row holds, a refusal has an error to show,
\* and every error is one line of bounded length: the bound is MaxTextLength where
\* the whole of it is sanitized, and the message around the slug more when
\* renderTfvars throws.
OneLine(text, bound) ==
    /\ \A i \in 1..Len(text) : text[i] \notin ControlChars
    /\ Len(text) <= bound

RefusalsAreOneLine ==
    stage \in {"refused", "threw", "failed"} =>
        /\ output.errors # {}
        /\ \A e \in output.errors :
              OneLine(e, IF stage = "threw"
                         THEN MaxTextLength + Len(ThrownPrefix) + Len(ThrownQuote)
                         ELSE MaxTextLength)

=============================================================================
