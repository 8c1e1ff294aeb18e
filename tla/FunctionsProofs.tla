--------------------------- MODULE FunctionsProofs ---------------------------
(***************************************************************************)
(* The functions of the arena package and the release of a scenario, for   *)
(* every text, every set of metrics and every folder.                      *)
(***************************************************************************)
EXTENDS ArenaDesign, ArenaScore, ScenarioRelease, WellFoundedInduction, TLAPS

(***************************************************************************)
(* Designs                                                                 *)
(***************************************************************************)
LEMMA ParsedIsValid ==
    ASSUME NEW text \in Texts, parseDesign(text).ok
    PROVE  designSchema(parseDesign(text).design)
<1>1. text.form = "yaml" /\ designSchema(text.doc)
  BY TextsAssumption DEF parseDesign
<1>2. parseDesign(text).design = text.doc
  BY <1>1 DEF parseDesign
<1>3. QED
  BY <1>1, <1>2

\* The bounds of the parts carry over to the variables, and together they are
\* what Cloud Run takes.
LEMMA RenderedIsDeployable ==
    ASSUME NEW design, designSchema(design)
    PROVE  /\ arenaTfvarsSchema(renderTfvars(design, "env"))
           /\ CloudRunAccepts(renderTfvars(design, "env"))
<1> DEFINE v == renderTfvars(design, "env")
<1>1. /\ apiIsValid(design.api) /\ workersAreValid(design.workers)
      /\ design.cache.enabled \in BOOLEAN /\ design.cache.tier \in CacheTiers
      /\ design.db.tier \in DbTiers
      /\ design.workers.placement = "separate_service"
           => design.workers.min_instances <= design.api.max_instances
  BY DEF designSchema, blocksAreValid
<1>2. /\ v.environment_id = "env" /\ v.extra = FALSE
      /\ v.api_min_instances = design.api.min_instances
      /\ v.api_max_instances = design.api.max_instances
      /\ v.api_concurrency = design.api.concurrency
      /\ v.api_cpu = design.api.cpu /\ v.api_memory = design.api.memory
      /\ v.worker_max_instances = design.api.max_instances
      /\ v.cache_enabled = design.cache.enabled /\ v.cache_tier = design.cache.tier
      /\ v.db_tier = design.db.tier
      /\ v.worker_service_enabled = (design.workers.placement = "separate_service")
      /\ v.worker_min_instances = IF design.workers.placement = "separate_service"
                                  THEN design.workers.min_instances ELSE 0
  BY DEF renderTfvars
<1>3. v.worker_min_instances \in 0..3
  BY <1>1, <1>2 DEF workersAreValid
<1>4. arenaTfvarsSchema(v)
  BY <1>1, <1>2, <1>3 DEF apiIsValid, arenaTfvarsSchema
<1>5. CloudRunAccepts(v)
  BY <1>1, <1>2 DEF apiIsValid, workersAreValid, CloudRunAccepts, Cpus
<1>6. QED
  BY <1>4, <1>5

\* The two lists of bounds, in TypeScript and in Terraform, agree.
LEMMA VettedIsValid ==
    ASSUME NEW v, arenaTfvarsSchema(v)
    PROVE  variablesAreValid(v)
  BY DEF arenaTfvarsSchema, variablesAreValid, Cpus, Memories, CacheTiers, DbTiers

DesignInv ==
    /\ stage = "text" => input.text \in Texts
    /\ stage = "design" => designSchema(output)
    /\ stage \in {"tfvars", "stored"} /\ ~replaced =>
          arenaTfvarsSchema(output) /\ CloudRunAccepts(output)
    /\ stage = "tfvars" => ~replaced
    /\ stage \in {"idle", "text", "design"} => ~replaced
    /\ stage = "vetted" =>
          arenaTfvarsSchema(output) /\ (~replaced => CloudRunAccepts(output))
    /\ AcceptedIsDeployable

LEMMA DesignStep == DesignInv /\ [DesignNext]_designVars => DesignInv'
<1> SUFFICES ASSUME DesignInv, [DesignNext]_designVars PROVE DesignInv'
  OBVIOUS
<1> USE DEF DesignInv, AcceptedIsDeployable
<1>1. CASE Submit
  BY <1>1 DEF Submit
<1>2. CASE ParseDesign
  BY <1>2, ParsedIsValid DEF ParseDesign
<1>3. CASE RenderTfvars
  BY <1>3, RenderedIsDeployable DEF RenderTfvars
<1>4. CASE RenderThrows
  BY <1>4 DEF RenderThrows
<1>5. CASE Stored
  BY <1>5 DEF Stored, CloudRunAccepts, arenaTfvarsSchema
<1>6. CASE Replaced
  BY <1>6 DEF Replaced
<1>7. CASE ParseTfvars
  BY <1>7 DEF ParseTfvars, CloudRunAccepts, arenaTfvarsSchema
<1>10. CASE ParseTfvarsFails
  BY <1>10 DEF ParseTfvarsFails
<1>8. CASE TerraformReads
  BY <1>8, VettedIsValid DEF TerraformReads, CloudRunAccepts
<1>9. CASE UNCHANGED designVars
  BY <1>9 DEF designVars, CloudRunAccepts, arenaTfvarsSchema, designSchema
<1>11. QED
  BY <1>1, <1>2, <1>3, <1>4, <1>5, <1>6, <1>7, <1>10, <1>8, <1>9 DEF DesignNext

\* Whatever the buyer writes and whatever is put in the stored row, no check
\* refuses what an earlier one let through, and an untouched design is one that
\* Cloud Run takes.
THEOREM DesignsDeploy == DesignSpec => []AcceptedIsDeployable
<1>1. DesignInit => DesignInv
  BY DEF DesignInit, DesignInv, AcceptedIsDeployable
<1>2. DesignInv => AcceptedIsDeployable
  BY DEF DesignInv
<1>3. QED
  BY <1>1, <1>2, DesignStep, PTL DEF DesignSpec

(***************************************************************************)
(* Texts                                                                   *)
(***************************************************************************)
\* A set of numbers has a least one.  This is the induction that the functions
\* over texts need: the set holds the positions where a claim fails.
LEMMA LeastNumber ==
    ASSUME NEW S, S \subseteq Nat, S # {}
    PROVE  \E m \in S : \A n \in S : m <= n
<1>1. PICK m \in S : \A n \in S : ~ (<<n, m>> \in OpToRel(<, Nat))
  BY NatLessThanWellFounded, WFMin
<1>2. \A n \in S : ~(n < m)
  BY <1>1 DEF OpToRel
<1>3. QED
  BY <1>2

\* g holds what the loop has produced after each of the first n characters.
IsLine(text, n, g) ==
    /\ g \in [0..n -> Seq(PlainChars)]
    /\ g[0] = <<>>
    /\ \A i \in 1..n : g[i] = g[i - 1] \o Escape(text[i])

LEMMA EscapePlain == \A c \in Characters : Escape(c) \in Seq(PlainChars)
<1> SUFFICES ASSUME NEW c \in Characters PROVE Escape(c) \in Seq(PlainChars)
  OBVIOUS
<1>1. CASE c = "newline"
  BY <1>1 DEF Escape, PlainChars, ControlChars
<1>2. CASE c = "bell"
  BY <1>2 DEF Escape, PlainChars, ControlChars
<1>3. CASE c = "a"
  BY <1>3 DEF Escape, PlainChars, ControlChars
<1>4. QED
  BY <1>1, <1>2, <1>3 DEF Characters, PlainChars, ControlChars

\* The recursion has a solution, and so EscapedUpTo chooses one.
LEMMA LineExists ==
    ASSUME NEW text \in Seq(Characters), NEW n \in 0..Len(text)
    PROVE  \E g : IsLine(text, n, g)
<1> DEFINE Unsolved == {k \in 0..Len(text) : ~ \E g : IsLine(text, k, g)}
<1> SUFFICES ASSUME Unsolved # {} PROVE FALSE
  OBVIOUS
<1>1. Len(text) \in Nat
  OBVIOUS
<1> HIDE DEF Unsolved
<1>2. PICK m \in Unsolved : \A k \in Unsolved : m <= k
  <2>1. Unsolved \subseteq Nat
    BY <1>1 DEF Unsolved
  <2>2. QED
    BY <2>1, LeastNumber
<1> USE DEF Unsolved
<1>3. m # 0
  <2>1. IsLine(text, 0, [i \in 0..0 |-> <<>>])
    BY DEF IsLine
  <2>2. QED
    BY <2>1
<1>4. m - 1 \in 0..Len(text) /\ m - 1 \notin Unsolved
  BY <1>1, <1>2, <1>3
<1>5. PICK g : IsLine(text, m - 1, g)
  BY <1>4
<1> DEFINE h == [i \in 0..m |-> IF i = m THEN g[m - 1] \o Escape(text[m]) ELSE g[i]]
<1>6. m \in 1..Len(text)
  BY <1>1, <1>3
<1>7. text[m] \in Characters /\ Escape(text[m]) \in Seq(PlainChars)
  BY <1>6, EscapePlain
<1>8. g[m - 1] \in Seq(PlainChars)
  BY <1>5, <1>6 DEF IsLine
<1>9. h \in [0..m -> Seq(PlainChars)]
  BY <1>5, <1>6, <1>7, <1>8 DEF IsLine
<1>10. IsLine(text, m, h)
  <2>1. h[0] = <<>>
    BY <1>5, <1>6 DEF IsLine
  <2>2. ASSUME NEW i \in 1..m PROVE h[i] = h[i - 1] \o Escape(text[i])
    <3>1. CASE i = m
      BY <1>6, <3>1
    <3>2. CASE i # m
      <4>1. i \in 1..(m - 1) /\ i \in 0..m /\ i - 1 \in 0..m /\ i - 1 # m
        BY <1>6, <3>2
      <4>2. h[i] = g[i] /\ h[i - 1] = g[i - 1]
        BY <4>1, <3>2
      <4>3. g[i] = g[i - 1] \o Escape(text[i])
        BY <4>1, <1>5 DEF IsLine
      <4>4. QED
        BY <4>2, <4>3
    <3>3. QED
      BY <3>1, <3>2
  <2>3. QED
    BY <1>9, <2>1, <2>2 DEF IsLine
<1>11. QED
  BY <1>10

LEMMA EscapedIsLine ==
    ASSUME NEW text \in Seq(Characters)
    PROVE  IsLine(text, Len(text), EscapedUpTo(text))
<1> DEFINE F(g) == [n \in 0..Len(text) |->
                      IF n = 0 THEN <<>> ELSE g[n - 1] \o Escape(text[n])]
           L == EscapedUpTo(text)
<1>0. Len(text) \in Nat
  OBVIOUS
<1>1. PICK g : IsLine(text, Len(text), g)
  BY <1>0, LineExists
<1>2. g = F(g)
  <2>1. g = [n \in 0..Len(text) |-> g[n]]
    BY <1>1 DEF IsLine
  <2>2. \A n \in 0..Len(text) : n = 0 \/ n \in 1..Len(text)
    BY <1>0
  <2>3. \A n \in 0..Len(text) : g[n] = IF n = 0 THEN <<>> ELSE g[n - 1] \o Escape(text[n])
    BY <1>0, <1>1, <2>2 DEF IsLine
  <2>4. QED
    BY <2>1, <2>3
<1>3. L = CHOOSE l : l = F(l)
  BY DEF EscapedUpTo
<1>4. L = F(L)
  BY <1>2, <1>3
<1> HIDE DEF L
<1>5. \A n \in 0..Len(text) : L[n] = IF n = 0 THEN <<>> ELSE L[n - 1] \o Escape(text[n])
  BY <1>4
<1>6. L[0] = <<>> /\ \A i \in 1..Len(text) : L[i] = L[i - 1] \o Escape(text[i])
  <2>1. 0 \in 0..Len(text) /\ \A i \in 1..Len(text) : i \in 0..Len(text) /\ i # 0
    BY <1>0
  <2>2. QED
    BY <2>1, <1>5
<1> DEFINE Wrong == {k \in 0..Len(text) : L[k] \notin Seq(PlainChars)}
<1>7. Wrong = {}
  <2> SUFFICES ASSUME Wrong # {} PROVE FALSE
    OBVIOUS
  <2>1. Wrong \subseteq Nat
    BY <1>0
  <2> HIDE DEF Wrong
  <2>2. PICK m \in Wrong : \A k \in Wrong : m <= k
    BY <2>1, LeastNumber
  <2> USE DEF Wrong
  <2>3. m # 0
    <3>1. L[m] \notin Seq(PlainChars) /\ <<>> \in Seq(PlainChars)
      OBVIOUS
    <3>2. QED
      BY <1>6, <3>1
  <2>4. m \in 1..Len(text) /\ m - 1 \in 0..Len(text)
    BY <1>0, <2>3
  <2>5. L[m - 1] \in Seq(PlainChars)
    BY <2>2, <2>4
  <2>6. Escape(text[m]) \in Seq(PlainChars)
    BY <2>4, EscapePlain
  <2>7. L[m] = L[m - 1] \o Escape(text[m])
    BY <2>4, <1>6
  <2>8. L[m] \in Seq(PlainChars)
    BY <2>5, <2>6, <2>7
  <2>9. QED
    BY <2>8
<1>8. L \in [0..Len(text) -> Seq(PlainChars)]
  <2>1. \A n \in 0..Len(text) : L[n] \in Seq(PlainChars)
    BY <1>7
  <2>2. L = [n \in 0..Len(text) |-> L[n]]
    BY <1>4
  <2>3. QED
    BY <2>1, <2>2
<1>9. QED
  BY <1>6, <1>8 DEF IsLine, L

\* No control character is left of any text.
LEMMA EscapedIsPlain ==
    ASSUME NEW text \in Seq(Characters)
    PROVE  Escaped(text) \in Seq(PlainChars)
<1>1. Len(text) \in 0..Len(text)
  OBVIOUS
<1>2. QED
  BY <1>1, EscapedIsLine DEF IsLine, Escaped
\* Whatever the text, what is shown of it is plain and at most so long.
LEMMA SanitizedIsPlain ==
    ASSUME NEW text \in Seq(Characters)
    PROVE  /\ sanitizeText(text) \in Seq(PlainChars)
           /\ Len(sanitizeText(text)) <= MaxTextLength
<1> DEFINE line == Escaped(text)
<1>1. line \in Seq(PlainChars) /\ Len(line) \in Nat
  BY EscapedIsPlain
<1>2. MaxTextLength \in Nat /\ Marker \in Seq(PlainChars) /\ Len(Marker) < MaxTextLength
      /\ Len(Marker) \in Nat
  BY MarkerAssumption DEF PlainChars
<1> HIDE DEF line
<1>3. CASE Len(line) <= MaxTextLength
  BY <1>1, <1>3 DEF sanitizeText, line
<1>4. CASE Len(line) > MaxTextLength
  <2> DEFINE k == MaxTextLength - Len(Marker)
  <2>1. k \in 1..Len(line)
    BY <1>1, <1>2, <1>4
  <2>2. SubSeq(line, 1, k) \in Seq(PlainChars) /\ Len(SubSeq(line, 1, k)) = k
    BY <1>1, <2>1
  <2>3. sanitizeText(text) = SubSeq(line, 1, k) \o Marker
    BY <1>1, <1>2, <1>4 DEF sanitizeText, line
  <2> HIDE DEF k
  <2>4. /\ SubSeq(line, 1, k) \o Marker \in Seq(PlainChars)
        /\ Len(SubSeq(line, 1, k) \o Marker) = k + Len(Marker)
    BY <1>2, <2>2, <2>1
  <2>5. QED
    BY <1>2, <2>3, <2>4 DEF k
<1>5. QED
  BY <1>1, <1>2, <1>3, <1>4

\* A plain text is left as it is.
LEMMA PlainIsKept ==
    ASSUME NEW text \in Seq(PlainChars)
    PROVE  Escaped(text) = text
<1> DEFINE L == EscapedUpTo(text)
           Wrong == {k \in 0..Len(text) : L[k] # SubSeq(text, 1, k)}
<1>1. Len(text) \in Nat /\ text \in Seq(Characters)
  BY DEF Characters
<1>2. IsLine(text, Len(text), L)
  BY <1>1, EscapedIsLine
<1>3. Wrong = {}
  <2> SUFFICES ASSUME Wrong # {} PROVE FALSE
    OBVIOUS
  <2>1. Wrong \subseteq Nat
    BY <1>1
  <2> HIDE DEF Wrong
  <2>2. PICK m \in Wrong : \A k \in Wrong : m <= k
    BY <2>1, LeastNumber
  <2> USE DEF Wrong
  <2> HIDE DEF L
  <2>3. m # 0
    <3>1. SubSeq(text, 1, 0) = <<>>
      OBVIOUS
    <3>2. QED
      BY <1>2, <3>1 DEF IsLine
  <2>4. m \in 1..Len(text) /\ m - 1 \in 0..Len(text)
    BY <1>1, <2>3
  <2>5. L[m - 1] = SubSeq(text, 1, m - 1)
    BY <2>2, <2>4
  <2>6. Escape(text[m]) = <<text[m]>>
    BY <2>4 DEF Escape, PlainChars, ControlChars
  <2>7. L[m] = SubSeq(text, 1, m - 1) \o <<text[m]>>
    BY <1>2, <2>4, <2>5, <2>6 DEF IsLine
  <2>8. SubSeq(text, 1, m - 1) \o <<text[m]>> = SubSeq(text, 1, m)
    BY <1>1, <2>4
  <2>9. QED
    BY <2>7, <2>8
<1>4. L[Len(text)] = SubSeq(text, 1, Len(text))
  BY <1>1, <1>3
<1>5. SubSeq(text, 1, Len(text)) = text
  OBVIOUS
<1>6. QED
  BY <1>4, <1>5 DEF Escaped

\* parseDesign sanitizes an error, and the runner sanitizes what it stores of one:
\* the second time changes nothing.
THEOREM SanitizedTwice ==
    ASSUME NEW text \in Seq(Characters)
    PROVE  sanitizeText(sanitizeText(text)) = sanitizeText(text)
<1>1. sanitizeText(text) \in Seq(PlainChars) /\ Len(sanitizeText(text)) <= MaxTextLength
  BY SanitizedIsPlain
<1>2. Escaped(sanitizeText(text)) = sanitizeText(text)
  BY <1>1, PlainIsKept
<1>3. \A t : Escaped(t) = t /\ Len(t) <= MaxTextLength => sanitizeText(t) = t
  BY DEF sanitizeText
<1>4. QED
  BY <1>1, <1>2, <1>3

(***************************************************************************)
(* Refusals                                                                *)
(***************************************************************************)
LEMMA PlainIsOneLine ==
    ASSUME NEW text \in Seq(PlainChars), Len(text) <= MaxTextLength
    PROVE  OneLine(text, MaxTextLength)
<1>1. \A i \in 1..Len(text) : text[i] \in PlainChars
  OBVIOUS
<1>2. QED
  BY <1>1 DEF OneLine, PlainChars, ControlChars

LEMMA SanitizedIsOneLine ==
    ASSUME NEW text \in Seq(Characters)
    PROVE  OneLine(sanitizeText(text), MaxTextLength)
  BY SanitizedIsPlain, PlainIsOneLine

LEMMA RefusedIsOneLine ==
    ASSUME NEW text \in Texts, ~parseDesign(text).ok
    PROVE  /\ parseDesign(text).errors # {}
           /\ \A e \in parseDesign(text).errors : OneLine(e, MaxTextLength)
<1>1. OneLine(<<"a">>, MaxTextLength)
  <2>1. <<"a">> \in Seq(PlainChars) /\ Len(<<"a">>) = 1
    BY DEF PlainChars
  <2>2. 1 <= MaxTextLength
    BY MarkerAssumption
  <2>3. QED
    BY <2>1, <2>2, PlainIsOneLine
<1>2. CASE text.form \in {"tooLong", "blank"}
  BY <1>1, <1>2 DEF parseDesign
<1>3. CASE text.form = "notYaml"
  <2>1. <<"a">> \o text.echo \in Seq(Characters)
    BY <1>3, TextsAssumption DEF Characters, PlainChars
  <2>2. OneLine(sanitizeText(<<"a">> \o text.echo), MaxTextLength)
    BY <2>1, SanitizedIsOneLine
  <2>3. parseDesign(text).errors = {sanitizeText(<<"a">> \o text.echo)}
    BY <1>3 DEF parseDesign
  <2>4. QED
    BY <2>2, <2>3
<1>4. CASE text.form = "yaml"
  <2>1. OneLine(sanitizeText(text.echo), MaxTextLength)
    BY <1>4, TextsAssumption, SanitizedIsOneLine
  <2>2. ~designSchema(text.doc)
    BY <1>4 DEF parseDesign
  <2>3. parseDesign(text).errors = {sanitizeText(text.echo), <<"a">>}
    BY <1>4, <2>2 DEF parseDesign
  <2>4. QED
    BY <1>1, <2>1, <2>3
<1>5. QED
  BY <1>2, <1>3, <1>4, TextsAssumption

\* The message around the slug is fixed and plain.
LEMMA ThrownIsOneLine ==
    ASSUME NEW slug \in Seq(Characters)
    PROVE  OneLine(ThrownPrefix \o sanitizeText(slug) \o ThrownQuote,
                   MaxTextLength + Len(ThrownPrefix) + Len(ThrownQuote))
<1> DEFINE shown == sanitizeText(slug)
           whole == ThrownPrefix \o shown \o ThrownQuote
<1>1. shown \in Seq(PlainChars) /\ Len(shown) <= MaxTextLength /\ MaxTextLength \in Nat
  BY SanitizedIsPlain, MarkerAssumption
<1>2. /\ ThrownPrefix \in Seq(PlainChars) /\ Len(ThrownPrefix) = 1
      /\ ThrownQuote \in Seq(PlainChars) /\ Len(ThrownQuote) = 1
  BY DEF ThrownPrefix, ThrownQuote, PlainChars
<1> HIDE DEF shown
<1>3. whole \in Seq(PlainChars) /\ Len(whole) = Len(shown) + 2
  <2>1. \A a, b \in Seq(PlainChars) :
            a \o b \in Seq(PlainChars) /\ Len(a \o b) = Len(a) + Len(b)
    OBVIOUS
  <2>2. /\ ThrownPrefix \o shown \in Seq(PlainChars)
        /\ Len(ThrownPrefix \o shown) = Len(ThrownPrefix) + Len(shown)
    BY <1>1, <1>2, <2>1, Zenon
  <2>3. /\ whole \in Seq(PlainChars)
        /\ Len(whole) = Len(ThrownPrefix \o shown) + Len(ThrownQuote)
    BY <1>2, <2>1, <2>2, Zenon
  <2>4. Len(shown) \in Nat
    BY <1>1
  <2>5. QED
    BY <1>2, <2>2, <2>3, <2>4
<1>4. Len(whole) <= MaxTextLength + Len(ThrownPrefix) + Len(ThrownQuote)
  <2>1. Len(shown) \in Nat
    BY <1>1
  <2>2. QED
    BY <1>1, <1>2, <1>3, <2>1
<1>5. \A i \in 1..Len(whole) : whole[i] \in PlainChars
  BY <1>3
<1>6. QED
  BY <1>4, <1>5 DEF OneLine, PlainChars, ControlChars, shown

RefusalInv ==
    /\ stage = "text" => input.text \in Texts
    /\ stage \in {"text", "design"} => input.slug \in Slugs
    /\ RefusalsAreOneLine

\* For every text and every bound: a refusal has an error to show, and each error
\* is one line of bounded length.
THEOREM RefusalsStayOneLine == DesignSpec => []RefusalsAreOneLine
<1>1. DesignInit => RefusalInv
  BY DEF DesignInit, RefusalInv, RefusalsAreOneLine
<1>2. RefusalInv /\ [DesignNext]_designVars => RefusalInv'
  <2> SUFFICES ASSUME RefusalInv, [DesignNext]_designVars PROVE RefusalInv'
    OBVIOUS
  <2> USE DEF RefusalInv, RefusalsAreOneLine
  <2>1. CASE Submit
    BY <2>1 DEF Submit
  <2>2. CASE ParseDesign
    BY <2>2, RefusedIsOneLine DEF ParseDesign
  <2>3. CASE RenderTfvars
    BY <2>3 DEF RenderTfvars
  <2>4. CASE RenderThrows
    <3>1. input.slug \in Seq(Characters)
      BY <2>4, SlugsAssumption DEF RenderThrows
    <3>2. OneLine(ThrownPrefix \o sanitizeText(input.slug) \o ThrownQuote,
                  MaxTextLength + Len(ThrownPrefix) + Len(ThrownQuote))
      BY <3>1, ThrownIsOneLine
    <3>3. QED
      BY <2>4, <3>2 DEF RenderThrows
  <2>5. CASE Stored
    BY <2>5 DEF Stored
  <2>6. CASE Replaced
    BY <2>6 DEF Replaced
  <2>7. CASE ParseTfvars
    BY <2>7 DEF ParseTfvars
  <2>8. CASE ParseTfvarsFails
    <3>1. PICK echo \in StoredEchoes :
             output'.errors = {sanitizeText(<<"a">> \o sanitizeText(echo))}
      BY <2>8 DEF ParseTfvarsFails
    <3>2. sanitizeText(echo) \in Seq(PlainChars)
      BY EchoesAssumption, SanitizedIsPlain
    <3>3. <<"a">> \o sanitizeText(echo) \in Seq(Characters)
      BY <3>2 DEF Characters, PlainChars
    <3>4. OneLine(sanitizeText(<<"a">> \o sanitizeText(echo)), MaxTextLength)
      BY <3>3, SanitizedIsOneLine
    <3>5. QED
      BY <2>8, <3>1, <3>4 DEF ParseTfvarsFails
  <2>9. CASE TerraformReads
    BY <2>9 DEF TerraformReads
  <2>10. CASE UNCHANGED designVars
    BY <2>10 DEF designVars, OneLine
  <2>11. QED
    BY <2>1, <2>2, <2>3, <2>4, <2>5, <2>6, <2>7, <2>8, <2>9, <2>10 DEF DesignNext
<1>3. RefusalInv => RefusalsAreOneLine
  BY DEF RefusalInv
<1>4. QED
  BY <1>1, <1>2, <1>3, PTL DEF DesignSpec

(***************************************************************************)
(* Scores                                                                  *)
(***************************************************************************)
LEMMA NoFailures ==
    ASSUME NEW metrics, NEW cost, NEW par
    PROVE  failuresOf(metrics, cost, par) = {} <=>
             /\ ~Exceeds(metrics.apiP95Ms, par.slo.apiP95Ms)
             /\ ~Exceeds(metrics.jobStartP95Ms, par.slo.jobStartP95Ms)
             /\ ~Exceeds(metrics.errorRate, par.slo.maxErrorRate)
             /\ ~Exceeds(cost, par.budgetCeilingUsd)
             /\ FALSE \notin metrics.opsEvents
<1> DEFINE F == failuresOf(metrics, cost, par)
<1>1. <<"slo", "api">> \in F <=> Exceeds(metrics.apiP95Ms, par.slo.apiP95Ms)
  BY DEF failuresOf
<1>2. <<"slo", "job">> \in F <=> Exceeds(metrics.jobStartP95Ms, par.slo.jobStartP95Ms)
  BY DEF failuresOf
<1>3. <<"slo", "errors">> \in F <=> Exceeds(metrics.errorRate, par.slo.maxErrorRate)
  BY DEF failuresOf
<1>4. <<"cost", "ceiling">> \in F <=> Exceeds(cost, par.budgetCeilingUsd)
  BY DEF failuresOf
<1>5. <<"ops", "event">> \in F <=> FALSE \in metrics.opsEvents
  BY DEF failuresOf
<1>6. F \subseteq {<<"slo", "api">>, <<"slo", "job">>, <<"slo", "errors">>,
                   <<"cost", "ceiling">>, <<"ops", "event">>}
  BY DEF failuresOf
<1> HIDE DEF F
<1>7. F = {} <=> /\ <<"slo", "api">> \notin F /\ <<"slo", "job">> \notin F
                 /\ <<"slo", "errors">> \notin F /\ <<"cost", "ceiling">> \notin F
                 /\ <<"ops", "event">> \notin F
  BY <1>6
<1>8. QED
  BY <1>1, <1>2, <1>3, <1>4, <1>5, <1>7 DEF F

LEMMA CeilingFails ==
    ASSUME NEW metrics, NEW cost, NEW par
    PROVE  <<"cost", "ceiling">> \in failuresOf(metrics, cost, par)
             => Exceeds(cost, par.budgetCeilingUsd)
  BY DEF failuresOf

LEMMA ExceedsMeansNotMet ==
    ASSUME NEW a \in Nat, NEW b \in Nat
    PROVE  ~Exceeds(a, b) <=> Met(a, b)
  BY DEF Exceeds, Met

LEMMA ScoredHasEvidence ==
    ASSUME NEW metrics, NEW cost, NEW par, scoreRun(metrics, cost, par).ok
    PROVE  /\ scoreRun(metrics, cost, par).passed <=>
                /\ Met(metrics.apiP95Ms, par.slo.apiP95Ms)
                /\ Met(metrics.jobStartP95Ms, par.slo.jobStartP95Ms)
                /\ Met(metrics.errorRate, par.slo.maxErrorRate)
                /\ Met(cost, par.budgetCeilingUsd)
                /\ metrics.opsEvents = {TRUE}
           /\ cost = par.parMonthlyUsd =>
                <<"cost", "ceiling">> \notin scoreRun(metrics, cost, par).failures
<1>1. validateScoreInputs(metrics, cost, par)
  BY DEF scoreRun
<1>2. /\ scoreRun(metrics, cost, par).passed <=> failuresOf(metrics, cost, par) = {}
      /\ scoreRun(metrics, cost, par).failures = failuresOf(metrics, cost, par)
  BY <1>1 DEF scoreRun
<1>3. /\ metrics.apiP95Ms \in Nat /\ metrics.jobStartP95Ms \in Nat /\ metrics.errorRate \in Nat
      /\ cost \in Nat /\ par.slo.apiP95Ms \in Nat /\ par.slo.jobStartP95Ms \in Nat
      /\ par.slo.maxErrorRate \in Nat /\ par.budgetCeilingUsd \in Nat
      /\ par.parMonthlyUsd \in Nat /\ par.budgetCeilingUsd >= par.parMonthlyUsd
  BY <1>1 DEF validateScoreInputs, metricsAreNumbers, FiniteNonNegative
<1>4. FALSE \notin metrics.opsEvents <=> metrics.opsEvents = {TRUE}
  BY <1>1 DEF validateScoreInputs, requireValidOpsEvents
<1>5. cost = par.parMonthlyUsd => ~Exceeds(cost, par.budgetCeilingUsd)
  BY <1>3 DEF Exceeds
<1>6. /\ ~Exceeds(metrics.apiP95Ms, par.slo.apiP95Ms)
           <=> Met(metrics.apiP95Ms, par.slo.apiP95Ms)
      /\ ~Exceeds(metrics.jobStartP95Ms, par.slo.jobStartP95Ms)
           <=> Met(metrics.jobStartP95Ms, par.slo.jobStartP95Ms)
      /\ ~Exceeds(metrics.errorRate, par.slo.maxErrorRate)
           <=> Met(metrics.errorRate, par.slo.maxErrorRate)
      /\ ~Exceeds(cost, par.budgetCeilingUsd) <=> Met(cost, par.budgetCeilingUsd)
  BY <1>3, ExceedsMeansNotMet
<1>7. failuresOf(metrics, cost, par) = {} <=>
        /\ Met(metrics.apiP95Ms, par.slo.apiP95Ms)
        /\ Met(metrics.jobStartP95Ms, par.slo.jobStartP95Ms)
        /\ Met(metrics.errorRate, par.slo.maxErrorRate)
        /\ Met(cost, par.budgetCeilingUsd)
        /\ metrics.opsEvents = {TRUE}
  BY <1>4, <1>6, NoFailures, Zenon
<1>8. cost = par.parMonthlyUsd => <<"cost", "ceiling">> \notin failuresOf(metrics, cost, par)
  BY <1>5, CeilingFails, Zenon
<1>9. QED
  BY <1>2, <1>7, <1>8, Zenon

\* A verdict says passed just when every metric and the cost were measured and
\* within their targets, and events there were and all held.
THEOREM PassingIsEarned == ScoreSpec => []PassedHasEvidence
<1>1. ScoreInit => PassedHasEvidence
  BY DEF ScoreInit, PassedHasEvidence
<1>2. PassedHasEvidence /\ [ScoreNext]_scoreVars => PassedHasEvidence'
  <2> SUFFICES ASSUME PassedHasEvidence, [ScoreNext]_scoreVars PROVE PassedHasEvidence'
    OBVIOUS
  <2>1. CASE CostFromUsage
    BY <2>1 DEF CostFromUsage, PassedHasEvidence
  <2>2. CASE ScoreRun
    <3>1. PICK metrics \in Metrics, cost \in Costs, par \in Pars :
              /\ asked' = [fn |-> "score", metrics |-> metrics, cost |-> cost, par |-> par]
              /\ answer' = scoreRun(metrics, cost, par)
      BY <2>2 DEF ScoreRun
    <3>2. asked'.metrics = metrics /\ asked'.cost = cost /\ asked'.par = par
      BY <3>1
    <3>3. QED
      BY <3>1, <3>2, ScoredHasEvidence DEF PassedHasEvidence
  <2>3. CASE UNCHANGED scoreVars
    BY <2>3 DEF scoreVars, PassedHasEvidence
  <2>4. QED
    BY <2>1, <2>2, <2>3 DEF ScoreNext
<1>3. QED
  BY <1>1, <1>2, PTL DEF ScoreSpec

(***************************************************************************)
(* Prices: the total of a priceable usage is a polynomial in what was used *)
(* and the rates, with none of the NaN cases left.                         *)
(***************************************************************************)
CacheRate(usage, rates) ==
    IF usage.cacheEnabled THEN RateOf(rates.redisGibHour, usage.cacheTier) ELSE 0

Charge(usage, rates, f) == usage.metered[f] * rates.metered[f]

Total(usage, rates) ==
    Charge(usage, rates, "activeVcpu") + Charge(usage, rates, "activeGib")
    + Charge(usage, rates, "idleVcpu") + Charge(usage, rates, "idleGib")
    + Charge(usage, rates, "alwaysVcpu") + Charge(usage, rates, "alwaysGib")
    + Charge(usage, rates, "requests")
    + CacheRate(usage, rates) * usage.windowHours
    + RateOf(rates.dbHour, usage.dbTier) * usage.windowHours

LEMMA PriceableNumbers ==
    ASSUME NEW usage \in Usage, NEW rates, RateTable(rates), usageIsPriceable(usage, rates)
    PROVE  /\ \A f \in Metered : usage.metered[f] \in Nat /\ rates.metered[f] \in Nat
           /\ usage.windowHours \in Nat /\ usage.windowHours > 0
           /\ CacheRate(usage, rates) \in Nat
           /\ RateOf(rates.dbHour, usage.dbTier) \in Nat
<1>1. /\ \A f \in Metered : usage.metered[f] \in Nat /\ rates.metered[f] \in Nat
      /\ usage.windowHours \in Nat /\ usage.windowHours > 0
  BY DEF usageIsPriceable, FiniteNonNegative, RateTable
<1>2. RateOf(rates.dbHour, usage.dbTier) \in Nat
  BY NumbersAssumption DEF usageIsPriceable, tiersAreKnown, RateOf, RateTable
<1>3. CacheRate(usage, rates) \in Nat
  BY NumbersAssumption DEF usageIsPriceable, tiersAreKnown, RateOf, RateTable, CacheRate, Usage
<1>4. QED
  BY <1>1, <1>2, <1>3

LEMMA MultiplyNat == \A a, b \in Nat : a * b \in Nat
  OBVIOUS

LEMMA ChargesAreNumbers ==
    ASSUME NEW usage \in Usage, NEW rates, RateTable(rates), usageIsPriceable(usage, rates)
    PROVE  /\ \A f \in Metered : Charge(usage, rates, f) \in Nat
           /\ CacheRate(usage, rates) * usage.windowHours \in Nat
           /\ RateOf(rates.dbHour, usage.dbTier) * usage.windowHours \in Nat
           /\ Total(usage, rates) \in Nat
<1>1. /\ \A f \in Metered : Charge(usage, rates, f) \in Nat
      /\ CacheRate(usage, rates) * usage.windowHours \in Nat
      /\ RateOf(rates.dbHour, usage.dbTier) * usage.windowHours \in Nat
  BY PriceableNumbers, MultiplyNat DEF Charge
<1>2. Total(usage, rates) \in Nat
  BY <1>1 DEF Total, Metered
<1>3. QED
  BY <1>1, <1>2

LEMMA PriceIs ==
    ASSUME NEW usage \in Usage, NEW rates, RateTable(rates), usageIsPriceable(usage, rates)
    PROVE  /\ costFromUsage(usage, rates).ok
           /\ costFromUsage(usage, rates).totalForWindow = Total(usage, rates)
           /\ costFromUsage(usage, rates).monthly
                = [num |-> Total(usage, rates) * HoursPerMonth, den |-> usage.windowHours]
<1> DEFINE items == lineItems(usage, rates)
<1>1. /\ \A f \in Metered : usage.metered[f] \in Nat /\ rates.metered[f] \in Nat
      /\ usage.windowHours \in Nat
      /\ CacheRate(usage, rates) \in Nat
      /\ RateOf(rates.dbHour, usage.dbTier) \in Nat
  BY PriceableNumbers
<1>2. \A f \in Metered : Times(usage.metered[f], rates.metered[f]) = Charge(usage, rates, f)
  BY <1>1 DEF Times, Charge
<1>3. /\ items.cloudRunActive = Charge(usage, rates, "activeVcpu") + Charge(usage, rates, "activeGib")
      /\ items.cloudRunIdle = Charge(usage, rates, "idleVcpu") + Charge(usage, rates, "idleGib")
      /\ items.cloudRunAlwaysAllocated
           = Charge(usage, rates, "alwaysVcpu") + Charge(usage, rates, "alwaysGib")
      /\ items.requests = Charge(usage, rates, "requests")
  BY <1>2, ChargesAreNumbers DEF lineItems, Plus, Metered
<1>4. items.db = RateOf(rates.dbHour, usage.dbTier) * usage.windowHours
  BY <1>1 DEF lineItems, Times
<1>5. items.cache = CacheRate(usage, rates) * usage.windowHours
  BY <1>1 DEF lineItems, Times, CacheRate
<1> HIDE DEF items
<1>6. totalForWindow(items) = Total(usage, rates)
  BY <1>3, <1>4, <1>5, ChargesAreNumbers DEF totalForWindow, Total, Plus, Metered
<1>7. Times(Total(usage, rates), HoursPerMonth) = Total(usage, rates) * HoursPerMonth
  BY ChargesAreNumbers DEF Times, HoursPerMonth
<1>8. QED
  BY <1>6, <1>7 DEF costFromUsage, items

LEMMA MoreCostsItsRate ==
    ASSUME NEW usage \in Usage, NEW rates, RateTable(rates), usageIsPriceable(usage, rates),
           NEW f \in Metered
    PROVE  costFromUsage([usage EXCEPT !.metered[f] = @ + 1], rates).totalForWindow
             = Total(usage, rates) + rates.metered[f]
<1> DEFINE more == [usage EXCEPT !.metered[f] = @ + 1]
<1>1. /\ usage.metered \in [Metered -> Number]
      /\ \A g \in Metered : usage.metered[g] \in Nat /\ rates.metered[g] \in Nat
  BY PriceableNumbers DEF Usage
<1>2. more \in Usage
  <2>1. usage.metered[f] + 1 \in Number
    BY <1>1 DEF Number
  <2>2. [usage.metered EXCEPT ![f] = @ + 1] \in [Metered -> Number]
    BY <1>1, <2>1
  <2>3. QED
    BY <2>2 DEF Usage
<1>3. /\ more.metered[f] = usage.metered[f] + 1
      /\ \A g \in Metered \ {f} : more.metered[g] = usage.metered[g]
      /\ more.windowHours = usage.windowHours /\ more.cacheEnabled = usage.cacheEnabled
      /\ more.cacheTier = usage.cacheTier /\ more.dbTier = usage.dbTier
  BY <1>1 DEF Usage
<1> HIDE DEF more
<1>4. usageIsPriceable(more, rates)
  BY <1>1, <1>3 DEF usageIsPriceable, tiersAreKnown, FiniteNonNegative
<1>5. /\ Charge(more, rates, f) = Charge(usage, rates, f) + rates.metered[f]
      /\ \A g \in Metered \ {f} : Charge(more, rates, g) = Charge(usage, rates, g)
  BY <1>1, <1>3 DEF Charge
<1>6. CacheRate(more, rates) = CacheRate(usage, rates)
  BY <1>3 DEF CacheRate
<1>7. Total(more, rates) = Total(usage, rates) + rates.metered[f]
  BY <1>1, <1>3, <1>5, <1>6, ChargesAreNumbers DEF Total, Metered
<1>8. QED
  BY <1>2, <1>4, <1>7, PriceIs DEF more

LEMMA DoubledCostsTheSame ==
    ASSUME NEW usage \in Usage, NEW rates, RateTable(rates), usageIsPriceable(usage, rates)
    PROVE  LET once == costFromUsage(usage, rates).monthly
               twice == costFromUsage(Doubled(usage), rates).monthly
           IN  twice.num * once.den = once.num * twice.den
<1> DEFINE double == Doubled(usage)
<1>1. /\ \A g \in Metered : usage.metered[g] \in Nat /\ rates.metered[g] \in Nat
      /\ usage.windowHours \in Nat /\ usage.windowHours > 0
      /\ CacheRate(usage, rates) \in Nat /\ RateOf(rates.dbHour, usage.dbTier) \in Nat
  BY PriceableNumbers
<1>2. double \in Usage
  <2>1. [g \in Metered |-> 2 * usage.metered[g]] \in [Metered -> Number]
    BY <1>1 DEF Number
  <2>2. 2 * usage.windowHours \in Number
    BY <1>1 DEF Number
  <2>3. QED
    BY <2>1, <2>2 DEF Doubled, Usage
<1>3. /\ \A g \in Metered : double.metered[g] = 2 * usage.metered[g]
      /\ double.windowHours = 2 * usage.windowHours
      /\ double.cacheEnabled = usage.cacheEnabled
      /\ double.cacheTier = usage.cacheTier /\ double.dbTier = usage.dbTier
  BY DEF Doubled, Usage
<1> HIDE DEF double
<1>4. usageIsPriceable(double, rates)
  BY <1>1, <1>3 DEF usageIsPriceable, tiersAreKnown, FiniteNonNegative
<1>5. \A g \in Metered : Charge(double, rates, g) = 2 * Charge(usage, rates, g)
  BY <1>1, <1>3 DEF Charge
<1>6. /\ CacheRate(double, rates) * double.windowHours
           = 2 * (CacheRate(usage, rates) * usage.windowHours)
      /\ RateOf(rates.dbHour, double.dbTier) * double.windowHours
           = 2 * (RateOf(rates.dbHour, usage.dbTier) * usage.windowHours)
  BY <1>1, <1>3 DEF CacheRate
<1>7. Total(double, rates) = 2 * Total(usage, rates)
  BY <1>5, <1>6, ChargesAreNumbers DEF Total, Metered
<1>8. \A T, w \in Nat : ((2 * T) * 730) * w = (T * 730) * (2 * w)
  OBVIOUS
<1>9. /\ costFromUsage(usage, rates).monthly
           = [num |-> Total(usage, rates) * 730, den |-> usage.windowHours]
      /\ costFromUsage(double, rates).monthly
           = [num |-> (2 * Total(usage, rates)) * 730, den |-> 2 * usage.windowHours]
  BY <1>2, <1>3, <1>4, <1>7, PriceIs DEF HoursPerMonth
<1>10. QED
  BY <1>1, <1>8, <1>9, ChargesAreNumbers DEF double

\* For every usage and rate table: a price is a number, more usage costs its rate,
\* and the length of the window does not matter.
THEOREM PricesStayFair == ScoreSpec => []PricesAreFair
<1>1. ScoreInit => PricesAreFair
  BY DEF ScoreInit, PricesAreFair
<1>2. PricesAreFair /\ [ScoreNext]_scoreVars => PricesAreFair'
  <2> SUFFICES ASSUME PricesAreFair, [ScoreNext]_scoreVars PROVE PricesAreFair'
    OBVIOUS
  <2>1. CASE CostFromUsage
    <3>1. PICK usage \in Usages, rates \in Rates :
              /\ asked' = [fn |-> "cost", usage |-> usage, rates |-> rates]
              /\ answer' = costFromUsage(usage, rates)
      BY <2>1 DEF CostFromUsage
    <3>2. /\ usage \in Usage /\ RateTable(rates)
          /\ asked'.usage = usage /\ asked'.rates = rates
      BY <3>1, UsagesAssumption, RatesAssumption
    <3>3. SUFFICES ASSUME answer'.ok PROVE PricesAreFair'
      BY DEF PricesAreFair
    <3>4. usageIsPriceable(usage, rates)
      BY <3>1, <3>3 DEF costFromUsage
    <3>5. /\ answer'.monthly
               = [num |-> Total(usage, rates) * HoursPerMonth, den |-> usage.windowHours]
          /\ answer'.totalForWindow = Total(usage, rates)
      <4>1. answer' = costFromUsage(usage, rates)
        BY <3>1
      <4>2. QED
        BY <3>2, <3>4, <4>1, PriceIs
    <3>6. answer'.monthly.num \in Nat
      BY <3>2, <3>4, <3>5, ChargesAreNumbers, MultiplyNat DEF HoursPerMonth
    <3>7. \A f \in Metered :
             costFromUsage([usage EXCEPT !.metered[f] = @ + 1], rates).totalForWindow
               = answer'.totalForWindow + rates.metered[f]
      BY <3>2, <3>4, <3>5, MoreCostsItsRate
    <3>8. costFromUsage(Doubled(usage), rates).monthly.num * answer'.monthly.den
            = answer'.monthly.num * costFromUsage(Doubled(usage), rates).monthly.den
      BY <3>1, <3>2, <3>4, DoubledCostsTheSame
    <3>9. QED
      BY <3>2, <3>6, <3>7, <3>8, Zenon DEF PricesAreFair
  <2>2. CASE ScoreRun
    BY <2>2 DEF ScoreRun, PricesAreFair
  <2>3. CASE UNCHANGED scoreVars
    BY <2>3 DEF scoreVars, PricesAreFair
  <2>4. QED
    BY <2>1, <2>2, <2>3 DEF ScoreNext
<1>3. QED
  BY <1>1, <1>2, PTL DEF ScoreSpec

(***************************************************************************)
(* Releases                                                                *)
(***************************************************************************)
LEMMA ValidatedApplies ==
    ASSUME NEW d, validateManifest(d), NEW mut \in d.mutations
    PROVE  mutationApplies(reference(d), mut)
  BY DEF validateManifest, mergedExists, mergedRead, mutationApplies, reference, overlayDir

\* What the gate has found out about a folder once it has tried the mutations muts,
\* if the test command never failed by itself: the skeleton and they are red.
RightlyRed(d, muts) ==
    /\ ~passes(d.suite, d.template)
    /\ \A mut \in muts : ~passes(d.suite, applyMutation(reference(d), mut))

Publishing == {"stage", "view", "create", "push", "mark"}

\* What is known of the folder at each stage, while it is left alone.
GateKnows ==
    /\ at \in {"skeleton", "reference", "mutations"} => validateManifest(folder)
    /\ at = "reference" =>
          /\ todo = folder.mutations
          /\ ok /\ ~fluked => RightlyRed(folder, {})
    /\ at = "mutations" =>
          /\ todo \subseteq folder.mutations
          /\ ok => passes(folder.suite, reference(folder))
          /\ ok /\ ~fluked => RightlyRed(folder, folder.mutations \ todo)
    /\ at \in Publishing /\ command = "release" =>
          /\ passes(folder.suite, reference(folder))
          /\ ~fluked => RightlyRed(folder, folder.mutations)
    /\ at \in Publishing \ {"stage"} => staging = tracked(folder)

ReleaseInv ==
    /\ repo = [exists |-> repo.exists, content |-> repo.content, isTemplate |-> repo.isTemplate]
    /\ repo.exists \in BOOLEAN /\ repo.isTemplate \in BOOLEAN
    /\ ok \in BOOLEAN /\ fluked \in BOOLEAN /\ edited \in BOOLEAN
    /\ at \in {"push", "mark"} => repo.exists
    /\ at = "mark" => repo.content = staging
    /\ ~edited => GateKnows
    /\ ValidatedIsGateable
    /\ SeededIsPublished

LEMMA ReleaseStep == ReleaseInv /\ [ReleaseNext]_releaseVars => ReleaseInv'
<1> SUFFICES ASSUME ReleaseInv, [ReleaseNext]_releaseVars PROVE ReleaseInv'
  OBVIOUS
<1> USE DEF ReleaseInv, ValidatedIsGateable, SeededIsPublished, Publishing, GateKnows,
        gateVars, Exit
<1>1. CASE Write
  BY <1>1 DEF Write
<1>2. ASSUME NEW cmd \in {"release", "publish"}, Start(cmd)
      PROVE  ReleaseInv'
  BY <1>2 DEF Start
<1>3. CASE Validate
  BY <1>3 DEF Validate
<1>4. ASSUME NEW green \in BOOLEAN, GateSkeleton(green)
      PROVE  ReleaseInv'
  <2>1. ~edited /\ ok' /\ ~fluked' => RightlyRed(folder, {})
    BY <1>4 DEF GateSkeleton, Tests, RightlyRed
  <2>2. QED
    BY <1>4, <2>1 DEF GateSkeleton, Tests
<1>5. ASSUME NEW green \in BOOLEAN, GateReference(green)
      PROVE  ReleaseInv'
  <2>1. ok' => passes(folder.suite, reference(folder))
    BY <1>5 DEF GateReference, Tests
  <2>2. ~edited /\ ok' /\ ~fluked' => RightlyRed(folder, folder.mutations \ todo')
    BY <1>5 DEF GateReference, Tests, RightlyRed
  <2>3. QED
    BY <1>5, <2>1, <2>2 DEF GateReference, Tests
<1>6. ASSUME NEW mut \in todo, NEW green \in BOOLEAN, GateMutation(mut, green)
      PROVE  ReleaseInv'
  <2>1. ~edited /\ ok' /\ ~fluked' => RightlyRed(folder, folder.mutations \ todo')
    BY <1>6 DEF GateMutation, Tests, RightlyRed
  <2>2. QED
    BY <1>6, <2>1 DEF GateMutation, Tests
<1>7. ASSUME NEW mut \in todo, GateThrows(mut)
      PROVE  ReleaseInv'
  <2>1. edited
    BY <1>7, ValidatedApplies DEF GateThrows
  <2>2. QED
    BY <1>7, <2>1 DEF GateThrows
<1>8. CASE GateEnds
  <2>1. ~edited /\ ok /\ ~fluked => RightlyRed(folder, folder.mutations)
    BY <1>8 DEF GateEnds, RightlyRed
  <2>2. QED
    BY <1>8, <2>1 DEF GateEnds
<1>9. CASE Stage
  BY <1>9 DEF Stage
<1>10. ASSUME NEW failed \in BOOLEAN, View(failed)
       PROVE  ReleaseInv'
  BY <1>10 DEF View
<1>11. CASE Create
  BY <1>11 DEF Create
<1>12. CASE CreateRefused
  BY <1>12 DEF CreateRefused
<1>13. CASE Push
  BY <1>13 DEF Push
<1>14. CASE MarkAsTemplate
  BY <1>14 DEF MarkAsTemplate
<1>15. CASE PublishFails
  BY <1>15 DEF PublishFails
<1>16. CASE SeedThrows
  BY <1>16 DEF SeedThrows
<1>17. CASE UNCHANGED releaseVars
  BY <1>17 DEF releaseVars
<1>18. QED
  BY <1>1, <1>2, <1>3, <1>4, <1>5, <1>6, <1>7, <1>8, <1>9, <1>10, <1>11, <1>12, <1>13,
     <1>14, <1>15, <1>16, <1>17 DEF ReleaseNext

LEMMA ReleaseInvariant == ReleaseSpec => []ReleaseInv
<1>1. ReleaseInit => ReleaseInv
  <2> SUFFICES ASSUME ReleaseInit PROVE ReleaseInv
    OBVIOUS
  <2>1. at = "idle" /\ verdict = "none" /\ ok = TRUE /\ fluked = FALSE /\ edited = FALSE
    BY DEF ReleaseInit
  <2>2. GateKnows
    BY <2>1 DEF GateKnows, Publishing
  <2>3. ValidatedIsGateable /\ SeededIsPublished
    BY <2>1 DEF ValidatedIsGateable, SeededIsPublished
  <2>4. repo = [exists |-> FALSE, content |-> NoTree, isTemplate |-> FALSE]
    BY DEF ReleaseInit, NoRepo
  <2>5. QED
    BY <2>1, <2>2, <2>3, <2>4 DEF ReleaseInv
<1>2. QED
  BY <1>1, ReleaseStep, PTL DEF ReleaseSpec

\* A folder that validates makes the gate throw only if it is edited in between.
THEOREM ValidFoldersAreGated == ReleaseSpec => []ValidatedIsGateable
<1>1. ReleaseInv => ValidatedIsGateable
  BY DEF ReleaseInv
<1>2. QED
  BY ReleaseInvariant, <1>1, PTL

\* A release that comes to the catalogue has its repository there, current and
\* marked, whichever commands failed before.
THEOREM SeededWasPublished == ReleaseSpec => []SeededIsPublished
<1>1. ReleaseInv => SeededIsPublished
  BY DEF ReleaseInv
<1>2. QED
  BY ReleaseInvariant, <1>1, PTL

\* A release of a folder that is left alone pushes its template, beside which the
\* solution passes; and an exercise, unless the test command failed by itself.
THEOREM ReleasesAreExercises == ReleaseSpec => ReleasedIsAnExercise
<1>1. ReleaseInv /\ [ReleaseNext]_releaseVars =>
        [repo'.content # repo.content /\ command = "release" /\ ~edited =>
            /\ repo'.content = tracked(folder)
            /\ passes(folder.suite, reference(folder))
            /\ ~fluked =>
                  /\ ~passes(folder.suite, folder.template)
                  /\ \A mut \in folder.mutations :
                        ~passes(folder.suite, applyMutation(reference(folder), mut))]_releaseVars
  <2> SUFFICES ASSUME ReleaseInv, ReleaseNext,
                      repo'.content # repo.content, command = "release", ~edited
               PROVE  /\ repo'.content = tracked(folder)
                      /\ passes(folder.suite, reference(folder))
                      /\ ~fluked => RightlyRed(folder, folder.mutations)
    BY DEF releaseVars, RightlyRed
  <2>1. at = "push" /\ repo'.content = staging
    BY DEF ReleaseNext, Write, Start, Validate, GateSkeleton, GateReference, GateMutation,
           GateThrows, GateEnds, Tests, Stage, View, Create, CreateRefused, Push,
           MarkAsTemplate, PublishFails, SeedThrows, ReleaseInv
  <2>2. QED
    BY <2>1 DEF ReleaseInv, GateKnows, Publishing
<1>2. QED
  BY ReleaseInvariant, <1>1, PTL DEF ReleaseSpec, ReleasedIsAnExercise
=============================================================================
