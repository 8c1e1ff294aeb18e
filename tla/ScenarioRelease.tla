---------------------------- MODULE ScenarioRelease ----------------------------
(***************************************************************************)
(* The author's command line: `scenario release` of one scenario folder,   *)
(* which validates, gates, publishes and seeds, and `scenario publish`,    *)
(* which only publishes.  Every git or gh command may fail and end it, and *)
(* the author may run it again.  Each stage reads the folder from the disk *)
(* anew, and the author may edit it meanwhile.                             *)
(*                                                                         *)
(* A tree of files is a function from names to contents, a content the set *)
(* of snippets that occur in it.  What the tests, which are files of the   *)
(* template themselves, want is a set of <<file, snippet>> pairs: the test *)
(* command is green only on a tree that has them, and red on any other, or *)
(* because the command itself failed.                                      *)
(***************************************************************************)
EXTENDS Naturals, FiniteSets, Functions

CONSTANTS
    Folders,    \* what the author may write at first, see the fields below
    Rewrites,   \* what the author may write afterwards
    NoTree,     \* nothing written, copied or pushed yet
    MaxRuns     \* bound: commands the author runs

ASSUME RunsAssumption == MaxRuns \in Nat

VARIABLES
    folder,     \* template, solution, suite, mutations, ignored, weightsSum
    at, command, runs,
    todo,       \* mutations that the gate has still to try
    ok,         \* no stage of the gate was the wrong colour so far
    verdict,    \* what the gate said: "none", "ok", "failed", "threw"
    staging,    \* the commit that publish has made
    repo,       \* GitHub: the content pushed, the template mark; or NoTree
    edited,     \* history: the folder was written since the command began
    fluked      \* history: its test command failed on a tree that passes

gateVars == <<todo, ok, verdict>>
releaseVars == <<folder, at, command, runs, gateVars, staging, repo, edited, fluked>>

NoRepo == [exists |-> FALSE, content |-> NoTree, isTemplate |-> FALSE]

(***************************************************************************)
(* fsutil.ts                                                               *)
(***************************************************************************)
overlayDir(overlay, tree) ==
    [f \in DOMAIN overlay \cup DOMAIN tree |->
        IF f \in DOMAIN overlay THEN overlay[f] ELSE tree[f]]

mutationApplies(tree, mut) == mut.file \in DOMAIN tree /\ mut.find \in tree[mut.file]

applyMutation(tree, mut) ==
    [tree EXCEPT ![mut.file] = (@ \ {mut.find}) \cup mut.replace]

\* The tests hold.
passes(suite, tree) ==
    \A want \in suite : want[1] \in DOMAIN tree /\ want[2] \in tree[want[1]]

(***************************************************************************)
(* validate.ts, reading template and solution through mergedReader         *)
(***************************************************************************)
\* The names in a manifest are those of files, relative and without dots.
mergedExists(d, rel) == rel \in DOMAIN d.solution \cup DOMAIN d.template

mergedRead(d, rel) ==
    IF rel \in DOMAIN d.solution THEN d.solution[rel] ELSE d.template[rel]

validateTemplateOnly(d) ==
    /\ d.weightsSum
    /\ DOMAIN d.solution \subseteq DOMAIN d.template
    /\ \A mut \in d.mutations :
          mut.file \in DOMAIN d.template /\ mut.find \in d.template[mut.file]

validateManifest(d) ==
    /\ d.weightsSum
    /\ DOMAIN d.solution \subseteq DOMAIN d.template
    /\ \A mut \in d.mutations :
          mergedExists(d, mut.file) /\ mut.find \in mergedRead(d, mut.file)

reference(d) == overlayDir(d.solution, d.template)

(***************************************************************************)
(* cli.ts                                                                  *)
(***************************************************************************)
ReleaseInit ==
    /\ folder = NoTree
    /\ at = "idle" /\ command = "none" /\ runs = 0
    /\ todo = {} /\ ok = TRUE /\ verdict = "none"
    /\ staging = NoTree /\ repo = NoRepo
    /\ edited = FALSE /\ fluked = FALSE

\* The author writes the folder, at first and at any time afterwards.
Write ==
    /\ runs = 0 => folder = NoTree
    /\ folder' \in IF runs = 0 THEN Folders ELSE Rewrites
    /\ edited' = TRUE
    /\ UNCHANGED <<at, command, runs, gateVars, staging, repo, fluked>>

Start(cmd) ==
    /\ at = "idle"
    /\ folder # NoTree
    /\ runs < MaxRuns
    /\ runs' = runs + 1
    /\ command' = cmd
    /\ at' = IF cmd = "release" THEN "validate" ELSE "stage"
    /\ todo' = {} /\ ok' = TRUE /\ verdict' = "none"
    /\ staging' = NoTree
    /\ edited' = FALSE /\ fluked' = FALSE
    /\ UNCHANGED <<folder, repo>>

Exit == at' = "idle"

Validate ==
    /\ at = "validate"
    /\ IF validateManifest(folder) THEN at' = "skeleton" ELSE Exit
    /\ UNCHANGED <<folder, command, runs, gateVars, staging, repo, edited, fluked>>

(***************************************************************************)
(* gate.ts                                                                 *)
(***************************************************************************)
\* The test command ends on a tree, green or not.
Tests(tree, green) ==
    /\ green => passes(folder.suite, tree)
    /\ fluked' = (fluked \/ (passes(folder.suite, tree) /\ ~green))
    /\ UNCHANGED <<folder, command, runs, verdict, staging, repo, edited>>

\* The manifest, and with it the mutations, is read before the first stage.
GateSkeleton(green) ==
    /\ at = "skeleton"
    /\ Tests(folder.template, green)
    /\ todo' = folder.mutations
    /\ ok' = ~green
    /\ at' = "reference"

GateReference(green) ==
    /\ at = "reference"
    /\ Tests(reference(folder), green)
    /\ ok' = (ok /\ green)
    /\ at' = "mutations"
    /\ UNCHANGED todo

GateLastMutationCounts(mut, green) ==
    /\ at = "mutations" /\ mut \in todo
    /\ mutationApplies(reference(folder), mut)
    /\ Tests(applyMutation(reference(folder), mut), green)
    /\ ok' = ~green
    /\ todo' = todo \ {mut}
    /\ UNCHANGED at

GateMutation(mut, green) ==
    /\ at = "mutations" /\ mut \in todo
    /\ mutationApplies(reference(folder), mut)
    /\ Tests(applyMutation(reference(folder), mut), green)
    /\ ok' = (ok /\ ~green)
    /\ todo' = todo \ {mut}
    /\ UNCHANGED at

\* applyMutation does not find what it is to replace, and the command ends.
GateThrows(mut) ==
    /\ at = "mutations" /\ mut \in todo
    /\ ~mutationApplies(reference(folder), mut)
    /\ verdict' = "threw"
    /\ Exit
    /\ UNCHANGED <<folder, command, runs, todo, ok, staging, repo, edited, fluked>>

GateEnds ==
    /\ at = "mutations" /\ todo = {}
    /\ verdict' = IF ok THEN "ok" ELSE "failed"
    /\ IF ok THEN at' = "stage" ELSE Exit
    /\ UNCHANGED <<folder, command, runs, todo, ok, staging, repo, edited, fluked>>

(***************************************************************************)
(* publish.ts                                                              *)
(***************************************************************************)
\* What `git add` takes of the template.
tracked(d) == Restrict(d.template, DOMAIN d.template \ d.ignored)

\* The template is copied and committed; a commit of nothing is an error.
Stage ==
    /\ at = "stage"
    /\ staging' = tracked(folder)
    /\ IF tracked(folder) # <<>> THEN at' = "view" ELSE Exit
    /\ UNCHANGED <<folder, command, runs, gateVars, repo, edited, fluked>>

\* `gh repo view` fails if there is no repository, or for any other reason.
ViewThenMark(failed) ==
    /\ at = "view"
    /\ failed \/ repo.exists
    /\ at' = IF failed THEN "create" ELSE "mark"
    /\ UNCHANGED <<folder, command, runs, gateVars, staging, repo, edited, fluked>>

View(failed) ==
    /\ at = "view"
    /\ failed \/ repo.exists
    /\ at' = IF failed THEN "create" ELSE "push"
    /\ UNCHANGED <<folder, command, runs, gateVars, staging, repo, edited, fluked>>

\* A repository of that name is there already: gh fails, the command exits.
CreateRefused ==
    /\ at = "create"
    /\ repo.exists
    /\ Exit
    /\ UNCHANGED <<folder, command, runs, gateVars, staging, repo, edited, fluked>>

Create ==
    /\ at = "create"
    /\ ~repo.exists
    /\ at' = "push"
    /\ repo' = [repo EXCEPT !.exists = TRUE]
    /\ UNCHANGED <<folder, command, runs, gateVars, staging, edited, fluked>>

Push ==
    /\ at = "push"
    /\ at' = "mark"
    /\ repo' = [repo EXCEPT !.content = staging]
    /\ UNCHANGED <<folder, command, runs, gateVars, staging, edited, fluked>>

MarkAsTemplate ==
    /\ at = "mark"
    /\ repo' = [repo EXCEPT !.isTemplate = TRUE]
    /\ IF command = "release" THEN at' = "seed" ELSE Exit
    /\ UNCHANGED <<folder, command, runs, gateVars, staging, edited, fluked>>

\* A gh or git command fails, having done its work or not, or the author
\* interrupts it.
PublishFails ==
    /\ at \in {"stage", "view", "create", "push", "mark"}
    /\ Exit
    /\ repo' \in {repo,
                  [repo EXCEPT !.exists = @ \/ at = "create",
                               !.content = IF at = "push" THEN staging ELSE @,
                               !.isTemplate = @ \/ at = "mark"]}
    /\ UNCHANGED <<folder, command, runs, gateVars, staging, edited, fluked>>

\* seed.ts asks for schema.tracks, a table that the schema no longer has: the
\* command ends with an error, whatever the database holds.
SeedThrows ==
    /\ at = "seed"
    /\ Exit
    /\ UNCHANGED <<folder, command, runs, gateVars, staging, repo, edited, fluked>>

ReleaseNext ==
    \/ Write \/ \E cmd \in {"release", "publish"} : Start(cmd)
    \/ Validate
    \/ \E green \in BOOLEAN :
          \/ GateSkeleton(green) \/ GateReference(green)
          \/ \E mut \in todo : GateMutation(mut, green)
    \/ (\E mut \in todo : GateThrows(mut)) \/ GateEnds
    \/ Stage \/ \E failed \in BOOLEAN : View(failed)
    \/ Create \/ CreateRefused \/ Push \/ MarkAsTemplate
    \/ PublishFails \/ SeedThrows

ReleaseSpec == ReleaseInit /\ [][ReleaseNext]_releaseVars

(***************************************************************************)
(* Properties                                                              *)
(***************************************************************************)
\* A folder that validates gets a verdict from the gate, unless it is edited in
\* between: the readers that validate uses find what the gate's copies of the two
\* directories hold, so no mutation is left to throw half way.
ValidatedIsGateable == verdict = "threw" => edited

\* What a release pushes is an exercise, if the folder was left alone meanwhile:
\* it is the folder's template, and the solution passes the tests that go with it.
\* If moreover the test command never failed by itself, the template fails its
\* tests, and so does the solution under each of the mutations.  Only red stages
\* can be right by a failure of the command, which the gate cannot tell from one
\* of the tests.
ReleasedIsAnExercise ==
    [][repo'.content # repo.content /\ command = "release" /\ ~edited =>
          /\ repo'.content = tracked(folder)
          /\ passes(folder.suite, reference(folder))
          /\ ~fluked =>
                /\ ~passes(folder.suite, folder.template)
                /\ \A mut \in folder.mutations :
                      ~passes(folder.suite, applyMutation(reference(folder), mut))]_releaseVars

\* However many commands failed before it, and wherever, a release that comes to
\* the catalogue has left the repository there, marked as a template, with what it
\* has committed in it: the template of the folder, unless that was edited.
SeededIsPublished ==
    at = "seed" =>
        /\ repo = [exists |-> TRUE, content |-> staging, isTemplate |-> TRUE]
        /\ ~edited => staging = tracked(folder)
=============================================================================
