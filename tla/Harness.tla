------------------------------ MODULE Harness ------------------------------
(***************************************************************************)
(* The harness a fleet is given is rendered from the vault: the edits that *)
(* bind on a day, applied in ascending order to an empty tree              *)
(* (internal/render/render.go), with a candidate added or a binding edit   *)
(* taken out.  A run renders two of them, the baseline and the candidate   *)
(* (internal/loop/loop.go: renders), and measures what lies between; a     *)
(* person renders one by hand (cmd/uzushio/harness.go).  The tree is built *)
(* in a scratch directory, so only the install touches what others read;   *)
(* the process may die anywhere, and people decide edits and rewrite       *)
(* sidecars meanwhile.                                                     *)
(*                                                                         *)
(* A file's text is a set of passages: a diff needs some, removes some and *)
(* adds some, and applies strictly.  A digest is the text itself.          *)
(***************************************************************************)
EXTENDS ProposeEdit, Integers, Sequences, SequencesExt

CONSTANTS
  Documents,       \* edit number -> its document, in ascending order
  Headings,        \* passages that are headings: no description of a skill
  Decided,         \* edits that may be binding when a render starts
  Jobs,            \* what may be asked for: a run of an edit, or a render
  Walk,            \* every path of a tree, in the order a copy visits them
  MaxJobs,         \* bound: jobs in a behaviour
  MaxChanges,      \* bound: what people change in a behaviour
  None             \* nothing there

ASSUME HarnessAssumption ==
  /\ IsFiniteSet(DOMAIN Documents) /\ DOMAIN Documents \subseteq Nat
  /\ Decided \subseteq DOMAIN Documents /\ MaxJobs \in Nat /\ MaxChanges \in Nat
  /\ SurfaceOf("render.json") \notin Injectable
  /\ "render.json" \in Range(Walk) /\ None \notin Range(Walk)
  /\ \A e \in DOMAIN Documents : Documents[e].paths \subseteq Range(Walk)
  /\ \A e \in DOMAIN Documents : {"component", "paths", "touches", "sidecar", "text", "diff"}
                                 \subseteq DOMAIN Documents[e]
  /\ \A asked \in Jobs :
       \/ asked.kind = "run" /\ asked.edit \in DOMAIN Documents
       \/ /\ asked.kind = "render" /\ asked.force \in BOOLEAN
          /\ asked.with \subseteq DOMAIN Documents /\ asked.without \subseteq DOMAIN Documents

VARIABLES
  binding,    \* the edits docdag calls binding today
  rewritten,  \* sidecars that no longer carry the digest their edit declares
  out,        \* directory -> None, or its files, its manifest, and the file
              \* of it that was opened to be written and is not filled yet
  job,        \* the job under way and the renders it has left
  stage,      \* where its current render is
  plan,       \* the edits of this render and which of them were binding
  tree,       \* the scratch tree and the edits already in it
  answer,     \* how the job ended, and which edit it blames
  spent       \* how many jobs and changes so far

vars == <<binding, rewritten, out, job, stage, plan, tree, answer, spent>>

Edits == DOMAIN Documents
EmptyTree == [p \in {} |-> {}]
NoPlan == [edits |-> <<>>, binding |-> {}, stale |-> {}]
Scratch == [files |-> EmptyTree, done |-> 0]
Idle == [kind |-> "none", left |-> <<>>, found |-> None, base |-> {}]
Unanswered == [word |-> "none", edit |-> 0]

(***************************************************************************)
(* One edit: what it must say before it is rendered, and what its content  *)
(* does to the tree before it.                                             *)
(***************************************************************************)
Renderable(e) ==
  LET d == Documents[e]
  IN /\ d.component \in Injectable
     /\ d.paths # {}
     /\ \A path \in d.paths : SurfaceOf(path) = d.component
     /\ d.touches = {SurfaceOf(path) : path \in d.paths}
     /\ IF d.component = "system-prompt" THEN d.sidecar
        ELSE Cardinality(d.paths) = 1 /\ ~d.sidecar /\ d.text # {}

Digested_Declared(e) == TRUE

Digested(e) == ~Documents[e].sidecar \/ e \notin rewritten

OwnedOnce(edits) ==
  \A a, b \in {e \in edits : Documents[e].component # "system-prompt"} :
    a = b \/ Documents[a].paths \cap Documents[b].paths = {}

Describes(text) == text \ Headings # {}

\* What git says the diff does: every file regular text, inside the surface
\* the edit is about, and one of the files the edit says it owns.
Inspected_ItsSurface(e, diff) ==
  \A path \in DOMAIN diff : diff[path].mode = "regular"

Inspected(e, diff) ==
  \A path \in DOMAIN diff :
    /\ diff[path].mode = "regular"
    /\ SurfaceOf(path) = Documents[e].component
    /\ path \in Documents[e].paths

DiffApplies(diff, files) ==
  \A path \in DOMAIN diff :
    IF diff[path].how = "A" THEN path \notin DOMAIN files
    ELSE path \in DOMAIN files /\ diff[path].needs \subseteq files[path]

Patched(diff, files) ==
  LET gone == {path \in DOMAIN diff : diff[path].how = "D"}
      old(path) == IF path \in DOMAIN files THEN files[path] ELSE {}
  IN [path \in (DOMAIN files \cup DOMAIN diff) \ gone |->
        IF path \in DOMAIN diff THEN (old(path) \ diff[path].removes) \cup diff[path].adds
        ELSE files[path]]

Written(e, files) ==
  [path \in DOMAIN files \cup Documents[e].paths |->
     IF path \in Documents[e].paths THEN Documents[e].text ELSE files[path]]

\* A sidecar is read once: rewritten by then, it would apply as what it is.
SidecarOf(e) ==
  IF e \in plan.stale
  THEN [p \in DOMAIN Documents[e].diff |-> [Documents[e].diff[p] EXCEPT !.adds = {"rewritten"}]]
  ELSE Documents[e].diff

(***************************************************************************)
(* The vault, and the jobs.                                                *)
(***************************************************************************)
Current == Head(job.left)
Directory == Current.out
Whole == [files |-> tree.files, torn |-> None,
          manifest |-> [edits |-> Range(plan.edits), binding |-> plan.binding, files |-> tree.files]]

Init ==
  /\ binding \in {Decided} /\ rewritten = {}
  /\ out = [o \in {"base", "edit", "out"} |-> None]
  /\ job = Idle /\ stage = "idle" /\ plan = NoPlan /\ tree = Scratch
  /\ answer = Unanswered
  /\ spent = [jobs |-> 0, changes |-> 0]

Requests(asked) ==
  IF asked.kind = "run"
  THEN <<[out |-> "base", with |-> {}, without |-> {}, force |-> TRUE],
         [out |-> "edit", with |-> {asked.edit}, without |-> {}, force |-> TRUE]>>
  ELSE <<[out |-> "out", with |-> asked.with, without |-> asked.without, force |-> asked.force]>>

\* A run starts on a proposal alone; the edits a render names are its caller's.
Start(asked) ==
  /\ stage = "idle" /\ spent.jobs < MaxJobs
  /\ asked.kind = "run" => asked.edit \notin binding /\ Renderable(asked.edit)
  /\ job' = [kind |-> asked.kind, left |-> Requests(asked), found |-> out[Requests(asked)[1].out], base |-> binding]
  /\ stage' = "check" /\ plan' = NoPlan /\ tree' = Scratch /\ answer' = Unanswered
  /\ spent' = [spent EXCEPT !.jobs = @ + 1]
  /\ UNCHANGED <<binding, rewritten, out>>

End(word, edit) ==
  /\ answer' = [word |-> word, edit |-> edit]
  /\ stage' = "idle"

\* What a directory holds, by name.  A manifest that is not whole is none a
\* reader can make out.
Held(dir) ==
  DOMAIN dir.files \cup (IF dir.manifest = None THEN {} ELSE {"render.json"}) \cup ({dir.torn} \ {None})
Vacant(dir) == IF dir = None THEN TRUE ELSE Held(dir) = {}

\* Nothing is written over unless the caller said so, and nothing is removed
\* here: the old harness stays until the new one is whole.
CheckOut_Removes ==
  /\ stage = "check"
  /\ IF Current.force \/ Vacant(out[Directory])
     THEN stage' = "query" /\ answer' = answer /\ out' = [out EXCEPT ![Directory] = None]
     ELSE End("refused", 0) /\ out' = out
  /\ UNCHANGED <<binding, rewritten, job, plan, tree, spent>>

CheckOut ==
  /\ stage = "check"
  /\ IF Current.force \/ Vacant(out[Directory])
     THEN stage' = "query" /\ answer' = answer
     ELSE End("refused", 0)
  /\ UNCHANGED <<binding, rewritten, out, job, plan, tree, spent>>

\* What binds is docdag's answer; what is added must not bind already, and
\* what is left out must.
Ids == (binding \ Current.without) \cup Current.with

\* The edits in order of their numbers: there is one such sequence.
Ascending(edits) ==
  {order \in [1..Cardinality(edits) -> edits] :
     \A m, n \in DOMAIN order : m < n => order[m] < order[n]}

Query ==
  /\ stage = "query"
  /\ IF Current.without \subseteq binding /\ Current.with \cap (binding \ Current.without) = {}
     THEN /\ \E order \in Ascending(Ids) :
               plan' = [edits |-> order, binding |-> Ids \ Current.with, stale |-> {}]
          /\ stage' = "read" /\ answer' = answer
     ELSE End("refused", 0) /\ plan' = plan
  /\ UNCHANGED <<binding, rewritten, out, job, tree, spent>>

Readable(edits) ==
  /\ \A e \in edits : Renderable(e) /\ Digested(e)
  /\ OwnedOnce(edits)

ReadEdits ==
  /\ stage = "read"
  /\ IF Readable(Range(plan.edits)) THEN stage' = "build" /\ answer' = answer ELSE End("refused", 0)
  /\ plan' = [edits |-> plan.edits, binding |-> plan.binding, stale |-> rewritten]
  /\ UNCHANGED <<binding, rewritten, out, job, tree, spent>>

\* An edit whose diff does not apply is the candidate's misfortune, which a
\* run records as a measurement that could not be taken, or it is a binding
\* one, which stops the run.
DoesNotApply(e) ==
  End(IF e \in plan.binding THEN "diverged" ELSE IF job.kind = "run" THEN "unmeasurable" ELSE "unapplied", e)

BuildEdit ==
  /\ stage = "build" /\ tree.done + 1 \in DOMAIN plan.edits
  /\ LET e == plan.edits[tree.done + 1]
         d == Documents[e]
     IN IF d.component = "system-prompt"
        THEN LET diff == SidecarOf(e)
             IN IF ~DiffApplies(diff, tree.files) THEN DoesNotApply(e) /\ tree' = tree
                ELSE IF ~Inspected(e, diff) THEN End("refused", e) /\ tree' = tree
                ELSE /\ tree' = [files |-> Patched(diff, tree.files), done |-> tree.done + 1]
                     /\ UNCHANGED <<stage, answer>>
        ELSE IF d.component = "skill" /\ ~Describes(d.text) THEN End("refused", e) /\ tree' = tree
             ELSE /\ tree' = [files |-> Written(e, tree.files), done |-> tree.done + 1]
                  /\ UNCHANGED <<stage, answer>>
  /\ UNCHANGED <<binding, rewritten, out, job, plan, spent>>

Built ==
  /\ stage = "build" /\ tree.done + 1 \notin DOMAIN plan.edits
  /\ stage' = "remove"
  /\ UNCHANGED <<binding, rewritten, out, job, plan, tree, answer, spent>>

(***************************************************************************)
(* The install: the old directory is removed file by file, and the whole   *)
(* tree is renamed into its place, or copied where it cannot be: a file at *)
(* a time, each created, or emptied, and then filled.                      *)
(***************************************************************************)
Forget(dir, path) ==
  [files    |-> [p \in DOMAIN dir.files \ {path} |-> dir.files[p]],
   manifest |-> IF path = "render.json" THEN None ELSE dir.manifest,
   torn     |-> IF path = dir.torn THEN None ELSE dir.torn]

RemoveFile ==
  /\ stage = "remove" /\ out[Directory] # None
  /\ LET dir == out[Directory]
     IN IF Held(dir) = {} THEN out' = [out EXCEPT ![Directory] = None]
        ELSE \E path \in Held(dir) : out' = [out EXCEPT ![Directory] = Forget(dir, path)]
  /\ UNCHANGED <<binding, rewritten, job, stage, plan, tree, answer, spent>>

\* A run renders the candidate next, and has nothing to measure where the two
\* trees are one.
Installed(dirs) ==
  IF Len(job.left) > 1
  THEN /\ job' = [job EXCEPT !.left = Tail(@), !.found = dirs[job.left[2].out]]
       /\ stage' = "check" /\ plan' = NoPlan /\ tree' = Scratch /\ answer' = answer
  ELSE /\ End(IF job.kind = "run" /\ dirs["base"].manifest.files = dirs["edit"].manifest.files
              THEN "unchanged" ELSE "rendered", 0)
       /\ UNCHANGED <<job, plan, tree>>

Rename ==
  /\ stage = "remove" /\ out[Directory] = None
  /\ out' = [out EXCEPT ![Directory] = Whole]
  /\ Installed(out')
  /\ UNCHANGED <<binding, rewritten, spent>>

CopyInstead ==
  /\ stage = "remove" /\ out[Directory] = None
  /\ out' = [out EXCEPT ![Directory] = [files |-> EmptyTree, manifest |-> None, torn |-> None]]
  /\ stage' = "copy"
  /\ UNCHANGED <<binding, rewritten, job, plan, tree, answer, spent>>

\* Where in the walk the files are that are still to be copied.
Uncopied == {n \in DOMAIN Walk : Walk[n] \in Held(Whole) \ Held(out[Directory])}

\* os.WriteFile opens a file, which then holds some part of its text.
Begun(dir, path, part) ==
  [dir EXCEPT !.torn = path,
              !.files = IF path = "render.json" THEN dir.files
                        ELSE [p \in DOMAIN dir.files \cup {path} |->
                                IF p = path THEN part ELSE dir.files[p]]]

Filled(dir) ==
  [dir EXCEPT !.torn = None,
              !.files = IF dir.torn = "render.json" THEN dir.files
                        ELSE [dir.files EXCEPT ![dir.torn] = tree.files[dir.torn]],
              !.manifest = IF dir.torn = "render.json" THEN Whole.manifest ELSE dir.manifest]

CreateFile ==
  /\ stage = "copy" /\ out[Directory].torn = None
  /\ \E n \in Uncopied :
       /\ \A m \in Uncopied : n <= m
       /\ \E part \in SUBSET (IF Walk[n] = "render.json" THEN {} ELSE tree.files[Walk[n]]) :
            out' = [out EXCEPT ![Directory] = Begun(out[Directory], Walk[n], part)]
  /\ UNCHANGED <<binding, rewritten, job, stage, plan, tree, answer, spent>>

FillFile ==
  /\ stage = "copy" /\ out[Directory].torn # None
  /\ out' = [out EXCEPT ![Directory] = Filled(out[Directory])]
  /\ UNCHANGED <<binding, rewritten, job, stage, plan, tree, answer, spent>>

Copied ==
  /\ stage = "copy" /\ out[Directory].torn = None /\ Uncopied = {}
  /\ Installed(out)
  /\ UNCHANGED <<binding, rewritten, out, spent>>

\* A file that cannot be removed, created, filled or made readable: what is
\* there stays there, the file that was being written with what it has got.
InstallFails ==
  /\ stage \in {"remove", "copy"}
  /\ End("failed", 0)
  /\ UNCHANGED <<binding, rewritten, out, job, plan, tree, spent>>

Die ==
  /\ stage # "idle"
  /\ End("dead", 0)
  /\ UNCHANGED <<binding, rewritten, out, job, plan, tree, spent>>

(***************************************************************************)
(* People: an edit is accepted or superseded, a sidecar is rewritten.      *)
(***************************************************************************)
Decide(e) ==
  /\ spent.changes < MaxChanges
  /\ binding' = IF e \in binding THEN binding \ {e} ELSE binding \cup {e}
  /\ spent' = [spent EXCEPT !.changes = @ + 1]
  /\ UNCHANGED <<rewritten, out, job, stage, plan, tree, answer>>

Rewrite(e) ==
  /\ spent.changes < MaxChanges
  /\ Documents[e].sidecar /\ e \notin rewritten
  /\ rewritten' = rewritten \cup {e}
  /\ spent' = [spent EXCEPT !.changes = @ + 1]
  /\ UNCHANGED <<binding, out, job, stage, plan, tree, answer>>

Next ==
  \/ \E asked \in Jobs : Start(asked)
  \/ CheckOut \/ Query \/ ReadEdits \/ BuildEdit \/ Built
  \/ RemoveFile \/ Rename \/ CopyInstead \/ CreateFile \/ FillFile \/ Copied \/ InstallFails
  \/ Die
  \/ \E e \in Edits : Decide(e) \/ Rewrite(e)

Spec == Init /\ [][Next]_vars

-----------------------------------------------------------------------------
TypeOK ==
  /\ binding \subseteq Edits /\ rewritten \subseteq Edits
  /\ DOMAIN out = {"base", "edit", "out"}
  /\ stage \in {"idle", "check", "query", "read", "build", "remove", "copy"}
  /\ Range(plan.edits) \subseteq Edits /\ plan.binding \subseteq Range(plan.edits)
  /\ stage # "idle" => job.kind \in {"run", "render"} /\ job.left # <<>>

Described == {o \in DOMAIN out : out[o] # None /\ out[o].manifest # None}

\* Whatever a directory with a manifest holds came from an edit the manifest
\* names, through the surface that edit is about, and a memory or a skill is
\* word for word what its one edit wrote: no diff carries a file in under
\* another surface's approval, and no edit overwrites another's file.  While
\* files are being removed or copied, and wherever a render dies or a write
\* fails, files of the manifest may be missing and one may hold a part of its
\* text; nothing else is there (render.go: plan, build, inspect, install and
\* copyTree; doc/edit.go: CheckPaths).
OwnerOf(o, path) == {e \in out[o].manifest.edits : path \in Documents[e].paths}
FilesAreTheEdits ==
  \A o \in Described : \A path \in DOMAIN out[o].files :
    LET text == out[o].manifest.files[path]
    IN /\ path \in DOMAIN out[o].manifest.files
       /\ IF path = out[o].torn THEN out[o].files[path] \subseteq text ELSE out[o].files[path] = text
       /\ \E e \in OwnerOf(o, path) :
            /\ Documents[e].component = SurfaceOf(path)
            /\ Documents[e].component # "system-prompt" =>
                 OwnerOf(o, path) = {e} /\ text = Documents[e].text

\* A render that says it is done has left every file of its manifest in place
\* and filled, and a run that renders its candidate has left its baseline so
\* (render.go: Render; loop.go: renders).
Stands(o) ==
  o \in Described /\ out[o].torn = None /\ DOMAIN out[o].files = DOMAIN out[o].manifest.files
RenderedIsWhole ==
  /\ answer.word \in {"rendered", "unchanged"} =>
       \A o \in (IF job.kind = "run" THEN {"base", "edit"} ELSE {"out"}) : Stands(o)
  /\ stage # "idle" /\ job.kind = "run" /\ Directory = "edit" => Stands("base")

TreeIsTheEdits == FilesAreTheEdits /\ RenderedIsWhole

\* Two manifests differ in a file only where they differ in an edit that owns
\* it, whatever was decided or rewritten between the two renders: a measured
\* difference is the doing of the edits in which the two sides differ
\* (loop.go: renders; render.go: readDiff).
DifferenceIsOwned ==
  \A a, b \in Described :
    LET left == out[a].manifest
        right == out[b].manifest
    IN \A path \in DOMAIN left.files \cup DOMAIN right.files :
         \/ /\ path \in DOMAIN left.files \cap DOMAIN right.files
            /\ left.files[path] = right.files[path]
         \/ \E e \in (left.edits \ right.edits) \cup (right.edits \ left.edits) : path \in Documents[e].paths

\* A render that is refused, or whose edits do not apply, leaves the harness
\* that was there as it was, also with --force (render.go: checkOut, install).
RefusedKeepsTheHarness ==
  answer.word \in {"refused", "diverged", "unapplied", "unmeasurable"} => out[Directory] = job.found

\* "a binding edit that will not apply means the vault and the seed have
\* diverged and a person has to reconcile them, while a candidate that will
\* not apply is a measurement that cannot be taken" (render.go, EditRecord):
\* over a vault nobody touched, a run blames a binding edit only where the
\* baseline, which is the binding edits alone, does not render.
BlamedBindingEditsDiverge ==
  answer.word = "diverged" /\ job.kind = "run" /\ binding = job.base => Directory = "base"
=============================================================================
