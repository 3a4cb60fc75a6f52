--------------------------- MODULE HarnessProofs ---------------------------
(***************************************************************************)
(* Theorems about Harness, for every set of documents, headings and jobs,  *)
(* any number of jobs and of changes by people.                            *)
(***************************************************************************)
EXTENDS Harness, Improve, FiniteSetTheorems, SequenceTheorems, WellFoundedInduction, TLAPS

Directories == {"base", "edit", "out"}
Request == [out : Directories, with : SUBSET Edits, without : SUBSET Edits, force : BOOLEAN]

\* A job under way has a render left, of one of the directories.
JobTyped ==
  /\ DOMAIN out = Directories /\ DOMAIN job = {"kind", "left", "found", "base"}
  /\ stage # "idle" => job.left \in Seq(Request) /\ job.left # <<>>

\* Until the install, a render has answered nothing and touched nothing.
Untouched ==
  /\ stage # "idle" => answer = Unanswered
  /\ stage \in {"check", "query", "read", "build"} => out[Directory] = job.found

\* Every file has an owner among some edits, of the surface it is on, and what
\* is not the prompt is what its only owner wrote.
Owned(fs, edits) ==
  \A path \in DOMAIN fs : \E e \in edits :
    /\ path \in Documents[e].paths /\ Documents[e].component = SurfaceOf(path)
    /\ Documents[e].component # "system-prompt" =>
         /\ \A a \in edits : path \in Documents[a].paths => a = e
         /\ fs[path] = Documents[e].text

\* What stays true of the edits that were read, though a sidecar be rewritten.
Separate(edits) == (\A e \in edits : Renderable(e)) /\ OwnedOnce(edits)

\* The scratch tree is made by the edits that were read.
ScratchOwned ==
  /\ stage \in {"check", "query", "read"} => tree = Scratch
  /\ stage \in {"build", "remove", "copy"} =>
       Separate(Range(plan.edits)) /\ Owned(tree.files, Range(plan.edits))

\* A directory is a record of its files, its manifest and the file being written.
Shaped(dir) == DOMAIN dir = {"files", "manifest", "torn"}
OutShaped == \A o \in Directories : out[o] # None => Shaped(out[o])

\* A directory holds some of the files, one of them perhaps in part.
PartOf(dir, fs) ==
  /\ DOMAIN dir.files \subseteq DOMAIN fs
  /\ \A path \in DOMAIN dir.files :
       IF dir.torn # None /\ path = dir.torn THEN dir.files[path] \subseteq fs[path]
       ELSE dir.files[path] = fs[path]

\* What is copied so far is a part of the scratch tree.
PartCopied ==
  stage = "copy" =>
    /\ Shaped(out[Directory]) /\ PartOf(out[Directory], tree.files)
    /\ out[Directory].manifest \in {None, Whole.manifest}

\* A directory with a manifest holds some of what the manifest's edits own.
OutOwned ==
  \A o \in Directories : out[o] # None /\ out[o].manifest # None =>
    /\ Owned(out[o].manifest.files, out[o].manifest.edits)
    /\ PartOf(out[o], out[o].manifest.files)

IInv ==
  /\ JobTyped /\ Untouched /\ ScratchOwned
  /\ OutShaped /\ PartCopied /\ OutOwned /\ RefusedKeepsTheHarness

-----------------------------------------------------------------------------
(***************************************************************************)
(* What building an edit does to what is owned                             *)
(***************************************************************************)

\* A prompt diff that was inspected touches files of its own edit alone.
LEMMA PatchedOwned ==
  ASSUME NEW edits, NEW e \in edits, NEW fs, NEW diff,
         Owned(fs, edits), Documents[e].component = "system-prompt", Inspected(e, diff)
  PROVE  Owned(Patched(diff, fs), edits)
<1> DEFINE new == Patched(diff, fs)
<1> SUFFICES ASSUME NEW path \in DOMAIN new
             PROVE  \E a \in edits :
                      /\ path \in Documents[a].paths /\ Documents[a].component = SurfaceOf(path)
                      /\ Documents[a].component # "system-prompt" =>
                           /\ \A b \in edits : path \in Documents[b].paths => b = a
                           /\ new[path] = Documents[a].text
  BY DEF Owned
<1>1. CASE path \in DOMAIN diff
  <2>1. path \in Documents[e].paths /\ SurfaceOf(path) = Documents[e].component
    BY <1>1 DEF Inspected
  <2> QED
    BY <2>1
<1>2. CASE path \notin DOMAIN diff
  <2>1. path \in DOMAIN fs /\ new[path] = fs[path]
    BY <1>2 DEF Patched
  <2> QED
    BY <2>1 DEF Owned
<1> QED
  BY <1>1, <1>2

\* A memory or a skill is written where no other edit that was read writes.
LEMMA WrittenOwned ==
  ASSUME NEW edits, NEW e \in edits, NEW fs,
         Owned(fs, edits), Separate(edits)
  PROVE  Owned(Written(e, fs), edits)
<1> DEFINE new == Written(e, fs)
<1> SUFFICES ASSUME NEW path \in DOMAIN new
             PROVE  \E a \in edits :
                      /\ path \in Documents[a].paths /\ Documents[a].component = SurfaceOf(path)
                      /\ Documents[a].component # "system-prompt" =>
                           /\ \A b \in edits : path \in Documents[b].paths => b = a
                           /\ new[path] = Documents[a].text
  BY DEF Owned
<1>1. CASE path \in Documents[e].paths
  <2>1. \A a \in edits : path \in Documents[a].paths => Documents[a].component = SurfaceOf(path)
    BY DEF Separate, Renderable
  <2>2. new[path] = Documents[e].text
    BY <1>1 DEF Written
  <2>3. ASSUME Documents[e].component # "system-prompt", NEW b \in edits, path \in Documents[b].paths
        PROVE  b = e
    <3>1. Documents[b].component # "system-prompt" /\ OwnedOnce(edits)
      BY <1>1, <2>1, <2>3 DEF Separate
    <3> QED
      BY <1>1, <2>3, <3>1 DEF OwnedOnce
  <2> QED
    BY <1>1, <2>1, <2>2, <2>3
<1>2. CASE path \notin Documents[e].paths
  <2>1. path \in DOMAIN fs /\ new[path] = fs[path]
    BY <1>2 DEF Written
  <2> QED
    BY <2>1 DEF Owned
<1> QED
  BY <1>1, <1>2

-----------------------------------------------------------------------------
(***************************************************************************)
(* The invariant                                                           *)
(***************************************************************************)
\* Nothing is rendered yet.
LEMMA InitIInv == Init => IInv
<1> SUFFICES ASSUME Init PROVE IInv
  OBVIOUS
<1>1. /\ DOMAIN out = Directories /\ DOMAIN job = {"kind", "left", "found", "base"}
      /\ \A o \in Directories : out[o] = None
      /\ stage = "idle" /\ answer.word = "none"
  BY DEF Init, Directories, Idle, Unanswered
<1> QED
  BY <1>1 DEF IInv, JobTyped, Untouched, ScratchOwned, OutShaped, PartCopied, OutOwned,
              RefusedKeepsTheHarness

\* What people decide and rewrite is read by later steps, and touches no tree.
LEMMA ElsewhereKeeps ==
  ASSUME IInv, UNCHANGED <<out, job, stage, plan, tree, answer>>
  PROVE  IInv'
<1>1. Directory' = Directory /\ Whole' = Whole
  BY DEF Directory, Current, Whole
<1>2. JobTyped' /\ Untouched' /\ RefusedKeepsTheHarness'
  BY <1>1 DEF IInv, JobTyped, Untouched, RefusedKeepsTheHarness
<1>3. ScratchOwned'
  BY DEF IInv, ScratchOwned, Separate, Owned, OwnedOnce, Renderable
<1>4. OutShaped' /\ OutOwned'
  BY DEF IInv, OutShaped, Shaped, OutOwned, Owned, PartOf
<1>5. PartCopied'
  BY <1>1 DEF IInv, PartCopied, Shaped, PartOf
<1> QED
  BY <1>2, <1>3, <1>4, <1>5 DEF IInv

\* A job ends: the directories are as they were, and a refusal is one of the
\* steps before the install.
LEMMA EndKeeps ==
  ASSUME IInv, NEW word, NEW edit, End(word, edit), UNCHANGED <<out, job>>,
         \/ stage \in {"check", "query", "read", "build"}
         \/ word \notin {"refused", "diverged", "unapplied", "unmeasurable"}
  PROVE  IInv'
<1>1. stage' = "idle" /\ answer'.word = word
  BY DEF End
<1>2. Directory' = Directory /\ out' = out /\ job' = job
  BY DEF Directory, Current
<1>3. JobTyped' /\ Untouched' /\ ScratchOwned' /\ PartCopied'
  BY <1>1, <1>2 DEF IInv, JobTyped, Untouched, ScratchOwned, PartCopied
<1>4. OutShaped' /\ OutOwned'
  BY <1>2 DEF IInv, OutShaped, OutOwned
<1>5. RefusedKeepsTheHarness'
  BY <1>1, <1>2 DEF IInv, Untouched, RefusedKeepsTheHarness
<1> QED
  BY <1>3, <1>4, <1>5 DEF IInv

\* A step of a render that neither ends it nor installs anything.
LEMMA ProceedKeeps ==
  ASSUME IInv, stage # "idle", stage' # "idle", stage' # "copy", UNCHANGED <<out, job, answer>>,
         stage' \in {"check", "query", "read", "build"} => stage \in {"check", "query", "read", "build"},
         ScratchOwned'
  PROVE  IInv'
<1>1. Directory' = Directory /\ out' = out /\ job' = job /\ answer' = answer
  BY DEF Directory, Current
<1>2. JobTyped' /\ Untouched' /\ PartCopied'
  BY <1>1 DEF IInv, JobTyped, Untouched, PartCopied
<1>3. OutShaped' /\ OutOwned' /\ RefusedKeepsTheHarness'
  BY <1>1 DEF IInv, OutShaped, OutOwned, RefusedKeepsTheHarness
<1> QED
  BY <1>2, <1>3 DEF IInv

\* A job begins: what it found is what its first directory holds.
LEMMA StartKeeps ==
  ASSUME IInv, NEW asked \in Jobs, Start(asked)
  PROVE  IInv'
<1> DEFINE left == Requests(asked)
<1>1. left \in Seq(Request) /\ left # <<>>
  <2>1. CASE asked.kind = "run"
    <3>1. asked.edit \in Edits
      BY <2>1, HarnessAssumption DEF Edits
    <3>2. /\ [out |-> "base", with |-> {}, without |-> {}, force |-> TRUE] \in Request
          /\ [out |-> "edit", with |-> {asked.edit}, without |-> {}, force |-> TRUE] \in Request
      BY <3>1 DEF Request, Directories
    <3> QED
      BY <2>1, <3>2 DEF Requests
  <2>2. CASE asked.kind # "run"
    <3>1. asked.force \in BOOLEAN /\ asked.with \subseteq Edits /\ asked.without \subseteq Edits
      BY <2>2, HarnessAssumption DEF Edits
    <3>2. [out |-> "out", with |-> asked.with, without |-> asked.without, force |-> asked.force] \in Request
      BY <3>1 DEF Request, Directories
    <3> QED
      BY <2>2, <3>2 DEF Requests
  <2> QED
    BY <2>1, <2>2
<1>2. /\ job' = [kind |-> asked.kind, left |-> left, found |-> out[left[1].out], base |-> binding]
      /\ stage' = "check" /\ answer' = Unanswered /\ out' = out
  BY DEF Start
<1> HIDE DEF left
<1>3. Directory' = left[1].out
  BY <1>1, <1>2 DEF Directory, Current
<1>4. JobTyped'
  BY <1>1, <1>2 DEF IInv, JobTyped
<1>5. Untouched' /\ PartCopied'
  BY <1>2, <1>3 DEF Untouched, PartCopied
<1>8. ScratchOwned'
  BY <1>2 DEF Start, ScratchOwned, Scratch
<1>6. OutShaped' /\ OutOwned'
  BY <1>2 DEF IInv, OutShaped, OutOwned
<1>7. RefusedKeepsTheHarness'
  BY <1>2 DEF RefusedKeepsTheHarness, Unanswered
<1> QED
  BY <1>4, <1>5, <1>6, <1>7, <1>8 DEF IInv

\* A tree is installed, and the job goes on to its other render or is over.
LEMMA InstalledKeeps ==
  ASSUME IInv, stage # "idle", Installed(out'),
         DOMAIN out' = Directories, OutShaped', OutOwned'
  PROVE  IInv'
<1>1. job.left \in Seq(Request) /\ job.left # <<>> /\ answer = Unanswered
  BY DEF IInv, JobTyped, Untouched
<1>2. CASE Len(job.left) > 1
  <2>1. /\ job' = [job EXCEPT !.left = Tail(@), !.found = out'[job.left[2].out]]
        /\ stage' = "check" /\ answer' = answer
    BY <1>2 DEF Installed
  <2>0. DOMAIN job = {"kind", "left", "found", "base"}
    BY DEF IInv, JobTyped
  <2>2. job'.left = Tail(job.left) /\ job'.found = out'[job.left[2].out]
        /\ DOMAIN job' = {"kind", "left", "found", "base"}
    BY <2>0, <2>1
  <2>3. Tail(job.left) \in Seq(Request) /\ Tail(job.left) # <<>> /\ Head(Tail(job.left)) = job.left[2]
    <3> DEFINE rest == Tail(job.left)
    <3>1. /\ rest \in Seq(Request) /\ Len(rest) = Len(job.left) - 1
          /\ \A i \in 1..Len(rest) : rest[i] = job.left[i + 1]
      BY <1>1, HeadTailProperties
    <3> HIDE DEF rest
    <3>2. Len(rest) \in Nat /\ Len(rest) >= 1
      BY <1>1, <1>2, <3>1
    <3>3. rest[1] = job.left[2] /\ rest # <<>> /\ Head(rest) = rest[1]
      BY <3>1, <3>2
    <3> QED
      BY <3>1, <3>3 DEF rest
  <2>4. JobTyped' /\ Directory' = job.left[2].out
    BY <2>2, <2>3 DEF JobTyped, Directory, Current
  <2>5. Untouched' /\ ScratchOwned' /\ PartCopied' /\ RefusedKeepsTheHarness'
    <3>1. tree' = Scratch'
      BY <1>2 DEF Installed
    <3> QED
      BY <1>1, <2>1, <2>2, <2>4, <3>1
         DEF Untouched, ScratchOwned, PartCopied, RefusedKeepsTheHarness, Unanswered
  <2> QED
    BY <2>4, <2>5 DEF IInv
<1>3. CASE ~(Len(job.left) > 1)
  <2>1. stage' = "idle" /\ job' = job /\ answer'.word \in {"unchanged", "rendered"}
    BY <1>3 DEF Installed, End
  <2>2. JobTyped' /\ Untouched' /\ ScratchOwned' /\ PartCopied' /\ RefusedKeepsTheHarness'
    BY <2>1 DEF IInv, JobTyped, Untouched, ScratchOwned, PartCopied, RefusedKeepsTheHarness
  <2> QED
    BY <2>2 DEF IInv
<1> QED
  BY <1>2, <1>3

\* What the steps before the build do: ask which edits bind, and read them.
LEMMA PrepareKeeps ==
  ASSUME IInv, CheckOut \/ Query \/ ReadEdits \/ Built
  PROVE  IInv'
<1>1. CASE CheckOut
  <2>1. CASE stage' = "query" /\ answer' = answer
    BY <1>1, <2>1, ProceedKeeps DEF CheckOut, IInv, ScratchOwned, Scratch
  <2>2. CASE End("refused", 0)
    BY <1>1, <2>2, EndKeeps DEF CheckOut
  <2> QED
    BY <1>1, <2>1, <2>2 DEF CheckOut
<1>2. CASE Query
  <2>1. CASE stage' = "read" /\ answer' = answer
    BY <1>2, <2>1, ProceedKeeps DEF Query, IInv, ScratchOwned, Scratch
  <2>2. CASE End("refused", 0)
    BY <1>2, <2>2, EndKeeps DEF Query
  <2> QED
    BY <1>2, <2>1, <2>2 DEF Query
<1>3. CASE ReadEdits
  <2>1. CASE Readable(Range(plan.edits)) /\ stage' = "build" /\ answer' = answer
    <3>1. /\ stage' = "build" /\ plan'.edits = plan.edits /\ tree' = tree
      BY <1>3, <2>1 DEF ReadEdits
    <3>2. DOMAIN tree.files = {}
      BY <1>3 DEF ReadEdits, IInv, ScratchOwned, Scratch, EmptyTree
    <3>3. Separate(Range(plan.edits)) /\ Owned(tree.files, Range(plan.edits))
      BY <2>1, <3>2 DEF Readable, Separate, Owned
    <3>4. Separate(Range(plan.edits))' /\ Owned(tree.files, Range(plan.edits))'
      BY <3>1, <3>3 DEF Separate, Owned, OwnedOnce, Renderable, Range
    <3>5. ScratchOwned'
      BY <3>1, <3>4 DEF ScratchOwned
    <3> QED
      BY <1>3, <2>1, <3>5, ProceedKeeps DEF ReadEdits
  <2>2. CASE End("refused", 0)
    BY <1>3, <2>2, EndKeeps DEF ReadEdits
  <2> QED
    BY <1>3, <2>1, <2>2 DEF ReadEdits
<1>4. CASE Built
  <2>1. ScratchOwned'
    BY <1>4 DEF Built, IInv, ScratchOwned, Separate, Owned, OwnedOnce, Renderable
  <2> QED
    BY <1>4, <2>1, ProceedKeeps DEF Built
<1> QED
  BY <1>1, <1>2, <1>3, <1>4

\* One edit is applied to the scratch tree, or ends the render.
LEMMA BuildKeeps == IInv /\ BuildEdit => IInv'
<1> SUFFICES ASSUME IInv, BuildEdit PROVE IInv'
  OBVIOUS
<1> DEFINE e == plan.edits[tree.done + 1]
           edits == Range(plan.edits)
<1>1. stage = "build" /\ e \in edits /\ UNCHANGED <<out, job, plan>>
  BY DEF BuildEdit, Range
<1>2. Separate(edits) /\ Owned(tree.files, edits)
  BY <1>1 DEF IInv, ScratchOwned
<1> HIDE DEF e, edits
<1>3. ASSUME NEW fs, Owned(fs, edits), tree'.files = fs, UNCHANGED <<stage, answer>>
      PROVE  IInv'
  <2>1. Separate(edits') /\ Owned(tree'.files, edits')
    BY <1>1, <1>2, <1>3 DEF edits
  <2>2. ScratchOwned'
    BY <1>1, <1>3, <2>1 DEF ScratchOwned, Separate, Owned, OwnedOnce, Renderable, edits
  <2> QED
    BY <1>1, <1>3, <2>2, ProceedKeeps
<1>4. CASE \E word : End(word, e)
  BY <1>1, <1>4, EndKeeps
<1>5. CASE /\ Documents[e].component = "system-prompt" /\ Inspected(e, SidecarOf(e))
           /\ tree' = [files |-> Patched(SidecarOf(e), tree.files), done |-> tree.done + 1]
           /\ UNCHANGED <<stage, answer>>
  BY <1>1, <1>2, <1>3, <1>5, PatchedOwned
<1>6. CASE /\ tree' = [files |-> Written(e, tree.files), done |-> tree.done + 1]
           /\ UNCHANGED <<stage, answer>>
  BY <1>1, <1>2, <1>3, <1>6, WrittenOwned
<1> QED
  BY <1>4, <1>5, <1>6 DEF BuildEdit, DoesNotApply, e

\* A render has a directory of its own to work in.
LEMMA WorkingDirectory ==
  ASSUME IInv, stage # "idle"
  PROVE  Directory \in Directories /\ DOMAIN out = Directories
<1>1. job.left \in Seq(Request) /\ job.left # <<>> /\ DOMAIN out = Directories
  BY DEF IInv, JobTyped
<1>2. Head(job.left) \in Request
  BY <1>1, HeadTailProperties
<1> QED
  BY <1>1, <1>2 DEF Directory, Current, Request

\* Removing the old tree takes files away, or the manifest.
LEMMA RemoveKeeps == IInv /\ RemoveFile => IInv'
<1> SUFFICES ASSUME IInv, RemoveFile PROVE IInv'
  OBVIOUS
<1> DEFINE dir == out[Directory]
<1>1. /\ stage = "remove" /\ dir # None /\ UNCHANGED <<job, stage, plan, tree, answer>>
      /\ Directory \in Directories /\ DOMAIN out = Directories
  BY WorkingDirectory DEF RemoveFile
<1>2. PICK new : /\ out' = [out EXCEPT ![Directory] = new]
                 /\ new = None \/ \E path : new = Forget(dir, path)
  BY DEF RemoveFile
<1>3. Shaped(dir)
  BY <1>1 DEF IInv, OutShaped
<1>4. new # None => Shaped(new)
  BY <1>2, <1>3 DEF Forget, Shaped
<1>5. new # None /\ new.manifest # None =>
        Owned(new.manifest.files, new.manifest.edits) /\ PartOf(new, new.manifest.files)
  <2> SUFFICES ASSUME NEW path, new = Forget(dir, path), new.manifest # None
               PROVE  Owned(new.manifest.files, new.manifest.edits) /\ PartOf(new, new.manifest.files)
    BY <1>2
  <2>1. /\ new.manifest = dir.manifest /\ DOMAIN new.files = DOMAIN dir.files \ {path}
        /\ \A p \in DOMAIN new.files : new.files[p] = dir.files[p]
        /\ new.torn = IF path = dir.torn THEN None ELSE dir.torn
    BY DEF Forget
  <2>2. Owned(dir.manifest.files, dir.manifest.edits) /\ PartOf(dir, dir.manifest.files)
    BY <1>1, <2>1 DEF IInv, OutOwned
  <2> HIDE DEF dir
  <2> QED
    BY <2>1, <2>2 DEF PartOf
<1> HIDE DEF dir
<1>6. /\ DOMAIN out' = Directories /\ out'[Directory] = new
      /\ \A o \in Directories : o # Directory => out'[o] = out[o]
  BY <1>1, <1>2
<1>7. OutShaped' /\ OutOwned'
  <2>1. \A o \in Directories : out'[o] # None => Shaped(out'[o])
    BY <1>4, <1>6 DEF IInv, OutShaped
  <2>2. \A o \in Directories : out'[o] # None /\ out'[o].manifest # None =>
          Owned(out'[o].manifest.files, out'[o].manifest.edits) /\ PartOf(out'[o], out'[o].manifest.files)
    BY <1>5, <1>6 DEF IInv, OutOwned
  <2> QED
    BY <2>1, <2>2 DEF OutShaped, OutOwned, Shaped, Owned, PartOf
<1>8. JobTyped' /\ Untouched' /\ PartCopied'
  BY <1>1, <1>6 DEF IInv, JobTyped, Untouched, PartCopied
<1>9. ScratchOwned'
  BY <1>1 DEF IInv, ScratchOwned, Separate, Owned, OwnedOnce, Renderable
<1>10. RefusedKeepsTheHarness'
  BY <1>1 DEF IInv, Untouched, RefusedKeepsTheHarness, Unanswered
<1> QED
  BY <1>7, <1>8, <1>9, <1>10 DEF IInv

\* The whole tree, renamed into its place.
LEMMA RenameKeeps == IInv /\ Rename => IInv'
<1> SUFFICES ASSUME IInv, Rename PROVE IInv'
  OBVIOUS
<1>1. stage = "remove" /\ Directory \in Directories /\ DOMAIN out = Directories
  BY WorkingDirectory DEF Rename
<1>2. /\ DOMAIN out' = Directories /\ out'[Directory] = Whole
      /\ \A o \in Directories : o # Directory => out'[o] = out[o]
  BY <1>1 DEF Rename
<1>3. /\ Shaped(Whole) /\ Owned(Whole.manifest.files, Whole.manifest.edits)
      /\ PartOf(Whole, Whole.manifest.files)
  BY <1>1 DEF IInv, ScratchOwned, Whole, Shaped, PartOf
<1>4. \A o \in Directories : out'[o] # None => Shaped(out'[o])
  BY <1>2, <1>3 DEF IInv, OutShaped
<1>5. \A o \in Directories : out'[o] # None /\ out'[o].manifest # None =>
        Owned(out'[o].manifest.files, out'[o].manifest.edits) /\ PartOf(out'[o], out'[o].manifest.files)
  BY <1>2, <1>3 DEF IInv, OutOwned
<1>6. OutShaped' /\ OutOwned'
  BY <1>4, <1>5 DEF OutShaped, OutOwned, Shaped, Owned, PartOf
<1> QED
  BY <1>1, <1>2, <1>6, InstalledKeeps DEF Rename

\* A step that puts a part of the scratch tree in the directory.
LEMMA PartKeeps ==
  ASSUME IInv, stage \in {"remove", "copy"}, stage' = "copy", UNCHANGED <<job, plan, tree, answer>>,
         NEW new, out' = [out EXCEPT ![Directory] = new],
         Shaped(new), new.manifest \in {None, Whole.manifest}, PartOf(new, tree.files)
  PROVE  IInv'
<1>1. Directory \in Directories /\ DOMAIN out = Directories
  BY WorkingDirectory
<1>2. /\ DOMAIN out' = Directories /\ out'[Directory] = new
      /\ \A o \in Directories : o # Directory => out'[o] = out[o]
  BY <1>1
<1>3. Directory' = Directory /\ Whole' = Whole
  BY DEF Directory, Current, Whole
<1>4. new.manifest # None =>
        Owned(new.manifest.files, new.manifest.edits) /\ PartOf(new, new.manifest.files)
  <2>1. /\ Owned(tree.files, Range(plan.edits)) /\ Whole.manifest.edits = Range(plan.edits)
        /\ Whole.manifest.files = tree.files
    BY DEF IInv, ScratchOwned, Whole
  <2> QED
    BY <2>1
<1>5. \A o \in Directories : out'[o] # None => Shaped(out'[o])
  BY <1>2 DEF IInv, OutShaped
<1>6. \A o \in Directories : out'[o] # None /\ out'[o].manifest # None =>
        Owned(out'[o].manifest.files, out'[o].manifest.edits) /\ PartOf(out'[o], out'[o].manifest.files)
  BY <1>2, <1>4 DEF IInv, OutOwned
<1>7. OutShaped' /\ OutOwned'
  BY <1>5, <1>6 DEF OutShaped, OutOwned, Shaped, Owned, PartOf
<1>8. PartCopied'
  BY <1>2, <1>3 DEF PartCopied, Shaped, PartOf
<1>9. JobTyped' /\ Untouched'
  BY <1>2 DEF IInv, JobTyped, Untouched
<1>10. ScratchOwned'
  BY DEF IInv, ScratchOwned, Separate, Owned, OwnedOnce, Renderable
<1>11. RefusedKeepsTheHarness'
  BY DEF IInv, Untouched, RefusedKeepsTheHarness, Unanswered
<1> QED
  BY <1>7, <1>8, <1>9, <1>10, <1>11 DEF IInv

\* The manifest's name is no file's: it is on no surface.
LEMMA ManifestIsNoFile ==
  ASSUME IInv, stage \in {"remove", "copy"}
  PROVE  "render.json" \notin DOMAIN tree.files
<1>1. Separate(Range(plan.edits)) /\ Owned(tree.files, Range(plan.edits))
  BY DEF IInv, ScratchOwned
<1> QED
  BY <1>1, HarnessAssumption DEF Owned, Separate, Renderable

\* The copy across filesystems, begun and continued.
LEMMA CopyKeeps == IInv /\ (CopyInstead \/ CreateFile \/ FillFile) => IInv'
<1> DEFINE dir == out[Directory]
<1>1. ASSUME IInv, CopyInstead PROVE IInv'
  <2> DEFINE new == [files |-> EmptyTree, manifest |-> None, torn |-> None]
  <2>1. Shaped(new) /\ DOMAIN new.files = {} /\ new.manifest = None
    BY DEF Shaped, EmptyTree
  <2> HIDE DEF new
  <2>2. out' = [out EXCEPT ![Directory] = new]
    BY <1>1 DEF CopyInstead, new
  <2>3. PartOf(new, tree.files)
    BY <2>1 DEF PartOf
  <2> QED
    BY <1>1, <2>1, <2>2, <2>3, PartKeeps DEF CopyInstead
<1>2. ASSUME IInv, CreateFile PROVE IInv'
  <2>1. PICK n \in Uncopied :
          \E part \in SUBSET (IF Walk[n] = "render.json" THEN {} ELSE tree.files[Walk[n]]) :
            out' = [out EXCEPT ![Directory] = Begun(dir, Walk[n], part)]
    BY <1>2 DEF CreateFile
  <2>2. PICK part \in SUBSET (IF Walk[n] = "render.json" THEN {} ELSE tree.files[Walk[n]]) :
          out' = [out EXCEPT ![Directory] = Begun(dir, Walk[n], part)]
    BY <2>1
  <2> DEFINE path == Walk[n]
             new == Begun(dir, path, part)
  <2>3. /\ Shaped(dir) /\ dir.manifest \in {None, Whole.manifest}
        /\ dir.torn = None /\ PartOf(dir, tree.files)
    BY <1>2 DEF CreateFile, IInv, PartCopied
  <2>4. path \in Held(Whole) /\ path \in Range(Walk)
    BY DEF Uncopied, Range
  <2>5. path # None
    BY <2>4, HarnessAssumption
  <2>6. path # "render.json" => path \in DOMAIN tree.files /\ part \subseteq tree.files[path]
    BY <2>4 DEF Held, Whole
  <2> HIDE DEF path, dir
  <2>7. /\ Shaped(new) /\ new.manifest = dir.manifest /\ new.torn = path
        /\ new.files = IF path = "render.json" THEN dir.files
                       ELSE [p \in DOMAIN dir.files \cup {path} |-> IF p = path THEN part ELSE dir.files[p]]
    BY <2>3 DEF Begun, Shaped
  <2>8. out' = [out EXCEPT ![Directory] = new]
    BY <2>2 DEF path
  <2> HIDE DEF new
  <2>9. PartOf(new, tree.files)
    <3>1. CASE path = "render.json"
      <4>1. "render.json" \notin DOMAIN tree.files
        BY <1>2, ManifestIsNoFile DEF CreateFile
      <4> QED
        BY <2>3, <2>7, <3>1, <4>1 DEF PartOf
    <3>2. CASE path # "render.json"
      BY <2>3, <2>5, <2>6, <2>7, <3>2 DEF PartOf
    <3> QED
      BY <3>1, <3>2
  <2> QED
    BY <1>2, <2>3, <2>7, <2>8, <2>9, PartKeeps DEF CreateFile
<1>3. ASSUME IInv, FillFile PROVE IInv'
  <2> DEFINE new == Filled(dir)
  <2>1. /\ Shaped(dir) /\ dir.manifest \in {None, Whole.manifest}
        /\ dir.torn # None /\ PartOf(dir, tree.files)
    BY <1>3 DEF FillFile, IInv, PartCopied
  <2>2. "render.json" \notin DOMAIN tree.files
    BY <1>3, ManifestIsNoFile DEF FillFile
  <2>3. out' = [out EXCEPT ![Directory] = new]
    BY <1>3 DEF FillFile
  <2> HIDE DEF dir
  <2>4. /\ Shaped(new) /\ new.torn = None /\ new.manifest \in {None, Whole.manifest}
        /\ new.files = IF dir.torn = "render.json" THEN dir.files
                       ELSE [dir.files EXCEPT ![dir.torn] = tree.files[dir.torn]]
    BY <2>1 DEF Filled, Shaped
  <2> HIDE DEF new
  <2>5. DOMAIN new.files = DOMAIN dir.files /\ \A p \in DOMAIN new.files : new.files[p] = tree.files[p]
    BY <2>1, <2>2, <2>4 DEF PartOf
  <2>6. PartOf(new, tree.files)
    BY <2>1, <2>5 DEF PartOf
  <2> QED
    BY <1>3, <2>3, <2>4, <2>6, PartKeeps DEF FillFile
<1> QED
  BY <1>1, <1>2, <1>3

\* Every step keeps the invariant.
LEMMA NextKeeps == IInv /\ [Next]_vars => IInv'
<1> SUFFICES ASSUME IInv, [Next]_vars PROVE IInv'
  OBVIOUS
<1>1. ASSUME NEW asked \in Jobs, Start(asked) PROVE IInv'
  BY <1>1, StartKeeps
<1>2. CASE CheckOut \/ Query \/ ReadEdits \/ Built
  BY <1>2, PrepareKeeps
<1>3. CASE BuildEdit
  BY <1>3, BuildKeeps
<1>4. CASE RemoveFile
  BY <1>4, RemoveKeeps
<1>5. CASE Rename
  BY <1>5, RenameKeeps
<1>6. CASE CopyInstead \/ CreateFile \/ FillFile
  BY <1>6, CopyKeeps
<1>7. CASE Copied
  <2>1. stage # "idle" /\ out' = out /\ Installed(out') /\ DOMAIN out' = Directories
    BY <1>7 DEF Copied, IInv, JobTyped
  <2>2. OutShaped' /\ OutOwned'
    BY <2>1 DEF IInv, OutShaped, Shaped, OutOwned, Owned, PartOf
  <2> QED
    BY <2>1, <2>2, InstalledKeeps
<1>8. CASE InstallFails
  BY <1>8, EndKeeps DEF InstallFails
<1>9. CASE Die
  BY <1>9, EndKeeps DEF Die
<1>10. CASE UNCHANGED vars \/ \E e \in Edits : Decide(e) \/ Rewrite(e)
  BY <1>10, ElsewhereKeeps DEF vars, Decide, Rewrite
<1> QED
  BY <1>1, <1>2, <1>3, <1>4, <1>5, <1>6, <1>7, <1>8, <1>9, <1>10 DEF Next

\* The invariant holds of every behaviour.
LEMMA Invariant == Spec => []IInv
BY InitIInv, NextKeeps, PTL DEF Spec

-----------------------------------------------------------------------------
(***************************************************************************)
(* The results                                                             *)
(***************************************************************************)

\* What a directory with a manifest holds was written by the manifest's edits.
LEMMA FilesOwned == IInv => FilesAreTheEdits
<1> SUFFICES ASSUME IInv, NEW o \in Described, NEW path \in DOMAIN out[o].files
             PROVE  /\ path \in DOMAIN out[o].manifest.files
                    /\ IF path = out[o].torn
                       THEN out[o].files[path] \subseteq out[o].manifest.files[path]
                       ELSE out[o].files[path] = out[o].manifest.files[path]
                    /\ \E e \in OwnerOf(o, path) :
                         /\ Documents[e].component = SurfaceOf(path)
                         /\ Documents[e].component # "system-prompt" =>
                              OwnerOf(o, path) = {e} /\ out[o].manifest.files[path] = Documents[e].text
  BY DEF FilesAreTheEdits
<1>1. o \in Directories /\ out[o] # None /\ out[o].manifest # None
  BY DEF Described, IInv, JobTyped
<1>2. Owned(out[o].manifest.files, out[o].manifest.edits) /\ PartOf(out[o], out[o].manifest.files)
  BY <1>1 DEF IInv, OutOwned
<1>3. path \in DOMAIN out[o].manifest.files
  BY <1>2 DEF PartOf
<1> QED
  BY <1>2, <1>3 DEF Owned, OwnerOf, PartOf

\* A render that is refused, at whatever step, leaves the directory it was
\* given as the job, or its earlier render, found it (render.go: checkOut).
THEOREM RefusalKeeps == Spec => []RefusedKeepsTheHarness
<1>1. IInv => RefusedKeepsTheHarness
  BY DEF IInv
<1> QED
  BY <1>1, Invariant, PTL

-----------------------------------------------------------------------------
(***************************************************************************)
(* What a file is, by the edits that own it                                *)
(***************************************************************************)
\* What is at a path: nothing, or a text.
Seen(fs, path) == IF path \in DOMAIN fs THEN <<fs[path]>> ELSE <<>>

\* What an edit that owns a path leaves there.
After(e, path, seen) ==
  LET change == Documents[e].diff[path]
      old == IF seen = <<>> THEN {} ELSE seen[1]
  IN IF Documents[e].component # "system-prompt" THEN <<Documents[e].text>>
     ELSE IF path \notin DOMAIN Documents[e].diff THEN seen
     ELSE IF change.how = "D" THEN <<>> ELSE << (old \ change.removes) \cup change.adds >>

\* The path as it was before each edit number, with the edits in their order.
Leads(edits, path, h) ==
  /\ h[0] = <<>>
  /\ \A n \in Nat : h[n + 1] = IF n \in edits /\ path \in Documents[n].paths
                               THEN After(n, path, h[n]) ELSE h[n]

Beyond(edits, n) == \A m \in edits : m < n

\* What the edits make of the path is the same after the last of them.
Makes(edits, path, seen) ==
  \E h : Leads(edits, path, h) /\ \A n \in Nat : Beyond(edits, n) => h[n] = seen

\* No edit leaves nothing.
LEMMA NothingMade == \A path : Makes({}, path, <<>>)
<1> SUFFICES ASSUME NEW path PROVE Makes({}, path, <<>>)
  OBVIOUS
<1> DEFINE h == [n \in Nat |-> <<>>]
<1>1. Leads({}, path, h) /\ \A n \in Nat : h[n] = <<>>
  BY DEF Leads
<1> HIDE DEF h
<1> QED
  BY <1>1 DEF Makes

\* The next edit of the order is applied to what the ones before it made.
LEMMA NextMade ==
  ASSUME NEW edits, edits \subseteq Nat, NEW e \in Nat, Beyond(edits, e),
         NEW path, NEW seen, Makes(edits, path, seen),
         NEW new, new = IF path \in Documents[e].paths THEN After(e, path, seen) ELSE seen
  PROVE  Makes(edits \cup {e}, path, new)
<1> DEFINE more == edits \cup {e}
<1>1. PICK h : Leads(edits, path, h) /\ \A n \in Nat : Beyond(edits, n) => h[n] = seen
  BY DEF Makes
<1>2. h[e] = seen
  BY <1>1
<1> DEFINE g == [n \in Nat |-> IF n <= e THEN h[n] ELSE new]
<1>3. \A n \in edits : n # e /\ n < e
  BY DEF Beyond
<1>4. \A n \in Nat : n # e => (n \in more <=> n \in edits)
  OBVIOUS
<1>5. g[0] = <<>>
  BY <1>1 DEF Leads
<1>6. ASSUME NEW n \in Nat
      PROVE  g[n + 1] = IF n \in more /\ path \in Documents[n].paths THEN After(n, path, g[n]) ELSE g[n]
  <2>1. CASE n < e
    <3>1. g[n + 1] = h[n + 1] /\ g[n] = h[n] /\ n # e
      BY <2>1
    <3> QED
      BY <1>1, <1>4, <3>1 DEF Leads
  <2>2. CASE n = e
    <3>1. g[n + 1] = new /\ g[n] = seen /\ n \in more
      BY <1>2, <2>2
    <3> QED
      BY <2>2, <3>1
  <2>3. CASE n > e
    <3>1. g[n + 1] = new /\ g[n] = new /\ n \notin more
      BY <1>3, <2>3
    <3> QED
      BY <3>1
  <2> QED
    BY <2>1, <2>2, <2>3
<1>7. \A n \in Nat : Beyond(more, n) => g[n] = new
  BY DEF Beyond
<1> HIDE DEF g, more
<1>8. Leads(more, path, g)
  BY <1>5, <1>6 DEF Leads
<1>9. Makes(more, path, new)
  BY <1>7, <1>8 DEF Makes
<1> QED
  BY <1>9 DEF more

\* Two sets of edits with the same owners of a path make the same of it.
LEMMA SameOwnersSameText ==
  ASSUME NEW one, NEW other, NEW path, NEW seen, NEW found,
         Makes(one, path, seen), Makes(other, path, found),
         NEW high \in Nat, Beyond(one, high), Beyond(other, high),
         \A e \in (one \ other) \cup (other \ one) : path \notin Documents[e].paths
  PROVE  seen = found
<1>1. PICK h : Leads(one, path, h) /\ \A n \in Nat : Beyond(one, n) => h[n] = seen
  BY DEF Makes
<1>2. PICK g : Leads(other, path, g) /\ \A n \in Nat : Beyond(other, n) => g[n] = found
  BY DEF Makes
<1> DEFINE Apart == {n \in Nat : h[n] # g[n]}
<1>3. Apart = {}
  <2> SUFFICES ASSUME Apart # {} PROVE FALSE
    OBVIOUS
  <2> DEFINE R == {ss \in Nat \X Nat : ss[1] < ss[2]}
  <2>1. IsWellFoundedOn(R, Nat)
    BY NatLessThanWellFounded, Zenon DEF OpToRel
  <2>2. PICK n \in Apart : \A m \in Apart : ~ (<<m, n>> \in R)
    <3>1. Apart \subseteq Nat /\ Apart # {}
      OBVIOUS
    <3> HIDE DEF R, Apart
    <3> QED
      BY <2>1, <3>1, WFMin, Zenon
  <2>3. n \in Nat /\ h[n] # g[n] /\ \A m \in Nat : m < n => h[m] = g[m]
    BY <2>2
  <2>4. n # 0
    BY <1>1, <1>2, <2>3 DEF Leads
  <2>5. n - 1 \in Nat /\ (n - 1) + 1 = n /\ h[n - 1] = g[n - 1]
    BY <2>3, <2>4
  <2>6. (n - 1 \in one /\ path \in Documents[n - 1].paths)
          <=> (n - 1 \in other /\ path \in Documents[n - 1].paths)
    OBVIOUS
  <2>7. /\ h[n] = IF n - 1 \in one /\ path \in Documents[n - 1].paths
                  THEN After(n - 1, path, h[n - 1]) ELSE h[n - 1]
        /\ g[n] = IF n - 1 \in other /\ path \in Documents[n - 1].paths
                  THEN After(n - 1, path, g[n - 1]) ELSE g[n - 1]
    BY <1>1, <1>2, <2>5 DEF Leads
  <2> QED
    BY <2>3, <2>5, <2>6, <2>7
<1>4. h[high] = seen /\ g[high] = found
  BY <1>1, <1>2
<1> QED
  BY <1>3, <1>4

-----------------------------------------------------------------------------
(***************************************************************************)
(* What a manifest says was made                                           *)
(***************************************************************************)
Increasing(edits) ==
  /\ \E n \in Nat : DOMAIN edits = 1..n
  /\ \A m \in DOMAIN edits : edits[m] \in Nat
  /\ \A m, n \in DOMAIN edits : m < n => edits[m] < edits[n]

\* The edits in the scratch tree so far.
Applied(edits, done) == {edits[m] : m \in 1..done}

\* The edits that were read are in order, and each sidecar as it was declared.
InOrder ==
  /\ stage \in {"read", "build", "remove", "copy"} => Increasing(plan.edits)
  /\ stage \in {"build", "remove", "copy"} =>
       \A e \in Range(plan.edits) : Documents[e].component = "system-prompt" => e \notin plan.stale

\* The scratch tree is what they make.
ScratchMade ==
  stage \in {"build", "remove", "copy"} =>
    /\ tree.done \in Nat /\ 1..tree.done \subseteq DOMAIN plan.edits
    /\ stage # "build" => tree.done + 1 \notin DOMAIN plan.edits
    /\ \A path : Makes(Applied(plan.edits, tree.done), path, Seen(tree.files, path))

\* A manifest is of a tree its edits make.
MadeBy(manifest) ==
  /\ manifest.edits \subseteq Nat /\ \E high \in Nat : Beyond(manifest.edits, high)
  /\ \A path : Makes(manifest.edits, path, Seen(manifest.files, path))
OutMade ==
  \A o \in Directories : out[o] # None /\ out[o].manifest # None => MadeBy(out[o].manifest)

MInv == IInv /\ InOrder /\ ScratchMade /\ OutMade

\* A tree that is whole is the work of all the edits.
LEMMA WholeMade ==
  ASSUME MInv, stage \in {"remove", "copy"}
  PROVE  MadeBy(Whole.manifest)
<1>1. /\ Increasing(plan.edits) /\ tree.done \in Nat /\ 1..tree.done \subseteq DOMAIN plan.edits
      /\ tree.done + 1 \notin DOMAIN plan.edits
      /\ \A path : Makes(Applied(plan.edits, tree.done), path, Seen(tree.files, path))
  BY DEF MInv, InOrder, ScratchMade
<1>2. PICK n \in Nat : DOMAIN plan.edits = 1..n
  BY <1>1 DEF Increasing
<1>3. tree.done = n
  <2>1. tree.done <= n
    <3>1. CASE tree.done = 0
      BY <1>2, <3>1
    <3>2. CASE tree.done # 0
      <4>1. tree.done \in 1..tree.done
        BY <1>1, <3>2
      <4> QED
        BY <1>1, <1>2, <4>1
    <3> QED
      BY <3>1, <3>2
  <2> QED
    BY <1>1, <1>2, <2>1
<1>4. Applied(plan.edits, tree.done) = Range(plan.edits)
  BY <1>2, <1>3 DEF Applied, Range
<1>5. \E high \in Nat : Beyond(Range(plan.edits), high)
  <2>1. CASE n = 0
    BY <1>2, <2>1 DEF Beyond, Range
  <2>2. CASE n # 0
    <3>1. n \in DOMAIN plan.edits /\ plan.edits[n] \in Nat
      BY <1>1, <1>2, <2>2 DEF Increasing
    <3>2. \A m \in DOMAIN plan.edits : plan.edits[m] < plan.edits[n] + 1
      BY <1>1, <1>2, <3>1 DEF Increasing
    <3>3. Beyond(Range(plan.edits), plan.edits[n] + 1) /\ plan.edits[n] + 1 \in Nat
      BY <3>1, <3>2 DEF Beyond, Range
    <3> QED
      BY <3>3
  <2> QED
    BY <2>1, <2>2
<1>6. Whole.manifest.edits = Range(plan.edits) /\ Whole.manifest.files = tree.files
  BY DEF Whole
<1>7. Range(plan.edits) \subseteq Nat
  BY <1>1 DEF Increasing, Range
<1> HIDE DEF Whole
<1> QED
  BY <1>1, <1>4, <1>5, <1>6, <1>7 DEF MadeBy

\* The manifests there are were there before, or are of the whole tree.
LEMMA ManifestsKeep ==
  ASSUME MInv,
         \A o \in Directories : out'[o] # None /\ out'[o].manifest # None =>
           \/ out[o] # None /\ out'[o].manifest = out[o].manifest
           \/ stage \in {"remove", "copy"} /\ out'[o].manifest = Whole.manifest
  PROVE  OutMade'
<1>1. \A o \in Directories : out'[o] # None /\ out'[o].manifest # None => MadeBy(out'[o].manifest)
  BY WholeMade DEF MInv, OutMade
<1> QED
  BY <1>1 DEF OutMade, MadeBy, Makes, Leads, Beyond, After, Seen

\* What a prompt diff that was inspected leaves at a path.
LEMMA PatchedSeen ==
  ASSUME NEW e, NEW fs, NEW path,
         Documents[e].component = "system-prompt", Inspected(e, Documents[e].diff)
  PROVE  Seen(Patched(Documents[e].diff, fs), path)
           = IF path \in Documents[e].paths THEN After(e, path, Seen(fs, path)) ELSE Seen(fs, path)
<1> DEFINE diff == Documents[e].diff
           new == Patched(diff, fs)
<1>1. \A p \in DOMAIN diff : p \in Documents[e].paths
  BY DEF Inspected
<1>2. CASE path \notin DOMAIN diff
  <2>1. /\ path \in DOMAIN new <=> path \in DOMAIN fs
        /\ path \in DOMAIN fs => new[path] = fs[path]
    BY <1>2 DEF Patched
  <2>2. Seen(new, path) = Seen(fs, path)
    BY <2>1 DEF Seen
  <2>3. After(e, path, Seen(fs, path)) = Seen(fs, path)
    BY <1>2 DEF After
  <2> QED
    BY <2>2, <2>3
<1>3. CASE path \in DOMAIN diff /\ diff[path].how = "D"
  <2>1. path \notin DOMAIN new
    BY <1>3 DEF Patched
  <2>2. After(e, path, Seen(fs, path)) = <<>>
    BY <1>3 DEF After
  <2> QED
    BY <1>1, <1>3, <2>1, <2>2 DEF Seen
<1>4. CASE path \in DOMAIN diff /\ diff[path].how # "D"
  <2> DEFINE old == IF path \in DOMAIN fs THEN fs[path] ELSE {}
             left == (old \ diff[path].removes) \cup diff[path].adds
  <2>1. path \in DOMAIN new /\ new[path] = left
    BY <1>4 DEF Patched
  <2>2. After(e, path, Seen(fs, path)) = <<left>>
    <3>1. CASE path \in DOMAIN fs
      BY <1>4, <3>1 DEF After, Seen
    <3>2. CASE path \notin DOMAIN fs
      BY <1>4, <3>2 DEF After, Seen
    <3> QED
      BY <3>1, <3>2
  <2> HIDE DEF left, new
  <2>3. Seen(new, path) = <<left>>
    BY <2>1 DEF Seen
  <2> QED
    BY <1>1, <1>4, <2>2, <2>3 DEF new
<1> QED
  BY <1>2, <1>3, <1>4

\* What a memory or a skill leaves at a path.
LEMMA WrittenSeen ==
  ASSUME NEW e, NEW fs, NEW path, Documents[e].component # "system-prompt"
  PROVE  Seen(Written(e, fs), path)
           = IF path \in Documents[e].paths THEN After(e, path, Seen(fs, path)) ELSE Seen(fs, path)
BY DEF Seen, Written, After

\* One edit is applied to the scratch tree.
LEMMA BuildMakes ==
  ASSUME MInv, IInv', BuildEdit
  PROVE  MInv'
<1> DEFINE e == plan.edits[tree.done + 1]
           edits == Applied(plan.edits, tree.done)
           diff == Documents[e].diff
<1>1. /\ stage = "build" /\ tree.done + 1 \in DOMAIN plan.edits /\ UNCHANGED <<out, plan>>
      /\ Increasing(plan.edits) /\ tree.done \in Nat /\ 1..tree.done \subseteq DOMAIN plan.edits
      /\ \A path : Makes(edits, path, Seen(tree.files, path))
  BY DEF BuildEdit, MInv, InOrder, ScratchMade
<1>2. /\ edits \subseteq Nat /\ e \in Nat /\ Beyond(edits, e)
      /\ Applied(plan.edits, tree.done + 1) = edits \cup {e}
  <2>1. \A m \in 1..tree.done : plan.edits[m] \in Nat /\ plan.edits[m] < e
    BY <1>1 DEF Increasing
  <2>2. 1..(tree.done + 1) = 1..tree.done \cup {tree.done + 1}
    BY <1>1
  <2> QED
    BY <1>1, <2>1, <2>2 DEF Increasing, Applied, Beyond
<1>3. Documents[e].component = "system-prompt" => SidecarOf(e) = diff
  <2>1. e \in Range(plan.edits)
    BY <1>1 DEF Range
  <2> QED
    BY <1>1, <2>1 DEF MInv, InOrder, SidecarOf
<1>4. OutMade'
  BY <1>1, ManifestsKeep
<1>5. ASSUME NEW fs, tree' = [files |-> fs, done |-> tree.done + 1], UNCHANGED stage,
             \A path : Seen(fs, path) = IF path \in Documents[e].paths
                                           THEN After(e, path, Seen(tree.files, path))
                                           ELSE Seen(tree.files, path)
      PROVE  MInv'
  <2>1. \A path : Makes(edits \cup {e}, path, Seen(fs, path))
    BY <1>1, <1>2, <1>5, NextMade
  <2>2. tree'.done = tree.done + 1 /\ tree'.files = fs /\ plan' = plan /\ stage' = "build"
    BY <1>1, <1>5
  <2>3. \A path : Makes(Applied(plan'.edits, tree'.done), path, Seen(tree'.files, path))
    BY <1>2, <2>1, <2>2
  <2>4. tree'.done \in Nat /\ 1..tree'.done \subseteq DOMAIN plan'.edits
    BY <1>1, <2>2
  <2>5. ScratchMade'
    BY <2>2, <2>3, <2>4 DEF ScratchMade, Makes, Leads, Beyond, After, Seen, Applied
  <2>6. InOrder'
    BY <1>1, <2>2 DEF MInv, InOrder, Increasing
  <2> QED
    BY <1>4, <2>5, <2>6 DEF MInv
<1>6. ASSUME stage' = "idle" PROVE MInv'
  BY <1>4, <1>6 DEF MInv, InOrder, ScratchMade
<1>7. CASE \E word : End(word, e)
  BY <1>6, <1>7 DEF End
<1>8. CASE /\ Documents[e].component = "system-prompt" /\ Inspected(e, SidecarOf(e))
           /\ tree' = [files |-> Patched(SidecarOf(e), tree.files), done |-> tree.done + 1]
           /\ UNCHANGED stage
  <2> HIDE DEF e
  <2> QED
    BY <1>3, <1>5, <1>8, PatchedSeen
<1>9. CASE /\ Documents[e].component # "system-prompt"
           /\ tree' = [files |-> Written(e, tree.files), done |-> tree.done + 1]
           /\ UNCHANGED stage
  <2> HIDE DEF e
  <2> QED
    BY <1>5, <1>9, WrittenSeen
<1> QED
  BY <1>7, <1>8, <1>9 DEF BuildEdit, DoesNotApply

\* A step of the install or of people: the scratch tree is as it was, or the
\* render is over.
LEMMA AsideMakes ==
  ASSUME MInv, IInv', OutMade',
         \/ stage' \in {"idle", "check", "query"}
         \/ /\ plan' = plan /\ tree' = tree
            /\ stage' = stage \/ (stage \in {"remove", "copy"} /\ stage' \in {"remove", "copy"})
  PROVE  MInv'
<1>1. CASE stage' \in {"idle", "check", "query"}
  BY <1>1 DEF MInv, InOrder, ScratchMade
<1>2. CASE /\ plan' = plan /\ tree' = tree
           /\ stage' = stage \/ (stage \in {"remove", "copy"} /\ stage' \in {"remove", "copy"})
  <2>1. /\ stage' \in {"read", "build", "remove", "copy"} => Increasing(plan'.edits)
        /\ stage' \in {"build", "remove", "copy"} =>
             \A e \in Range(plan'.edits) : Documents[e].component = "system-prompt" => e \notin plan'.stale
    BY <1>2 DEF MInv, InOrder
  <2>2. stage' \in {"build", "remove", "copy"} =>
          /\ tree'.done \in Nat /\ 1..tree'.done \subseteq DOMAIN plan'.edits
          /\ stage' # "build" => tree'.done + 1 \notin DOMAIN plan'.edits
          /\ \A path : Makes(Applied(plan'.edits, tree'.done), path, Seen(tree'.files, path))
    BY <1>2 DEF MInv, ScratchMade
  <2>3. InOrder'
    BY <2>1 DEF InOrder, Increasing, Range
  <2>4. ScratchMade'
    BY <2>2 DEF ScratchMade, Makes, Leads, Beyond, After, Seen, Applied
  <2> QED
    BY <2>3, <2>4 DEF MInv
<1> QED
  BY <1>1, <1>2

\* The edits are asked for, put in order and read.
LEMMA PrepareMakes ==
  ASSUME MInv, IInv', binding \subseteq Edits, CheckOut \/ Query \/ ReadEdits \/ Built
  PROVE  MInv'
<1>1. OutMade'
  BY ManifestsKeep DEF CheckOut, Query, ReadEdits, Built
<1>2. CASE stage' \in {"idle", "query"}
  BY <1>1, <1>2, AsideMakes
<1>3. CASE Query /\ stage' = "read"
  <2>1. PICK order \in Ascending(Ids) : plan'.edits = order
    BY <1>3 DEF Query, End
  <2>2. Ids \subseteq Edits
    <3>1. Current.with \subseteq Edits
      <4>1. job.left \in Seq(Request) /\ job.left # <<>>
        BY <1>3 DEF Query, MInv, IInv, JobTyped
      <4>2. Head(job.left) \in Request
        BY <4>1, HeadTailProperties
      <4> QED
        BY <4>2 DEF Current, Request
    <3> QED
      BY <3>1 DEF Ids
  <2>3. Increasing(order)
    <3>1. Ids \subseteq Nat /\ Cardinality(Ids) \in Nat
      BY <2>2, HarnessAssumption, FS_Subset, FS_CardinalityType DEF Edits
    <3> QED
      BY <3>1 DEF Ascending, Increasing
  <2> QED
    BY <1>1, <1>3, <2>1, <2>3 DEF MInv, InOrder, ScratchMade
<1>4. CASE ReadEdits /\ stage' = "build"
  <2>1. /\ stage = "read" /\ Readable(Range(plan.edits)) /\ tree' = tree
        /\ plan'.edits = plan.edits /\ plan'.stale = rewritten
    BY <1>4 DEF ReadEdits, End
  <2>2. /\ Increasing(plan.edits) /\ tree = Scratch
    BY <2>1 DEF MInv, IInv, InOrder, ScratchOwned
  <2>3. \A e \in Range(plan.edits) : Documents[e].component = "system-prompt" => e \notin rewritten
    BY <2>1 DEF Readable, Renderable, Digested
  <2>4. tree.done = 0 /\ DOMAIN tree.files = {}
    BY <2>2 DEF Scratch, EmptyTree
  <2>5. /\ tree.done \in Nat /\ 1..tree.done = {} /\ Applied(plan.edits, tree.done) = {}
        /\ \A path : Seen(tree.files, path) = <<>>
    BY <2>4 DEF Applied, Seen
  <2>6. \A path : Makes(Applied(plan'.edits, tree'.done), path, Seen(tree'.files, path))
    BY <2>1, <2>5, NothingMade
  <2>7. ScratchMade'
    BY <1>4, <2>1, <2>5, <2>6 DEF ScratchMade
  <2>8. InOrder'
    BY <2>1, <2>2, <2>3 DEF InOrder, Increasing, Range
  <2> QED
    BY <1>1, <2>7, <2>8 DEF MInv
<1>5. CASE Built
  <2>1. /\ stage = "build" /\ stage' = "remove" /\ UNCHANGED <<plan, tree>>
        /\ tree.done + 1 \notin DOMAIN plan.edits
    BY <1>5 DEF Built
  <2>2. ScratchMade'
    BY <2>1 DEF MInv, ScratchMade
  <2>3. InOrder'
    BY <2>1 DEF MInv, InOrder, Increasing, Range
  <2> QED
    BY <1>1, <2>2, <2>3 DEF MInv
<1> QED
  BY <1>2, <1>3, <1>4, <1>5 DEF CheckOut, Query, ReadEdits, End

\* A directory's manifest is removed with it, or is that of the tree put there.
LEMMA InstallMakes ==
  ASSUME MInv, IInv', RemoveFile \/ Rename \/ CopyInstead \/ CreateFile \/ FillFile \/ Copied
  PROVE  MInv'
<1> DEFINE dir == out[Directory]
<1>1. stage \in {"remove", "copy"} /\ Directory \in Directories /\ DOMAIN out = Directories
  BY WorkingDirectory DEF MInv, RemoveFile, Rename, CopyInstead, CreateFile, FillFile, Copied
<1>2. ASSUME NEW new, out' = [out EXCEPT ![Directory] = new],
             new # None /\ new.manifest # None =>
               (dir # None /\ new.manifest = dir.manifest) \/ new.manifest = Whole.manifest
      PROVE  OutMade'
  <2>1. out'[Directory] = new /\ \A o \in Directories : o # Directory => out'[o] = out[o]
    BY <1>1, <1>2
  <2> HIDE DEF dir
  <2> QED
    BY <1>1, <1>2, <2>1, ManifestsKeep DEF dir
<1>3. CASE RemoveFile
  <2>1. dir # None /\ Shaped(dir)
    BY <1>1, <1>3 DEF RemoveFile, MInv, IInv, OutShaped
  <2>2. PICK new : /\ out' = [out EXCEPT ![Directory] = new]
                   /\ new = None \/ \E path : new = Forget(dir, path)
    BY <1>3 DEF RemoveFile
  <2> HIDE DEF dir
  <2>3. \A path : Forget(dir, path).manifest \in {None, dir.manifest}
    BY DEF Forget
  <2>4. new # None /\ new.manifest # None => new.manifest = dir.manifest
    BY <2>2, <2>3
  <2>5. OutMade'
    BY <1>2, <2>1, <2>2, <2>4
  <2> QED
    BY <1>3, <2>5, AsideMakes DEF RemoveFile
<1>4. CASE Rename
  <2>1. OutMade'
    BY <1>2, <1>4 DEF Rename
  <2>2. stage' \in {"idle", "check"}
    BY <1>4 DEF Rename, Installed, End
  <2> QED
    BY <2>1, <2>2, AsideMakes
<1>5. CASE CopyInstead
  <2> DEFINE new == [files |-> EmptyTree, manifest |-> None, torn |-> None]
  <2>1. out' = [out EXCEPT ![Directory] = new] /\ new.manifest = None
    BY <1>5 DEF CopyInstead
  <2> HIDE DEF new
  <2>2. OutMade'
    BY <1>2, <2>1
  <2> QED
    BY <1>1, <1>5, <2>2, AsideMakes DEF CopyInstead
<1>6. CASE CreateFile \/ FillFile
  <2>1. PICK new : /\ out' = [out EXCEPT ![Directory] = new]
                   /\ new = Filled(dir) \/ \E path, part : new = Begun(dir, path, part)
    BY <1>6 DEF CreateFile, FillFile
  <2>2. Shaped(dir) /\ dir.manifest \in {None, Whole.manifest}
    BY <1>6 DEF CreateFile, FillFile, MInv, IInv, PartCopied
  <2> HIDE DEF dir
  <2>3. new.manifest \in {None, Whole.manifest}
    BY <2>1, <2>2 DEF Filled, Begun, Shaped
  <2>4. OutMade'
    BY <1>2, <2>1, <2>3
  <2> QED
    BY <1>1, <1>6, <2>4, AsideMakes DEF CreateFile, FillFile
<1>7. CASE Copied
  <2>1. OutMade'
    BY <1>7, ManifestsKeep DEF Copied
  <2>2. stage' \in {"idle", "check"}
    BY <1>7 DEF Copied, Installed, End
  <2> QED
    BY <2>1, <2>2, AsideMakes
<1> QED
  BY <1>3, <1>4, <1>5, <1>6, <1>7

\* Every step keeps what the manifests say.
LEMMA NextMakes == MInv /\ binding \subseteq Edits /\ [Next]_vars => MInv' /\ binding' \subseteq Edits
<1> SUFFICES ASSUME MInv, binding \subseteq Edits, [Next]_vars PROVE MInv' /\ binding' \subseteq Edits
  OBVIOUS
<1>1. IInv' /\ binding' \subseteq Edits
  <2>1. binding' \subseteq Edits
    BY DEF Next, vars, Start, CheckOut, Query, ReadEdits, BuildEdit, Built, RemoveFile, Rename,
           CopyInstead, CreateFile, FillFile, Copied, InstallFails, Die, Decide, Rewrite
  <2> QED
    BY <2>1, NextKeeps DEF MInv
<1>2. CASE BuildEdit
  BY <1>1, <1>2, BuildMakes
<1>3. CASE CheckOut \/ Query \/ ReadEdits \/ Built
  BY <1>1, <1>3, PrepareMakes
<1>4. CASE RemoveFile \/ Rename \/ CopyInstead \/ CreateFile \/ FillFile \/ Copied
  BY <1>1, <1>4, InstallMakes
<1>5. CASE (\E asked \in Jobs : Start(asked)) \/ InstallFails \/ Die
  <2>1. UNCHANGED out /\ stage' \in {"check", "idle"}
    BY <1>5 DEF Start, InstallFails, Die, End
  <2>2. OutMade'
    BY <2>1, ManifestsKeep
  <2> QED
    BY <1>1, <2>1, <2>2, AsideMakes
<1>6. CASE UNCHANGED vars \/ \E e \in Edits : Decide(e) \/ Rewrite(e)
  <2>1. out' = out /\ stage' = stage /\ plan' = plan /\ tree' = tree
    BY <1>6 DEF vars, Decide, Rewrite
  <2>2. OutMade'
    BY <2>1, ManifestsKeep
  <2>3. MInv'
    BY <1>1, <2>1, <2>2, AsideMakes
  <2> QED
    BY <1>1, <2>3
<1> QED
  BY <1>2, <1>3, <1>4, <1>5, <1>6 DEF Next

\* Two manifests differ in a file only where they differ in an edit that owns
\* it, for any vault, and however people decide, rewrite and render meanwhile
\* (loop.go: renders; render.go: readDiff).
THEOREM DifferencesOwned == Spec => []DifferenceIsOwned
<1> DEFINE Inv == MInv /\ binding \subseteq Edits
<1>1. Init => Inv
  <2> SUFFICES ASSUME Init PROVE MInv /\ binding \subseteq Edits
    OBVIOUS
  <2>1. stage = "idle" /\ \A o \in Directories : out[o] = None
    BY DEF Init, Directories
  <2> QED
    BY <2>1, InitIInv, HarnessAssumption DEF Init, Edits, MInv, InOrder, ScratchMade, OutMade
<1>2. MInv => DifferenceIsOwned
  <2> SUFFICES ASSUME MInv, NEW a \in Described, NEW b \in Described,
                      NEW path \in DOMAIN out[a].manifest.files \cup DOMAIN out[b].manifest.files,
                      \A e \in (out[a].manifest.edits \ out[b].manifest.edits)
                                 \cup (out[b].manifest.edits \ out[a].manifest.edits) :
                        path \notin Documents[e].paths
               PROVE  /\ path \in DOMAIN out[a].manifest.files \cap DOMAIN out[b].manifest.files
                      /\ out[a].manifest.files[path] = out[b].manifest.files[path]
    BY DEF DifferenceIsOwned
  <2> DEFINE left == out[a].manifest
             right == out[b].manifest
  <2>1. MadeBy(left) /\ MadeBy(right)
    BY DEF MInv, IInv, JobTyped, OutMade, Described
  <2> HIDE DEF left, right
  <2>2. PICK one \in Nat, other \in Nat : Beyond(left.edits, one) /\ Beyond(right.edits, other)
    BY <2>1 DEF MadeBy
  <2>3. \E high \in Nat : one <= high /\ other <= high
    BY <2>2
  <2>4. PICK high \in Nat : one <= high /\ other <= high
    BY <2>3
  <2>5. \A e \in (left.edits \ right.edits) \cup (right.edits \ left.edits) : path \notin Documents[e].paths
    BY DEF left, right
  <2>6. Seen(left.files, path) = Seen(right.files, path)
    <3>1. Beyond(left.edits, high) /\ Beyond(right.edits, high)
      BY <2>1, <2>2, <2>4 DEF MadeBy, Beyond
    <3>2. /\ Makes(left.edits, path, Seen(left.files, path))
          /\ Makes(right.edits, path, Seen(right.files, path))
      BY <2>1 DEF MadeBy
    <3> QED
      BY <2>5, <3>1, <3>2, SameOwnersSameText
  <2>7. path \in DOMAIN left.files \cup DOMAIN right.files
    BY DEF left, right
  <2>8. path \in DOMAIN left.files \cap DOMAIN right.files /\ left.files[path] = right.files[path]
    BY <2>6, <2>7 DEF Seen
  <2> QED
    BY <2>8 DEF left, right
<1>3. Inv /\ [Next]_vars => Inv'
  BY NextMakes
<1>4. Inv => DifferenceIsOwned
  BY <1>2
<1> HIDE DEF Inv
<1> QED
  BY <1>1, <1>3, <1>4, PTL DEF Spec

-----------------------------------------------------------------------------
(***************************************************************************)
(* A render that is done is whole                                          *)
(***************************************************************************)
\* None is neither a directory nor a manifest.
NoneIsNoTree == DOMAIN None \notin {{"files", "manifest", "torn"}, {"edits", "binding", "files"}}

\* The edits of a render are in the vault, for they bind or the caller named them.
PlanKnown == stage \in {"read", "build", "remove", "copy"} => Range(plan.edits) \subseteq Edits

\* A run renders its baseline, then its candidate.
JobOrder ==
  /\ job.kind = "run" =>
       \/ Len(job.left) = 2 /\ job.left[1].out = "base" /\ job.left[2].out = "edit"
       \/ Len(job.left) = 1 /\ job.left[1].out = "edit"
  /\ stage # "idle" /\ job.kind # "run" => Len(job.left) = 1 /\ job.left[1].out = "out"

RInv == MInv /\ binding \subseteq Edits /\ PlanKnown /\ JobOrder /\ RenderedIsWhole

Complete(dir) ==
  /\ dir # None /\ dir.manifest # None /\ dir.torn = None
  /\ DOMAIN dir.files = DOMAIN dir.manifest.files

\* The working directory is that of the first render left.
LEMMA WorkingFirst == IInv /\ stage # "idle" => Directory = job.left[1].out /\ Len(job.left) \in Nat \ {0}
<1> SUFFICES ASSUME IInv, stage # "idle"
             PROVE  Directory = job.left[1].out /\ Len(job.left) \in Nat \ {0}
  OBVIOUS
<1>1. job.left \in Seq(Request) /\ job.left # <<>>
  BY DEF IInv, JobTyped
<1>2. Head(job.left) = job.left[1] /\ Len(job.left) \in Nat \ {0}
  BY <1>1
<1> QED
  BY <1>2 DEF Directory, Current

\* The tree that is renamed into its place is whole.
LEMMA WholeStands == NoneIsNoTree => Complete(Whole)
<1>1. /\ DOMAIN Whole = {"files", "manifest", "torn"}
      /\ DOMAIN Whole.manifest = {"edits", "binding", "files"}
      /\ Whole.torn = None /\ Whole.manifest.files = Whole.files
  BY DEF Whole
<1> QED
  BY <1>1 DEF NoneIsNoTree, Complete

\* A copy that has nothing left to copy has made every file.
LEMMA CopiedStands ==
  ASSUME RInv, NoneIsNoTree, Copied
  PROVE  Complete(out[Directory])
<1> DEFINE dir == out[Directory]
<1>1. stage = "copy" /\ dir.torn = None /\ Uncopied = {}
  BY DEF Copied
<1>2. Shaped(dir) /\ dir.manifest \in {None, Whole.manifest} /\ PartOf(dir, tree.files)
  BY <1>1 DEF RInv, MInv, IInv, PartCopied
<1>3. Whole.manifest # None /\ Whole.manifest.files = tree.files /\ Whole.files = tree.files
  BY WholeStands DEF Complete, Whole
<1>4. "render.json" \notin DOMAIN tree.files
  BY <1>1, ManifestIsNoFile DEF RInv, MInv
<1>5. \A path \in Held(Whole) : path \in Range(Walk) => path \in Held(dir)
  BY <1>1 DEF Uncopied, Range
<1>6. DOMAIN tree.files \subseteq Range(Walk)
  <2>1. Owned(tree.files, Range(plan.edits)) /\ Range(plan.edits) \subseteq Edits
    BY <1>1 DEF RInv, MInv, IInv, ScratchOwned, PlanKnown
  <2> QED
    BY <2>1, HarnessAssumption DEF Owned, Edits
<1>7. /\ DOMAIN tree.files \subseteq Held(Whole) /\ "render.json" \in Held(Whole)
      /\ "render.json" \in Range(Walk)
  BY <1>3, HarnessAssumption DEF Held
<1> HIDE DEF dir
<1>8. DOMAIN dir.files = DOMAIN tree.files
  BY <1>1, <1>2, <1>4, <1>5, <1>6, <1>7 DEF Held, PartOf
<1>9. dir.manifest = Whole.manifest
  BY <1>1, <1>2, <1>4, <1>5, <1>7, <1>8 DEF Held
<1>10. dir # None
  BY <1>2 DEF Shaped, NoneIsNoTree
<1> QED
  BY <1>1, <1>3, <1>8, <1>9, <1>10 DEF Complete, dir

\* A tree is in its place: the candidate's render is next, or the job is done.
LEMMA InstalledWhole ==
  ASSUME RInv, MInv', stage # "idle", Installed(out'), Complete(out'[Directory]),
         \A o \in Directories : o # Directory => out'[o] = out[o]
  PROVE  JobOrder' /\ RenderedIsWhole'
<1>1. /\ Directory = job.left[1].out /\ Len(job.left) \in Nat \ {0}
      /\ job.left \in Seq(Request) /\ answer = Unanswered
      /\ DOMAIN out' = Directories /\ DOMAIN job = {"kind", "left", "found", "base"}
  BY WorkingFirst DEF RInv, MInv, IInv, JobTyped, Untouched
<1>2. \A o \in Directories : Complete(out'[o]) => Stands(o)'
  BY <1>1 DEF Complete, Stands, Described
<1>3. CASE Len(job.left) > 1
  <2>1. /\ job.kind = "run" /\ Len(job.left) = 2
        /\ job.left[1].out = "base" /\ job.left[2].out = "edit"
    BY <1>1, <1>3 DEF RInv, JobOrder
  <2>2. /\ job' = [job EXCEPT !.left = Tail(@), !.found = out'[job.left[2].out]]
        /\ stage' = "check" /\ answer' = answer
    BY <1>3 DEF Installed
  <2>3. job'.left = Tail(job.left) /\ job'.kind = "run"
    BY <1>1, <2>1, <2>2
  <2>4. Len(job'.left) = 1 /\ job'.left[1] = job.left[2]
    BY <1>1, <2>1, <2>3
  <2>5. JobOrder'
    BY <2>1, <2>3, <2>4 DEF JobOrder
  <2>6. Stands("base")'
    BY <1>1, <1>2, <2>1 DEF Directories
  <2> QED
    BY <1>1, <2>2, <2>5, <2>6 DEF RenderedIsWhole, Unanswered
<1>4. CASE ~(Len(job.left) > 1)
  <2>1. stage' = "idle" /\ job' = job
    BY <1>4 DEF Installed, End
  <2>2. JobOrder'
    BY <2>1 DEF RInv, JobOrder
  <2>3. CASE job.kind = "run"
    <3>1. Directory = "edit"
      BY <1>1, <1>4, <2>3 DEF RInv, JobOrder
    <3>2. Stands("base")
      BY <2>3, <3>1 DEF RInv, RenderedIsWhole
    <3>3. Stands("base")'
      BY <1>1, <3>1, <3>2 DEF Stands, Described, Directories
    <3>4. Stands("edit")'
      BY <1>1, <1>2, <3>1 DEF Directories
    <3> QED
      BY <2>1, <2>2, <2>3, <3>3, <3>4 DEF RenderedIsWhole
  <2>4. CASE job.kind # "run"
    <3>1. Directory = "out"
      BY <1>1, <2>4 DEF RInv, JobOrder
    <3>2. Stands("out")'
      BY <1>1, <1>2, <3>1 DEF Directories
    <3> QED
      BY <2>1, <2>2, <2>4, <3>2 DEF RenderedIsWhole
  <2> QED
    BY <2>3, <2>4
<1> QED
  BY <1>3, <1>4

\* A step that goes on with the job and puts nothing in another directory.
LEMMA OngoingWhole ==
  ASSUME RInv, MInv', stage # "idle", job' = job, answer' = answer,
         \A o \in Directories : o # Directory => out'[o] = out[o]
  PROVE  JobOrder' /\ RenderedIsWhole'
<1>1. JobOrder' /\ Directory' = Directory /\ answer = Unanswered
  BY DEF RInv, MInv, IInv, Untouched, JobOrder, Directory, Current
<1>2. Directory = "edit" /\ job.kind = "run" => Stands("base")'
  <2> SUFFICES ASSUME Directory = "edit", job.kind = "run" PROVE Stands("base")'
    OBVIOUS
  <2>1. Stands("base") /\ out'["base"] = out["base"] /\ DOMAIN out' = Directories
    BY DEF RInv, MInv, IInv, JobTyped, RenderedIsWhole, Directories
  <2> QED
    BY <2>1 DEF Stands, Described, Directories
<1> QED
  BY <1>1, <1>2 DEF RenderedIsWhole, Unanswered

\* A job that ends without its tree says so.
LEMMA EndedWhole ==
  ASSUME RInv, NEW word, NEW edit, End(word, edit), word \notin {"rendered", "unchanged"}, job' = job
  PROVE  JobOrder' /\ RenderedIsWhole'
<1>1. stage' = "idle" /\ answer'.word = word
  BY DEF End
<1> QED
  BY <1>1 DEF RInv, JobOrder, RenderedIsWhole

\* A render asks for the edits that bind, and for those its caller names.
LEMMA PlanStaysKnown == RInv /\ MInv' /\ [Next]_vars => PlanKnown'
<1> SUFFICES ASSUME RInv, MInv', [Next]_vars PROVE PlanKnown'
  OBVIOUS
<1>1. CASE Query /\ stage' = "read"
  <2>1. PICK order \in Ascending(Ids) : plan'.edits = order
    BY <1>1 DEF Query, End
  <2>2. Range(order) \subseteq Ids
    BY DEF Ascending, Range
  <2>3. Head(job.left) \in Request
    <3>1. job.left \in Seq(Request) /\ job.left # <<>>
      BY <1>1 DEF Query, RInv, MInv, IInv, JobTyped
    <3> QED
      BY <3>1, HeadTailProperties
  <2>4. Ids \subseteq Edits
    BY <2>3 DEF Ids, Current, Request, RInv
  <2> QED
    BY <2>1, <2>2, <2>4 DEF PlanKnown
<1>2. CASE ReadEdits
  <2>1. stage = "read" /\ plan'.edits = plan.edits
    BY <1>2 DEF ReadEdits
  <2> QED
    BY <2>1 DEF RInv, PlanKnown
<1>3. ASSUME stage' \in {"idle", "check", "query"} PROVE PlanKnown'
  BY <1>3 DEF PlanKnown
<1>4. CASE plan' = plan /\ (stage' = stage \/ stage \in {"build", "remove", "copy"})
  BY <1>4 DEF RInv, PlanKnown
<1> QED
  BY <1>1, <1>2, <1>3, <1>4
     DEF Next, vars, Start, CheckOut, Query, BuildEdit, Built, RemoveFile, Rename, CopyInstead,
         CreateFile, FillFile, Copied, InstallFails, Installed, Die, Decide, Rewrite, End, DoesNotApply

\* Every step keeps what a finished render has left.
LEMMA NextWhole ==
  ASSUME NoneIsNoTree, RInv, [Next]_vars
  PROVE  RInv'
<1>1. MInv' /\ binding' \subseteq Edits
  BY NextMakes DEF RInv
<1>2. PlanKnown'
  BY <1>1, PlanStaysKnown
<1> SUFFICES JobOrder' /\ RenderedIsWhole'
  BY <1>1, <1>2 DEF RInv
<1>3. stage # "idle" => Directory \in Directories /\ DOMAIN out = Directories
  BY WorkingDirectory DEF RInv, MInv
<1>4. ASSUME NEW asked \in Jobs, Start(asked) PROVE JobOrder' /\ RenderedIsWhole'
  <2>1. /\ job'.kind = asked.kind /\ job'.left = Requests(asked)
        /\ stage' = "check" /\ answer' = Unanswered
    BY <1>4 DEF Start
  <2>2. JobOrder'
    BY <2>1 DEF JobOrder, Requests
  <2>3. asked.kind = "run" => Directory' = "base"
    BY <2>1 DEF Directory, Current, Requests
  <2> QED
    BY <2>1, <2>2, <2>3 DEF RenderedIsWhole, Unanswered
<1>5. CASE CheckOut \/ Query \/ ReadEdits \/ BuildEdit \/ Built
  <2>1. stage # "idle" /\ out' = out /\ job' = job
    BY <1>5 DEF CheckOut, Query, ReadEdits, BuildEdit, Built
  <2>2. CASE answer' = answer
    BY <1>1, <2>1, <2>2, OngoingWhole
  <2>3. CASE \E word, edit : End(word, edit) /\ word \notin {"rendered", "unchanged"}
    BY <2>1, <2>3, EndedWhole
  <2> QED
    BY <1>5, <2>2, <2>3 DEF CheckOut, Query, ReadEdits, BuildEdit, Built, DoesNotApply
<1>6. CASE RemoveFile \/ CopyInstead \/ CreateFile \/ FillFile
  <2>1. /\ stage # "idle" /\ job' = job /\ answer' = answer
        /\ \E new : out' = [out EXCEPT ![Directory] = new]
    BY <1>6 DEF RemoveFile, CopyInstead, CreateFile, FillFile
  <2> QED
    BY <1>1, <1>3, <2>1, OngoingWhole
<1>7. CASE Rename
  <2>1. /\ stage # "idle" /\ Installed(out') /\ out'[Directory] = Whole
        /\ \A o \in Directories : o # Directory => out'[o] = out[o]
    BY <1>3, <1>7 DEF Rename
  <2> QED
    BY <1>1, <2>1, WholeStands, InstalledWhole
<1>8. CASE Copied
  <2>1. stage # "idle" /\ out' = out /\ Installed(out')
    BY <1>8 DEF Copied
  <2> QED
    BY <1>1, <1>8, <2>1, CopiedStands, InstalledWhole
<1>9. CASE InstallFails \/ Die
  BY <1>9, EndedWhole DEF InstallFails, Die
<1>10. CASE UNCHANGED vars \/ \E e \in Edits : Decide(e) \/ Rewrite(e)
  <2>1. UNCHANGED <<out, job, stage, answer>>
    BY <1>10 DEF vars, Decide, Rewrite
  <2> QED
    BY <2>1 DEF RInv, JobOrder, RenderedIsWhole, Stands, Described, Directory, Current
<1> QED
  BY <1>4, <1>5, <1>6, <1>7, <1>8, <1>9, <1>10 DEF Next

\* Whatever diffs the vault holds, wherever a render dies and whichever of its
\* writes fails half-way: a directory with a manifest holds nothing but what
\* the manifest's edits made, each on the surface it was reviewed for, with one
\* file perhaps in part; and a render that says it is done has left all of it
\* (render.go: plan, inspect, install, copyTree).
THEOREM TreeCorrect ==
  ASSUME NoneIsNoTree
  PROVE  Spec => []TreeIsTheEdits
<1>1. Init => RInv
  <2> SUFFICES ASSUME Init PROVE RInv
    OBVIOUS
  <2>1. stage = "idle" /\ answer.word = "none" /\ job.kind = "none" /\ \A o \in Directories : out[o] = None
    BY DEF Init, Directories, Idle, Unanswered
  <2>2. MInv /\ binding \subseteq Edits
    BY <2>1, InitIInv, HarnessAssumption DEF Init, Edits, MInv, InOrder, ScratchMade, OutMade
  <2> QED
    BY <2>1, <2>2 DEF RInv, PlanKnown, JobOrder, RenderedIsWhole
<1>2. RInv /\ [Next]_vars => RInv'
  BY NextWhole
<1>3. RInv => TreeIsTheEdits
  BY FilesOwned DEF RInv, MInv, TreeIsTheEdits
<1> QED
  BY <1>1, <1>2, <1>3, PTL DEF Spec

-----------------------------------------------------------------------------
(***************************************************************************)
(* Theorems about Improve, for every set of passes, recorded runs and      *)
(* answers, and any number of changes by people.                           *)
(***************************************************************************)
\* What a pass may plan, and the files an edit may be written to.
Change == [id : PatternIDs, doc : PatternDocs]
Alone(n, d) == <<<<Doc(n), d>>>>
WithDiff(n, d) == <<<<Doc(n), d>>, <<Diff(n), d.digest>>>>
DiffOf(n, c) == <<<<Diff(n), c>>>>
TopicFile == <<<<Topic, "subject">>>>
Numbers == 1..EditNumberMax
Writes ==
  {Alone(n, d) : n \in Numbers, d \in EditDocs} \cup {WithDiff(n, d) : n \in Numbers, d \in EditDocs}
  \cup {DiffOf(n, c) : n \in Numbers, c \in (Contents \cup {<<>>})} \cup {TopicFile}

Stages == {"apply", "topic", "number", "fill topic", "round", "fill"} \cup Over
PassState ==
  [at : Stages, dry : BOOLEAN, ask : Asks \cup {Nothing}, plan : Seq(Change), mined : Seq(PatternIDs),
   wanted : Seq(PatternIDs), next : Nat, queue : Seq(Writes), alone : BOOLEAN]

VaultTyped ==
  /\ recorded \in 0..Len(Recorded)
  /\ patterns \in [PatternIDs -> PatternDocs \cup {ABSENT}]
  /\ DOMAIN files = FileNames /\ \A n \in Numbers : files[Doc(n)] \in EditDocs \cup {ABSENT, Torn}
  /\ pass \in [Passes -> PassState]

\* What a pass that writes has mined is among the patterns or in its plan, and
\* what it will propose against is there.
MinedIsPlanned(s, pats) ==
  s.at = "apply" /\ ~ s.dry =>
    \A i \in DOMAIN s.mined :
      pats[s.mined[i]] # ABSENT \/ \E j \in DOMAIN s.plan : s.plan[j].id = s.mined[i]
WantedIsThere(s, pats) == ~ s.dry => \A i \in DOMAIN s.wanted : pats[s.wanted[i]] # ABSENT

\* A document that is still to be written, with its diff or without; and a
\* diff whose document has been written.
WholeEdit(w, pats) ==
  \E n \in Numbers, d \in EditDocs : w \in {Alone(n, d), WithDiff(n, d)} /\ pats[d.predicts] # ABSENT
ItsDiff(w, fs) ==
  \E n \in Numbers : fs[Doc(n)] \notin {ABSENT, Torn} /\ w = DiffOf(n, fs[Doc(n)].digest)

\* The topic is written alone and before any edit; an edit's diff is written
\* after it, before the next one.
EditsInOrder(queue, pats, fs) ==
  \A i \in DOMAIN queue : WholeEdit(queue[i], pats) \/ (i = 1 /\ ItsDiff(queue[i], fs))
QueueInOrder(s, pats, fs) ==
  /\ s.at \in {"number", "fill topic"} => s.queue \in {<<>>, <<TopicFile>>}
  /\ s.at \in {"round", "fill"} => EditsInOrder(s.queue, pats, fs) /\ s.next >= 1
  /\ s.at \in {"apply", "topic"} \cup Over \/ s.dry => s.queue = <<>>
  /\ s.at \in {"fill topic", "fill"} => s.queue # <<>>

\* The topic is there before an edit is.
TopicFirst(s, fs) ==
  ~ s.dry /\ (s.at \in {"round", "fill"} \/ (s.at = "number" /\ s.queue = <<>>)) => fs[Topic] # ABSENT

PassInOrder(s, pats, fs) ==
  MinedIsPlanned(s, pats) /\ WantedIsThere(s, pats) /\ QueueInOrder(s, pats, fs) /\ TopicFirst(s, fs)

\* What a pass fills it has created, and nobody else fills it.
Filling(p) == pass[p].at \in {"fill topic", "fill"}
FillsItsOwn ==
  /\ \A p \in Passes : Filling(p) => files[File(p)[1]] = Torn
  /\ \A p, q \in Passes : Filling(p) /\ Filling(q) /\ File(p)[1] = File(q)[1] => p = q

VaultInv ==
  /\ VaultTyped /\ \A p \in Passes : PassInOrder(pass[p], patterns, files)
  /\ FillsItsOwn /\ SidecarIsItsOwn /\ EditsReferToWhatIsThere

\* A document cites nothing yet, or what it cites is earned.
EmptyOrEarned(id, doc) == doc.evidence = {} \/ Earned(id, doc.evidence)
EarnedPlan(planned) == \A i \in DOMAIN planned : EmptyOrEarned(planned[i].id, planned[i].doc)
EarnedInv ==
  /\ \A id \in PatternIDs : patterns[id] # ABSENT => EmptyOrEarned(id, patterns[id])
  /\ \A p \in Passes : EarnedPlan(pass[p].plan)

-----------------------------------------------------------------------------
\* Counting the places up to each tells the places apart, and so counts to
\* the last.
LEMMA RankIs ==
  ASSUME NEW I, IsFiniteSet(I), I \subseteq Int
  PROVE  /\ \A i \in I : Rank(I, i) \in 1..Cardinality(I)
         /\ \A i, j \in I : Rank(I, i) = Rank(I, j) => i = j
         /\ \A k \in 1..Cardinality(I) : \E i \in I : Rank(I, i) = k
<1> DEFINE upTo(i) == {j \in I : j <= i}
<1>1. \A i \in I : IsFiniteSet(upTo(i)) /\ Cardinality(upTo(i)) <= Cardinality(I)
  BY FS_Subset
<1>2. \A i \in I : Cardinality(upTo(i)) \in Nat /\ Cardinality(upTo(i)) # 0
  <2> TAKE i \in I
  <2>1. i \in upTo(i)
    OBVIOUS
  <2> QED
    BY <1>1, <2>1, FS_CardinalityType, FS_EmptySet
<1>3. Cardinality(I) \in Nat
  BY FS_CardinalityType
<1>4. \A i \in I : Rank(I, i) \in 1..Cardinality(I)
  <2> HIDE DEF upTo
  <2>1. \A i \in I : Rank(I, i) = Cardinality(upTo(i))
    BY DEF Rank, upTo
  <2> QED
    BY <1>1, <1>2, <1>3, <2>1
<1>5. \A i, j \in I : i < j => Rank(I, i) # Rank(I, j)
  <2> TAKE i, j \in I
  <2> HAVE i < j
  <2>1. upTo(i) \in SUBSET upTo(j) /\ j \in upTo(j) /\ j \notin upTo(i)
    <3>1. \A x \in I : x \in Int
      OBVIOUS
    <3>2. \A x \in I : x <= i => x <= j
      BY <3>1
    <3>3. j <= j /\ ~ j <= i
      BY <3>1
    <3> QED
      BY <3>2, <3>3
  <2>2. Cardinality(upTo(i)) # Cardinality(upTo(j))
    BY <1>1, <2>1, FS_Subset
  <2> QED
    BY <2>2 DEF Rank
<1>6. \A i, j \in I : Rank(I, i) = Rank(I, j) => i = j
  BY <1>5
<1>7. ASSUME NEW k \in 1..Cardinality(I) PROVE \E i \in I : Rank(I, i) = k
  <2> DEFINE f == [i \in I |-> Rank(I, i)]
  <2>1. f \in Injection(I, 1..Cardinality(I))
    <3>1. f \in [I -> 1..Cardinality(I)]
      BY <1>4
    <3>2. IsInjective(f)
      BY <1>6 DEF IsInjective
    <3> QED
      BY <3>1, <3>2 DEF Injection
  <2>2. IsFiniteSet(1..Cardinality(I)) /\ Cardinality(1..Cardinality(I)) = Cardinality(I)
    BY <1>3, FS_Interval
  <2>3. f \in Surjection(I, 1..Cardinality(I))
    <3> HIDE DEF f
    <3> QED
      BY <2>1, <2>2, FS_Injection
  <2> QED
    BY <2>3 DEF Surjection
<1> QED
  BY <1>4, <1>6, <1>7

\* What is picked from a list are its entries at the places, all of them.
LEMMA PickedIs ==
  ASSUME NEW T, NEW s \in Seq(T), NEW I \in SUBSET DOMAIN s
  PROVE  /\ Picked(s, I) \in Seq(T)
         /\ \A k \in DOMAIN Picked(s, I) : \E i \in I : Picked(s, I)[k] = s[i]
         /\ \A i \in I : \E k \in DOMAIN Picked(s, I) : Picked(s, I)[k] = s[i]
<1>1. DOMAIN s = 1..Len(s) /\ Len(s) \in Nat /\ \A i \in 1..Len(s) : s[i] \in T
  OBVIOUS
<1>2. I \subseteq Int /\ IsFiniteSet(I)
  <2>1. IsFiniteSet(1..Len(s))
    BY <1>1, FS_Interval
  <2> QED
    BY <1>1, <2>1, FS_Subset
<1>3. Cardinality(I) \in Nat
  BY <1>2, FS_CardinalityType
<1> DEFINE n == Cardinality(I)
           at(k) == CHOOSE i \in I : Rank(I, i) = k
<1>4. \A k \in 1..n : at(k) \in I /\ Rank(I, at(k)) = k
  BY <1>2, RankIs
<1>5. \A i \in I : Rank(I, i) \in 1..n /\ at(Rank(I, i)) = i
  BY <1>2, <1>4, RankIs
<1>6. Picked(s, I) = [k \in 1..n |-> s[at(k)]]
  BY DEF Picked
<1>7. \A k \in 1..n : s[at(k)] \in T
  BY <1>1, <1>4
<1> HIDE DEF n, at
<1>8. Picked(s, I) \in Seq(T) /\ DOMAIN Picked(s, I) = 1..n
  BY <1>3, <1>6, <1>7 DEF n
<1> QED
  BY <1>4, <1>5, <1>6, <1>8

\* What a function makes of a finite set is finite.
LEMMA ImageFinite ==
  ASSUME NEW S, IsFiniteSet(S), NEW f, f \in [S -> {f[x] : x \in S}]
  PROVE  IsFiniteSet({f[x] : x \in S})
<1> DEFINE T == {f[x] : x \in S}
<1>1. f \in Surjection(S, T)
  BY DEF Surjection
<1>2. IsFiniteSet(T)
  <2> HIDE DEF T
  <2> QED
    BY <1>1, FS_Surjection
<1> QED
  BY <1>2

\* A finite set in one order.
LEMMA SetToSeqIs ==
  ASSUME NEW S, IsFiniteSet(S)
  PROVE  SetToSeq(S) \in Seq(S)
<1>1. Cardinality(S) \in Nat /\ ExistsBijection(1..Cardinality(S), S)
  BY FS_CardinalityType
<1>2. PICK f \in [1..Cardinality(S) -> S] : IsInjective(f)
  BY <1>1 DEF ExistsBijection, Bijection, Injection
<1>3. SetToSeq(S) \in [1..Cardinality(S) -> S]
  BY <1>2 DEF SetToSeq
<1> QED
  BY <1>1, <1>3

\* A run that is read is one of those that are recorded, and what fires in it
\* with them.
LEMMA ObservationsGrow ==
  ASSUME NEW n \in 0..Len(Recorded)
  PROVE  Observations(Traces(n)) \subseteq Everything
<1>1. 1..n \subseteq 1..Len(Recorded)
  BY ImproveAssumption
<1>2. Traces(n) \subseteq Traces(Len(Recorded))
  BY <1>1 DEF Traces
<1>3. Load(Traces(n)) \subseteq Load(Traces(Len(Recorded)))
  BY <1>2 DEF Load
<1>4. Everything = Observations(Traces(Len(Recorded)))
  BY DEF Everything
<1>5. \A A, B : Load(A) \subseteq Load(B) => Observations(A) \subseteq Observations(B)
  <2> TAKE A, B
  <2> DEFINE SA == Load(A)
             SB == Load(B)
             seen(r) == {[signature |-> <<f[1], IF f[1] \in TaskScoped THEN r.task ELSE "", f[2]>>,
                          run |-> r.id, proposer |-> f[3], pool |-> Pool(r)] : f \in Fired(r)}
  <2>1. Observations(A) = UNION {seen(r) : r \in SA} /\ Observations(B) = UNION {seen(r) : r \in SB}
    BY DEF Observations
  <2> HIDE DEF seen, SA, SB
  <2>2. SA \subseteq SB => UNION {seen(r) : r \in SA} \subseteq UNION {seen(r) : r \in SB}
    OBVIOUS
  <2> QED
    BY <2>1, <2>2 DEF SA, SB
<1> QED
  BY <1>3, <1>4, <1>5

\* There are finitely many things a file can be.
LEMMA AllFinite == IsFiniteSet(Everything)
BY ImproveAssumption

\* What is mined of the runs on disk: one entry per pattern, whose runs its own
\* rule fired in.
Mining == [id : PatternIDs, runs : SUBSET Cited]

\* Whatever was recorded, what is mined of it is such entries.
LEMMA SupportIs ==
  ASSUME NEW n \in 0..Len(Recorded)
  PROVE  /\ Support[n] \in Seq(Mining)
         /\ \A i \in DOMAIN Support[n] : Earned(Support[n][i].id, Support[n][i].runs)
<1> DEFINE seen == Mined(Traces(n))
           order == SetToSeq(seen)
           entry(s) == [id |-> PatternID(s), runs |-> RunsOf(Bucket(Traces(n), s))]
<1>1. IsFiniteSet(Observations(Traces(n)))
  BY AllFinite, ObservationsGrow, FS_Subset
<1>2. IsFiniteSet(Signatures(Traces(n)))
  <2> DEFINE S == Observations(Traces(n))
             f == [o \in S |-> o.signature]
  <2>1. Signatures(Traces(n)) = {f[o] : o \in S}
    BY DEF Signatures
  <2>2. f \in [S -> {f[o] : o \in S}]
    OBVIOUS
  <2> HIDE DEF f, S
  <2> QED
    BY <1>1, <2>1, <2>2, ImageFinite DEF S
<1>3. IsFiniteSet(seen)
  BY <1>2, FS_Subset DEF Mined
<1>4. order \in Seq(seen)
  <2> HIDE DEF seen
  <2> QED
    BY <1>3, SetToSeqIs
<1>5. Support[n] = [i \in DOMAIN order |-> entry(order[i])]
  BY DEF Support
<1>6. ASSUME NEW s \in seen
      PROVE  entry(s) \in Mining /\ Earned(entry(s).id, entry(s).runs)
  <2> DEFINE bucket == Bucket(Traces(n), s)
  <2>1. \A o \in bucket : o \in Everything /\ o.signature = s
    BY ObservationsGrow DEF Bucket
  <2>2. Supported(bucket) /\ s \in Signatures(Traces(n))
    BY DEF Mined
  <2>3. bucket # {}
    BY <2>2 DEF Signatures, Bucket
  <2>4. (CHOOSE o \in bucket : TRUE) \in bucket
    BY <2>3
  <2>5. Cardinality(RunsOf(bucket)) >= MinRuns /\ \A o \in bucket : o.pool >= MinPool(s[1])
    BY <2>1, <2>2, <2>4 DEF Supported
  <2>6. PatternID(s) \in PatternIDs
    BY <2>1, <2>3 DEF PatternIDs
  <2>7. RunsOf(bucket) \subseteq Cited
    BY <2>1 DEF RunsOf, Cited
  <2>8. \A r \in RunsOf(bucket) : \E o \in Observed(PatternID(s)) : o.run = r /\ o.pool >= MinPool(o.signature[1])
    <3> TAKE r \in RunsOf(bucket)
    <3>1. PICK o \in bucket : o.run = r
      BY DEF RunsOf
    <3>2. o \in Observed(PatternID(s))
      BY <2>1 DEF Observed
    <3> QED
      BY <2>1, <2>5, <3>1, <3>2
  <2> QED
    BY <2>5, <2>6, <2>7, <2>8 DEF Mining, Earned
<1>7. DOMAIN order = 1..Len(order) /\ Len(order) \in Nat /\ \A i \in DOMAIN order : order[i] \in seen
  <2> HIDE DEF seen, order
  <2> QED
    BY <1>4
<1> HIDE DEF order, seen, entry
<1>8. \A i \in DOMAIN order : entry(order[i]) \in Mining
  BY <1>6, <1>7
<1>9. Support[n] \in Seq(Mining) /\ DOMAIN Support[n] = DOMAIN order
  <2> HIDE DEF Mining
  <2> QED
    BY <1>5, <1>7, <1>8
<1> QED
  BY <1>5, <1>6, <1>7, <1>9

\* What is made of a pattern is a pattern document, and adds to what it cites
\* only what was mined.
LEMMA PlannedIs ==
  ASSUME NEW id \in PatternIDs, NEW runs \in SUBSET Cited, NEW there \in PatternDocs \cup {ABSENT}
  PROVE  /\ Planned(runs, there) \in PatternDocs
         /\ Earned(id, runs) /\ (there # ABSENT => EmptyOrEarned(id, there))
              => EmptyOrEarned(id, Planned(runs, there))
<1>0. ABSENT \notin PatternDocs
  BY ImproveAssumption
<1>1. CASE there = ABSENT
  <2>1. Planned(runs, there) = [status |-> "open", evidence |-> runs, reading |-> "mined"]
    BY <1>1 DEF Planned
  <2> QED
    BY <2>1 DEF PatternDocs, EmptyOrEarned
<1>2. CASE there # ABSENT /\ there.status = "open" /\ ~ runs \subseteq there.evidence
  <2>1. Planned(runs, there) = [there EXCEPT !.evidence = @ \cup runs]
    BY <1>2 DEF Planned
  <2>2. there \in PatternDocs
    BY <1>2
  <2>3. Planned(runs, there) \in PatternDocs /\ Planned(runs, there).evidence = there.evidence \cup runs
    BY <2>1, <2>2 DEF PatternDocs
  <2>4. ASSUME Earned(id, runs), EmptyOrEarned(id, there)
        PROVE  Earned(id, there.evidence \cup runs)
    <3>1. \A r \in there.evidence \cup runs : \E o \in Observed(id) : o.run = r /\ o.pool >= MinPool(o.signature[1])
      BY <2>4 DEF Earned, EmptyOrEarned
    <3>2. IsFiniteSet(there.evidence \cup runs)
      <4> DEFINE all == {o.run : o \in Everything}
      <4>1. IsFiniteSet(all)
        <5> DEFINE f == [o \in Everything |-> o.run]
        <5>1. all = {f[o] : o \in Everything} /\ f \in [Everything -> {f[o] : o \in Everything}]
          OBVIOUS
        <5> HIDE DEF f, all
        <5> QED
          BY <5>1, AllFinite, ImageFinite
      <4>2. there.evidence \cup runs \in SUBSET all
        BY <3>1 DEF Observed
      <4> QED
        BY <4>1, <4>2, FS_Subset
    <3>3. Cardinality(there.evidence \cup runs) >= Cardinality(runs)
      <4>1. IsFiniteSet(runs) /\ Cardinality(runs) <= Cardinality(there.evidence \cup runs)
        BY <3>2, FS_Subset
      <4>2. Cardinality(runs) \in Nat /\ Cardinality(there.evidence \cup runs) \in Nat
        BY <3>2, <4>1, FS_CardinalityType
      <4> QED
        BY <4>1, <4>2
    <3>4. Cardinality(there.evidence \cup runs) >= MinRuns
      <4>1. IsFiniteSet(runs)
        BY <3>2, FS_Subset
      <4>2. Cardinality(runs) \in Nat /\ Cardinality(there.evidence \cup runs) \in Nat /\ MinRuns \in Nat
        BY <3>2, <4>1, FS_CardinalityType, ImproveAssumption
      <4> QED
        BY <2>4, <3>3, <4>2 DEF Earned
    <3> QED
      BY <3>1, <3>4 DEF Earned
  <2> QED
    BY <1>2, <2>3, <2>4 DEF EmptyOrEarned
<1>3. CASE there # ABSENT /\ ~ (there.status = "open" /\ ~ runs \subseteq there.evidence)
  <2>1. Planned(runs, there) = there
    BY <1>3 DEF Planned
  <2> QED
    BY <1>3, <2>1
<1> QED
  BY <1>1, <1>2, <1>3

-----------------------------------------------------------------------------
\* What marks a missing or a torn document is no document.
LEMMA Markers ==
  /\ ABSENT # Torn /\ ABSENT # "subject" /\ ABSENT \notin PatternDocs
  /\ ABSENT \notin EditDocs /\ Torn \notin EditDocs
  /\ EditNumberMax \in Nat /\ MaxHands \in Nat /\ MinRuns \in Nat
BY ImproveAssumption

\* Different documents, and a document and its diff, are different files.
LEMMA Names ==
  /\ Topic \in FileNames
  /\ \A n \in Numbers : Doc(n) \in FileNames /\ Diff(n) \in FileNames /\ Doc(n) # Topic /\ Diff(n) # Topic
  /\ \A m, n \in Numbers : Doc(m) # Diff(n) /\ (Doc(m) = Doc(n) => m = n) /\ (Diff(m) = Diff(n) => m = n)
BY DEF Topic, Doc, Diff, FileNames, Numbers

\* A pass that has stopped is in order.
LEMMA StoppedInOrder ==
  ASSUME NEW at \in Over, NEW pats, NEW fs
  PROVE  /\ Fresh \in PassState
         /\ [Fresh EXCEPT !.at = at] \in PassState /\ PassInOrder([Fresh EXCEPT !.at = at], pats, fs)
<1> DEFINE s == [Fresh EXCEPT !.at = at]
           T1 == Seq(Change)
           T2 == Seq(PatternIDs)
           T3 == Seq(Writes)
<1>1. PassState = [at : Stages, dry : BOOLEAN, ask : Asks \cup {Nothing}, plan : T1, mined : T2,
                   wanted : T2, next : Nat, queue : T3, alone : BOOLEAN]
  BY DEF PassState
<1>2. /\ Fresh \in PassState /\ ~ Fresh.dry /\ Fresh.plan = <<>> /\ Fresh.mined = <<>>
      /\ Fresh.wanted = <<>> /\ Fresh.queue = <<>>
  <2>1. <<>> \in T1 /\ <<>> \in T2 /\ <<>> \in T3 /\ "idle" \in Stages
    BY DEF Stages, Over
  <2> HIDE DEF T1, T2, T3
  <2> QED
    BY <1>1, <2>1 DEF Fresh
<1>3. /\ s \in PassState /\ s.at = at /\ ~ s.dry /\ s.plan = <<>> /\ s.mined = <<>>
      /\ s.wanted = <<>> /\ s.queue = <<>>
  <2>1. at \in Stages
    BY DEF Stages
  <2> HIDE DEF T1, T2, T3
  <2> QED
    BY <1>1, <1>2, <2>1
<1>4. PassInOrder(s, pats, fs)
  <2> HIDE DEF s
  <2>1. MinedIsPlanned(s, pats) /\ WantedIsThere(s, pats)
    BY <1>3 DEF MinedIsPlanned, WantedIsThere, Over
  <2>2. QueueInOrder(s, pats, fs) /\ TopicFirst(s, fs)
    BY <1>3 DEF QueueInOrder, TopicFirst, Over
  <2> QED
    BY <2>1, <2>2 DEF PassInOrder
<1> QED
  BY <1>2, <1>3, <1>4

\* Documents are added and written, none is taken away; a pass that does
\* nothing may learn that it is not alone.
Grows(pats, fs, pats2, fs2) ==
  /\ \A id \in PatternIDs : pats[id] # ABSENT => pats2[id] # ABSENT
  /\ fs[Topic] # ABSENT => fs2[Topic] # ABSENT
  /\ \A n \in Numbers : fs[Doc(n)] \notin {ABSENT, Torn} => fs2[Doc(n)] = fs[Doc(n)]
Aside(s, t) == t \in {s, [s EXCEPT !.alone = FALSE]}

\* It stays in order meanwhile.
LEMMA InOrderStays ==
  ASSUME NEW s \in PassState, NEW t, Aside(s, t), NEW pats, NEW fs, NEW pats2, NEW fs2,
         PassInOrder(s, pats, fs), Grows(pats, fs, pats2, fs2)
  PROVE  t \in PassState /\ PassInOrder(t, pats2, fs2)
<1>1. /\ t \in PassState /\ t.at = s.at /\ t.dry = s.dry /\ t.plan = s.plan /\ t.mined = s.mined
      /\ t.wanted = s.wanted /\ t.next = s.next /\ t.queue = s.queue
  <2> DEFINE T1 == Seq(Change)
             T2 == Seq(PatternIDs)
             T3 == Seq(Writes)
  <2>1. PassState = [at : Stages, dry : BOOLEAN, ask : Asks \cup {Nothing}, plan : T1, mined : T2,
                     wanted : T2, next : Nat, queue : T3, alone : BOOLEAN]
    BY DEF PassState
  <2>2. t \in {s, [s EXCEPT !.alone = FALSE]}
    BY DEF Aside
  <2> HIDE DEF T1, T2, T3
  <2> QED
    BY <2>1, <2>2
<1>2. \A i \in DOMAIN s.mined : s.mined[i] \in PatternIDs
  BY DEF PassState
<1>3. \A i \in DOMAIN s.wanted : s.wanted[i] \in PatternIDs
  BY DEF PassState
<1>4. MinedIsPlanned(t, pats2)
  <2>1. MinedIsPlanned(s, pats)
    BY DEF PassInOrder
  <2> QED
    BY <1>1, <1>2, <2>1 DEF MinedIsPlanned, Grows
<1>5. WantedIsThere(t, pats2)
  <2>1. WantedIsThere(s, pats)
    BY DEF PassInOrder
  <2> QED
    BY <1>1, <1>3, <2>1 DEF WantedIsThere, Grows
<1>6. TopicFirst(t, fs2)
  <2>1. TopicFirst(s, fs)
    BY DEF PassInOrder
  <2> QED
    BY <1>1, <2>1 DEF TopicFirst, Grows
<1>7. \A w : WholeEdit(w, pats) => WholeEdit(w, pats2)
  <2>1. \A d \in EditDocs : d.predicts \in PatternIDs
    BY DEF EditDocs
  <2> QED
    BY <2>1 DEF WholeEdit, Grows
<1>8. \A w : ItsDiff(w, fs) => ItsDiff(w, fs2)
  BY DEF ItsDiff, Grows
<1>9. QueueInOrder(t, pats2, fs2)
  <2>1. QueueInOrder(s, pats, fs)
    BY DEF PassInOrder
  <2>2. EditsInOrder(s.queue, pats, fs) => EditsInOrder(s.queue, pats2, fs2)
    BY <1>7, <1>8 DEF EditsInOrder
  <2> QED
    BY <1>1, <2>1, <2>2 DEF QueueInOrder
<1> QED
  BY <1>1, <1>4, <1>5, <1>6, <1>9 DEF PassInOrder

\* What files there are stays true of the patterns when none is taken away.
LEMMA FilesAgreeStill ==
  ASSUME VaultInv, UNCHANGED files, \A id \in PatternIDs : patterns[id] # ABSENT => patterns'[id] # ABSENT
  PROVE  SidecarIsItsOwn' /\ EditsReferToWhatIsThere'
<1>1. SidecarIsItsOwn'
  BY DEF VaultInv, SidecarIsItsOwn
<1>2. \A n \in Numbers : files[Doc(n)] \notin {ABSENT, Torn} => files[Doc(n)].predicts \in PatternIDs
  BY DEF VaultInv, VaultTyped, EditDocs
<1> QED
  BY <1>1, <1>2 DEF VaultInv, EditsReferToWhatIsThere, Numbers

\* A step of one pass that writes nothing and goes to a stage that fills nothing.
LEMMA LocalKeeps ==
  ASSUME VaultInv, NEW p \in Passes, pass' \in [Passes -> PassState],
         \A q \in Passes \ {p} : pass'[q] = pass[q],
         PassInOrder(pass'[p], patterns, files), pass'[p].at \notin {"fill topic", "fill"},
         UNCHANGED <<recorded, patterns, files>>
  PROVE  VaultInv'
<1>1. VaultTyped'
  BY DEF VaultInv, VaultTyped
<1>2. \A q \in Passes : PassInOrder(pass'[q], patterns', files')
  BY DEF VaultInv
<1>3. FillsItsOwn'
  <2>1. \A q \in Passes : Filling(q)' => q # p /\ Filling(q) /\ File(q)' = File(q)
    BY DEF Filling, File
  <2> QED
    BY <2>1 DEF VaultInv, FillsItsOwn
<1> QED
  BY <1>1, <1>2, <1>3, FilesAgreeStill DEF VaultInv

\* A pass that stops.
LEMMA StopKeeps ==
  ASSUME VaultInv, NEW p \in Passes, NEW at \in Over, Becomes(p, at), UNCHANGED <<recorded, patterns, files>>
  PROVE  VaultInv'
<1> DEFINE s == [Fresh EXCEPT !.at = at]
<1>1. s \in PassState /\ PassInOrder(s, patterns, files)
  BY StoppedInOrder
<1>2. s.at = at
  BY DEF Fresh
<1>3. pass' = [pass EXCEPT ![p] = s] /\ pass \in [Passes -> PassState]
  BY DEF Becomes, VaultInv, VaultTyped
<1> HIDE DEF s
<1>4. pass' \in [Passes -> PassState] /\ pass'[p] = s /\ \A q \in Passes \ {p} : pass'[q] = pass[q]
  BY <1>1, <1>3
<1> QED
  BY <1>1, <1>2, <1>4, LocalKeeps DEF Over

\* A pass that plans.
LEMMA PlanIs ==
  ASSUME VaultInv, NEW p \in Passes, NEW dry \in BOOLEAN, NEW ask \in Asks, StartPass(p, dry, ask),
         Decodes(Traces(recorded))
  PROVE  /\ UNCHANGED <<recorded, patterns, files>>
         /\ pass' \in [Passes -> PassState] /\ \A q \in Passes \ {p} : pass'[q] = pass[q]
         /\ pass'[p].at = "apply" /\ pass'[p].dry = dry /\ pass'[p].wanted = <<>> /\ pass'[p].queue = <<>>
         /\ ~ dry => \A i \in DOMAIN pass'[p].mined :
              patterns[pass'[p].mined[i]] # ABSENT \/ \E j \in DOMAIN pass'[p].plan : pass'[p].plan[j].id = pass'[p].mined[i]
         /\ \A j \in DOMAIN pass'[p].plan : \E i \in DOMAIN Support[recorded] :
              LET m == Support[recorded][i]
              IN pass'[p].plan[j] = [id |-> m.id, doc |-> Planned(m.runs, patterns[m.id])]
<1> DEFINE mined == Support[recorded]
           change(m) == [id |-> m.id, doc |-> Planned(m.runs, patterns[m.id])]
           changes == [i \in DOMAIN mined |-> change(mined[i])]
           I == {i \in DOMAIN changes : changes[i].doc # patterns[changes[i].id]}
           planned == IF dry THEN <<>> ELSE Picked(changes, I)
           ids == [i \in DOMAIN mined |-> mined[i].id]
           s == [Fresh EXCEPT !.at = "apply", !.dry = dry, !.ask = ask, !.alone = TRUE,
                              !.plan = planned, !.mined = ids]
<1>1. pass' = [pass EXCEPT ![p] = s] /\ UNCHANGED <<recorded, patterns, files>>
  BY DEF StartPass
<1>2. recorded \in 0..Len(Recorded) /\ pass \in [Passes -> PassState]
      /\ \A id \in PatternIDs : patterns[id] \in PatternDocs \cup {ABSENT}
  BY DEF VaultInv, VaultTyped
<1>3. mined \in Seq(Mining)
  BY <1>2, SupportIs
<1>4. DOMAIN mined = 1..Len(mined) /\ Len(mined) \in Nat
      /\ \A i \in DOMAIN mined : mined[i].id \in PatternIDs /\ mined[i].runs \in SUBSET Cited
  <2> HIDE DEF mined
  <2>1. DOMAIN mined = 1..Len(mined) /\ Len(mined) \in Nat /\ \A i \in DOMAIN mined : mined[i] \in Mining
    BY <1>3
  <2> QED
    BY <2>1 DEF Mining
<1> HIDE DEF mined
<1>5. \A i \in DOMAIN mined : change(mined[i]) \in Change
  BY <1>2, <1>4, PlannedIs DEF Change
<1>6. changes \in Seq(Change) /\ ids \in Seq(PatternIDs) /\ DOMAIN changes = DOMAIN mined /\ DOMAIN ids = DOMAIN mined
  <2> HIDE DEF change
  <2>1. changes \in Seq(Change) /\ DOMAIN changes = DOMAIN mined
    <3> HIDE DEF Change
    <3> QED
      BY <1>4, <1>5
  <2>2. ids \in Seq(PatternIDs) /\ DOMAIN ids = DOMAIN mined
    BY <1>4
  <2> QED
    BY <2>1, <2>2
<1> HIDE DEF changes, ids
<1>7. /\ I \in SUBSET DOMAIN changes
      /\ \A i \in DOMAIN changes : i \in I <=> changes[i].doc # patterns[changes[i].id]
  OBVIOUS
<1> HIDE DEF I
<1>8. /\ Picked(changes, I) \in Seq(Change)
      /\ \A k \in DOMAIN Picked(changes, I) : \E i \in I : Picked(changes, I)[k] = changes[i]
      /\ \A i \in I : \E k \in DOMAIN Picked(changes, I) : Picked(changes, I)[k] = changes[i]
  BY <1>6, <1>7, PickedIs
<1>9. planned \in Seq(Change)
  BY <1>8
<1>10. ~ dry => \A i \in DOMAIN ids : patterns[ids[i]] # ABSENT \/ \E j \in DOMAIN planned : planned[j].id = ids[i]
  <2> SUFFICES ASSUME ~ dry, NEW i \in DOMAIN ids, patterns[ids[i]] = ABSENT
               PROVE  \E j \in DOMAIN planned : planned[j].id = ids[i]
    OBVIOUS
  <2>1. changes[i] = change(mined[i]) /\ ids[i] = mined[i].id /\ i \in DOMAIN changes
    BY <1>6 DEF changes, ids
  <2>2. i \in I
    <3>1. change(mined[i]).doc \in PatternDocs /\ change(mined[i]).id = mined[i].id
      <4>1. change(mined[i]) \in Change
        BY <1>5, <1>6, <2>1
      <4> HIDE DEF change
      <4>2. change(mined[i]).id = mined[i].id
        BY DEF change
      <4> QED
        BY <4>1, <4>2 DEF Change
    <3> QED
      BY <1>7, <2>1, <3>1, Markers
  <2>3. PICK k \in DOMAIN Picked(changes, I) : Picked(changes, I)[k] = changes[i]
    BY <1>8, <2>2
  <2>4. changes[i].id = ids[i]
    BY <2>1
  <2> QED
    BY <2>3, <2>4
<1>11. \A j \in DOMAIN planned : \E i \in DOMAIN mined : planned[j] = change(mined[i])
  <2>1. ASSUME NEW j \in DOMAIN Picked(changes, I)
        PROVE  \E i \in DOMAIN mined : Picked(changes, I)[j] = change(mined[i])
    <3>1. PICK i \in I : Picked(changes, I)[j] = changes[i]
      BY <1>8
    <3>2. i \in DOMAIN mined /\ changes[i] = change(mined[i])
      BY <1>6, <1>7 DEF changes
    <3> QED
      BY <3>1, <3>2
  <2> HIDE DEF change
  <2> QED
    BY <2>1
<1> HIDE DEF planned
<1>12. /\ s \in PassState /\ s.at = "apply" /\ s.dry = dry /\ s.plan = planned /\ s.mined = ids
       /\ s.wanted = <<>> /\ s.queue = <<>>
  <2> DEFINE T1 == Seq(Change)
             T2 == Seq(PatternIDs)
             T3 == Seq(Writes)
  <2>1. PassState = [at : Stages, dry : BOOLEAN, ask : Asks \cup {Nothing}, plan : T1, mined : T2,
                     wanted : T2, next : Nat, queue : T3, alone : BOOLEAN]
    BY DEF PassState
  <2>2. <<>> \in T1 /\ <<>> \in T2 /\ <<>> \in T3 /\ {"idle", "apply"} \subseteq Stages
    BY DEF Stages, Over
  <2>3. planned \in T1 /\ ids \in T2
    BY <1>6, <1>9
  <2> HIDE DEF T1, T2, T3
  <2>4. Fresh \in PassState /\ Fresh.wanted = <<>> /\ Fresh.queue = <<>>
    BY <2>1, <2>2 DEF Fresh
  <2> QED
    BY <2>1, <2>2, <2>3, <2>4
<1> HIDE DEF s
<1>13. pass' \in [Passes -> PassState] /\ pass'[p] = s /\ \A q \in Passes \ {p} : pass'[q] = pass[q]
  BY <1>1, <1>2, <1>12
<1> QED
  BY <1>1, <1>10, <1>11, <1>12, <1>13 DEF mined

\* A pass reads the patterns and plans.
LEMMA StartPassKeeps ==
  ASSUME VaultInv, NEW p \in Passes, NEW dry \in BOOLEAN, NEW ask \in Asks, StartPass(p, dry, ask)
  PROVE  VaultInv'
<1>1. CASE Decodes(Traces(recorded))
  <2>1. PassInOrder(pass'[p], patterns, files)
    <3>1. MinedIsPlanned(pass'[p], patterns) /\ WantedIsThere(pass'[p], patterns)
      BY <1>1, PlanIs DEF MinedIsPlanned, WantedIsThere
    <3>2. QueueInOrder(pass'[p], patterns, files) /\ TopicFirst(pass'[p], files)
      BY <1>1, PlanIs DEF QueueInOrder, TopicFirst
    <3> QED
      BY <3>1, <3>2 DEF PassInOrder
  <2> QED
    BY <1>1, <2>1, PlanIs, LocalKeeps
<1>2. CASE ~ Decodes(Traces(recorded))
  BY <1>2, StopKeeps DEF StartPass, Over
<1> QED
  BY <1>1, <1>2

\* One pattern is written; whoever else planned is no longer alone.
LEMMA ApplyIs ==
  ASSUME VaultInv, NEW p \in Passes, Apply(p)
  PROVE  LET s == pass[p]
             change == Head(s.plan)
             t == pass'[p]
         IN /\ UNCHANGED <<recorded, files>> /\ pass' \in [Passes -> PassState]
            /\ s.at = "apply" /\ s.plan \in Seq(Change) /\ s.plan # <<>> /\ change \in Change
            /\ patterns' = [patterns EXCEPT ![change.id] = change.doc]
            /\ t.at = "apply" /\ t.dry = s.dry /\ t.mined = s.mined /\ t.wanted = s.wanted
            /\ t.next = s.next /\ t.queue = s.queue /\ t.plan = Tail(s.plan)
            /\ \A q \in Passes \ {p} : pass'[q] = [pass[q] EXCEPT !.alone = FALSE]
<1>1. pass \in [Passes -> PassState]
  BY DEF VaultInv, VaultTyped
<1> DEFINE T1 == Seq(Change)
           T2 == Seq(PatternIDs)
           T3 == Seq(Writes)
           s == pass[p]
<1>2. PassState = [at : Stages, dry : BOOLEAN, ask : Asks \cup {Nothing}, plan : T1, mined : T2,
                   wanted : T2, next : Nat, queue : T3, alone : BOOLEAN]
  BY DEF PassState
<1>3. s.at = "apply" /\ s.plan # <<>> /\ s.plan \in T1
  BY <1>1, <1>2 DEF Apply
<1>4. Head(s.plan) \in Change /\ Tail(s.plan) \in T1
  <2> HIDE DEF s
  <2> QED
    BY <1>3
<1>5. pass' = [q \in Passes |-> IF q = p THEN [pass EXCEPT ![p].plan = Tail(@)][q]
                                ELSE [[pass EXCEPT ![p].plan = Tail(@)][q] EXCEPT !.alone = FALSE]]
  BY DEF Apply, Disturbed
<1> HIDE DEF T1, T2, T3
<1>6. pass'[p] = [pass[p] EXCEPT !.plan = Tail(pass[p].plan)]
  BY <1>1, <1>5
<1>7. \A q \in Passes \ {p} : pass'[q] = [pass[q] EXCEPT !.alone = FALSE]
  BY <1>1, <1>5
<1>8. \A q \in Passes \ {p} : pass'[q] \in PassState
  <2> TAKE q \in Passes \ {p}
  <2>1. pass[q] \in PassState /\ pass'[q] = [pass[q] EXCEPT !.alone = FALSE]
    BY <1>1, <1>7
  <2> QED
    BY <1>2, <2>1
<1>9. pass'[p] \in PassState
  BY <1>1, <1>2, <1>4, <1>6
<1>10. pass' \in [Passes -> PassState]
  BY <1>5, <1>8, <1>9
<1>11. LET t == pass'[p]
       IN /\ t.at = "apply" /\ t.dry = s.dry /\ t.mined = s.mined /\ t.wanted = s.wanted
          /\ t.next = s.next /\ t.queue = s.queue /\ t.plan = Tail(s.plan)
  BY <1>1, <1>2, <1>3, <1>6
<1>12. patterns' = [patterns EXCEPT ![Head(s.plan).id] = Head(s.plan).doc] /\ UNCHANGED <<recorded, files>>
  BY DEF Apply
<1> QED
  BY <1>3, <1>4, <1>7, <1>10, <1>11, <1>12 DEF T1

\* The first change of the plan is made.
LEMMA ApplyKeeps ==
  ASSUME VaultInv, NEW p \in Passes, Apply(p)
  PROVE  VaultInv'
<1> DEFINE s == pass[p]
           t == pass'[p]
           change == Head(s.plan)
<1>1. /\ UNCHANGED <<recorded, files>> /\ pass' \in [Passes -> PassState] /\ pass \in [Passes -> PassState]
      /\ s.at = "apply" /\ s.plan \in Seq(Change) /\ s.plan # <<>> /\ change \in Change
      /\ patterns' = [patterns EXCEPT ![change.id] = change.doc]
      /\ t.at = "apply" /\ t.dry = s.dry /\ t.mined = s.mined /\ t.wanted = s.wanted
      /\ t.next = s.next /\ t.queue = s.queue /\ t.plan = Tail(s.plan)
      /\ \A q \in Passes \ {p} : pass'[q] = [pass[q] EXCEPT !.alone = FALSE]
  BY ApplyIs DEF VaultInv, VaultTyped
<1> HIDE DEF s, t, change
<1>2. change.id \in PatternIDs /\ change.doc \in PatternDocs
  BY <1>1 DEF Change
<1>3. patterns \in [PatternIDs -> PatternDocs \cup {ABSENT}]
  BY DEF VaultInv, VaultTyped
<1>4. /\ patterns' \in [PatternIDs -> PatternDocs \cup {ABSENT}]
      /\ \A id \in PatternIDs : patterns[id] # ABSENT => patterns'[id] # ABSENT
      /\ patterns'[change.id] # ABSENT
  BY <1>1, <1>2, <1>3, Markers
<1>5. VaultTyped'
  BY <1>1, <1>4 DEF VaultInv, VaultTyped
<1>6. \A q \in Passes \ {p} : PassInOrder(pass'[q], patterns', files')
  <2> TAKE q \in Passes \ {p}
  <2>1. pass[q] \in PassState /\ PassInOrder(pass[q], patterns, files)
    BY <1>1 DEF VaultInv
  <2>2. Aside(pass[q], pass'[q])
    BY <1>1 DEF Aside
  <2>3. Grows(patterns, files, patterns', files')
    BY <1>1, <1>4 DEF Grows
  <2> QED
    BY <2>1, <2>2, <2>3, InOrderStays
<1>7. PassInOrder(t, patterns', files')
  <2>1. PassInOrder(s, patterns, files) /\ s \in PassState
    BY <1>1 DEF VaultInv, s
  <2>2. \A i \in DOMAIN s.mined : s.mined[i] \in PatternIDs
    BY <2>1 DEF PassState
  <2>3. \A i \in DOMAIN s.wanted : s.wanted[i] \in PatternIDs
    BY <2>1 DEF PassState
  <2>4. \A j \in DOMAIN s.plan : s.plan[j] = change \/ \E i \in DOMAIN t.plan : t.plan[i] = s.plan[j]
    <3> DEFINE planned == s.plan
    <3>1. planned \in Seq(Change) /\ planned # <<>> /\ t.plan = Tail(planned)
      BY <1>1
    <3>2. change = planned[1]
      BY <3>1 DEF change
    <3> HIDE DEF planned, Change
    <3>3. DOMAIN planned = 1..Len(planned) /\ DOMAIN Tail(planned) = 1..(Len(planned) - 1) /\ Len(planned) \in Nat
          /\ \A i \in 1..(Len(planned) - 1) : Tail(planned)[i] = planned[i + 1]
      BY <3>1
    <3>4. \A j \in DOMAIN planned : j = 1 \/ (j - 1 \in DOMAIN Tail(planned) /\ Tail(planned)[j - 1] = planned[j])
      BY <3>3
    <3> QED
      BY <3>1, <3>2, <3>4 DEF planned
  <2>5. MinedIsPlanned(t, patterns')
    <3>1. MinedIsPlanned(s, patterns)
      BY <2>1 DEF PassInOrder
    <3> QED
      BY <1>1, <1>4, <2>2, <2>4, <3>1 DEF MinedIsPlanned
  <2>6. WantedIsThere(t, patterns')
    <3>1. WantedIsThere(s, patterns)
      BY <2>1 DEF PassInOrder
    <3> QED
      BY <1>1, <1>4, <2>3, <3>1 DEF WantedIsThere
  <2>7. QueueInOrder(t, patterns', files') /\ TopicFirst(t, files')
    <3>1. QueueInOrder(s, patterns, files)
      BY <2>1 DEF PassInOrder
    <3> QED
      BY <1>1, <3>1 DEF QueueInOrder, TopicFirst
  <2> QED
    BY <2>5, <2>6, <2>7 DEF PassInOrder
<1>8. \A q \in Passes : pass'[q].at = pass[q].at /\ pass'[q].queue = pass[q].queue
  <2>1. \A q \in Passes \ {p} : pass'[q].at = pass[q].at /\ pass'[q].queue = pass[q].queue
    <3> TAKE q \in Passes \ {p}
    <3>1. pass[q] \in PassState /\ pass'[q] = [pass[q] EXCEPT !.alone = FALSE]
      BY <1>1
    <3> QED
      BY <3>1 DEF PassState
  <2> QED
    BY <1>1, <2>1 DEF s, t
<1>9. FillsItsOwn'
  <2>1. \A q \in Passes : (Filling(q)' <=> Filling(q)) /\ File(q)' = File(q)
    BY <1>1, <1>8 DEF Filling, File
  <2>2. UNCHANGED files
    BY <1>1
  <2> QED
    BY <2>1, <2>2 DEF VaultInv, FillsItsOwn
<1> QED
  BY <1>1, <1>4, <1>5, <1>6, <1>7, <1>9, FilesAgreeStill DEF VaultInv, t

\* What is named and not mined is looked up before anything is asked.
LEMMA WantKeeps ==
  ASSUME VaultInv, NEW p \in Passes, Want(p)
  PROVE  VaultInv'
<1> DEFINE s == pass[p]
           wanted == FromMining(p) \o SetToSeq(FromVault(p))
<1>1. s \in PassState /\ pass \in [Passes -> PassState] /\ PassInOrder(s, patterns, files)
  BY DEF VaultInv, VaultTyped
<1>2. UNCHANGED <<recorded, patterns, files>> /\ s.at = "apply" /\ s.plan = <<>>
  BY DEF Want
<1>3. CASE \E id \in FromVault(p) : ~ Open(id)
  BY <1>2, <1>3, StopKeeps DEF Want, Over
<1>4. CASE ~ (\E id \in FromVault(p) : ~ Open(id)) /\ (s.ask = Nothing \/ wanted = <<>>)
  BY <1>2, <1>4, StopKeeps DEF Want, Over
<1>5. CASE ~ (\E id \in FromVault(p) : ~ Open(id)) /\ ~ (s.ask = Nothing \/ wanted = <<>>)
  <2>1. s.mined \in Seq(PatternIDs) /\ s.ask \in Asks \cup {Nothing}
    BY <1>1 DEF PassState
  <2> DEFINE mined == s.mined
             I == {i \in DOMAIN mined : mined[i] \in Named(p)}
  <2>2. FromMining(p) = Picked(mined, I)
    BY DEF FromMining
  <2>3. I \in SUBSET DOMAIN mined /\ mined \in Seq(PatternIDs)
    BY <2>1
  <2> HIDE DEF I, mined
  <2>4. FromMining(p) \in Seq(PatternIDs)
        /\ \A k \in DOMAIN FromMining(p) : \E i \in DOMAIN mined : FromMining(p)[k] = mined[i]
    BY <2>2, <2>3, PickedIs
  <2>5. IsFiniteSet(FromVault(p))
    <3>1. CASE s.ask.kind = "mined"
      <4>1. FromVault(p) = {}
        BY <3>1 DEF FromVault, Named
      <4> QED
        BY <4>1, FS_EmptySet
    <3>2. CASE s.ask.kind # "mined"
      <4>1. FromVault(p) \in SUBSET s.ask.ids
        BY <3>2 DEF FromVault, Named
      <4>2. IsFiniteSet(s.ask.ids)
        <5>1. \A ask \in Asks : IsFiniteSet(ask.ids)
          BY ImproveAssumption
        <5>2. IsFiniteSet(Nothing.ids)
          BY FS_EmptySet DEF Nothing
        <5> QED
          BY <2>1, <5>1, <5>2
      <4> QED
        BY <4>1, <4>2, FS_Subset
    <3> QED
      BY <3>1, <3>2
  <2>6. SetToSeq(FromVault(p)) \in Seq(FromVault(p))
    BY <2>5, SetToSeqIs
  <2> DEFINE named == SetToSeq(FromVault(p))
  <2>7. named \in Seq(PatternIDs) /\ \A k \in DOMAIN named : patterns[named[k]] # ABSENT
    <3> HIDE DEF named
    <3>1. named \in Seq(FromVault(p))
      BY <2>6 DEF named
    <3>2. \A id \in FromVault(p) : id \in PatternIDs /\ patterns[id] # ABSENT
      BY <1>5 DEF Open
    <3>3. \A k \in DOMAIN named : named[k] \in FromVault(p)
      BY <3>1
    <3>4. named \in Seq(PatternIDs)
      <4>1. Len(named) \in Nat /\ DOMAIN named = 1..Len(named) /\ named = [i \in 1..Len(named) |-> named[i]]
        BY <3>1
      <4> QED
        BY <3>2, <3>3, <4>1
    <3> QED
      BY <3>2, <3>3, <3>4
  <2> DEFINE first == FromMining(p)
  <2> HIDE DEF named, first
  <2>8. first \in Seq(PatternIDs)
    BY <2>4 DEF first
  <2>9. wanted \in Seq(PatternIDs) /\ wanted = first \o named
    BY <2>7, <2>8 DEF first, named
  <2>10. \A k \in DOMAIN wanted : (k \in DOMAIN first /\ wanted[k] = first[k])
                                  \/ \E j \in DOMAIN named : wanted[k] = named[j]
    <3> HIDE DEF wanted
    <3>1. /\ DOMAIN wanted = 1..(Len(first) + Len(named)) /\ Len(first) \in Nat /\ Len(named) \in Nat
          /\ DOMAIN first = 1..Len(first) /\ DOMAIN named = 1..Len(named)
          /\ \A k \in 1..Len(first) : wanted[k] = first[k]
          /\ \A k \in (Len(first) + 1)..(Len(first) + Len(named)) : wanted[k] = named[k - Len(first)]
      BY <2>7, <2>8, <2>9
    <3> QED
      BY <3>1
  <2>11. ~ s.dry => \A k \in DOMAIN wanted : patterns[wanted[k]] # ABSENT
    <3>1. MinedIsPlanned(s, patterns)
      BY <1>1 DEF PassInOrder
    <3>2. ~ s.dry => \A i \in DOMAIN mined : patterns[mined[i]] # ABSENT
      BY <1>2, <3>1 DEF MinedIsPlanned, mined
    <3> HIDE DEF wanted
    <3> QED
      BY <2>4, <2>7, <2>10, <3>2 DEF first
  <2>12. pass' = [pass EXCEPT ![p].at = "topic", ![p].wanted = wanted]
    BY <1>5 DEF Want
  <2> HIDE DEF wanted
  <2> DEFINE T1 == Seq(Change)
             T2 == Seq(PatternIDs)
             T3 == Seq(Writes)
             t == pass'[p]
  <2>13. PassState = [at : Stages, dry : BOOLEAN, ask : Asks \cup {Nothing}, plan : T1, mined : T2,
                      wanted : T2, next : Nat, queue : T3, alone : BOOLEAN]
    BY DEF PassState
  <2>14. wanted \in T2 /\ "topic" \in Stages
    BY <2>9 DEF Stages
  <2>15. s.queue = <<>>
    BY <1>1, <1>2 DEF PassInOrder, QueueInOrder
  <2> HIDE DEF T1, T2, T3
  <2>16. /\ pass' \in [Passes -> PassState] /\ \A q \in Passes \ {p} : pass'[q] = pass[q]
         /\ t.at = "topic" /\ t.wanted = wanted /\ t.dry = s.dry /\ t.queue = <<>>
    BY <1>1, <2>12, <2>13, <2>14, <2>15
  <2> HIDE DEF t
  <2>17. PassInOrder(t, patterns, files)
    <3>1. MinedIsPlanned(t, patterns) /\ WantedIsThere(t, patterns)
      BY <2>11, <2>16 DEF MinedIsPlanned, WantedIsThere
    <3>2. QueueInOrder(t, patterns, files) /\ TopicFirst(t, files)
      BY <2>16 DEF QueueInOrder, TopicFirst
    <3> QED
      BY <3>1, <3>2 DEF PassInOrder
  <2> QED
    BY <1>2, <2>16, <2>17, LocalKeeps DEF t
<1> QED
  BY <1>3, <1>4, <1>5

\* A set of integers that is bounded above has its Max.
LEMMA MaxIs ==
  ASSUME NEW S \in SUBSET Int, S # {}, NEW high \in Int, \A x \in S : x <= high
  PROVE  Max(S) \in S /\ \A x \in S : x <= Max(S)
<1> DEFINE T == {n \in Nat : high - n \in S}
           R == {mn \in Nat \X Nat : mn[1] < mn[2]}
<1>1. T \subseteq Nat /\ T # {}
  <2>1. PICK x \in S : TRUE
    OBVIOUS
  <2>2. high - x \in Nat /\ high - (high - x) = x
    BY <2>1
  <2> QED
    BY <2>1, <2>2
<1>2. IsWellFoundedOn(R, Nat)
  BY NatLessThanWellFounded, Zenon DEF OpToRel
<1>3. PICK n \in T : \A m \in T : ~ (<<m, n>> \in R)
  <2> HIDE DEF R, T
  <2> QED
    BY <1>1, <1>2, WFMin, Zenon
<1>4. high - n \in S /\ \A x \in S : x <= high - n
  <2> SUFFICES ASSUME NEW x \in S PROVE x <= high - n
    BY <1>3
  <2>1. high - x \in T
    <3>1. high - x \in Nat /\ high - (high - x) = x
      OBVIOUS
    <3> QED
      BY <3>1
  <2>2. ~ (high - x < n) /\ n \in Nat /\ x \in Int
    BY <1>3, <2>1
  <2> QED
    BY <2>2
<1>5. \E y \in S : \A x \in S : y >= x
  BY <1>4
<1>6. Max(S) \in S /\ \A x \in S : Max(S) >= x
  BY <1>5 DEF Max
<1> QED
  BY <1>6

\* The number a round takes is a number.
LEMMA NextEditNumberIs == NextEditNumber \in Nat /\ NextEditNumber >= 1
<1> DEFINE S == {0} \cup {n \in Numbers : files[Doc(n)] # ABSENT}
<1>1. S \in SUBSET Int /\ S # {} /\ EditNumberMax \in Int /\ \A x \in S : x <= EditNumberMax /\ x >= 0
  BY Markers DEF Numbers
<1>2. Max(S) \in S
  <2> HIDE DEF S
  <2> QED
    BY <1>1, MaxIs
<1>3. NextEditNumber = Max(S) + 1
  BY DEF NextEditNumber, Numbers
<1>4. Max(S) \in Int /\ Max(S) >= 0
  <2> HIDE DEF S
  <2> QED
    BY <1>1, <1>2
<1> QED
  BY <1>3, <1>4

\* The topic is one file, written at once.
LEMMA TopicFileIs == <<TopicFile>> \in Seq(Writes) /\ Head(<<TopicFile>>) = TopicFile
                     /\ Head(TopicFile) = <<Topic, "subject">> /\ Len(TopicFile) = 1 /\ Tail(<<TopicFile>>) = <<>>
<1>1. TopicFile \in Writes
  BY DEF Writes
<1>2. Head(TopicFile) = <<Topic, "subject">> /\ Len(TopicFile) = 1
  BY DEF TopicFile
<1> HIDE DEF TopicFile, Writes
<1> QED
  BY <1>1, <1>2

\* The topic is queued where there is none.
LEMMA WriteTopicKeeps ==
  ASSUME VaultInv, NEW p \in Passes, WriteTopic(p)
  PROVE  VaultInv'
<1> DEFINE s == pass[p]
           queue == IF NeedsTopic(p) THEN <<TopicFile>> ELSE <<>>
<1>1. s \in PassState /\ PassInOrder(s, patterns, files)
  BY DEF VaultInv, VaultTyped
<1>2. s.at = "topic" /\ pass' = [pass EXCEPT ![p].at = "number", ![p].queue = queue]
      /\ UNCHANGED <<recorded, patterns, files>>
  BY DEF WriteTopic, TopicFile
<1>3. queue \in Seq(Writes)
  BY TopicFileIs
<1>4. queue \in {<<>>, <<TopicFile>>} /\ (s.dry => queue = <<>>) /\ (~ s.dry /\ queue = <<>> => files[Topic] # ABSENT)
  <2>1. <<TopicFile>> # <<>>
    OBVIOUS
  <2> HIDE DEF TopicFile
  <2> QED
    BY <2>1 DEF NeedsTopic
<1> HIDE DEF queue
<1>5. /\ pass' \in [Passes -> PassState] /\ \A q \in Passes \ {p} : pass'[q] = pass[q]
      /\ pass'[p].at = "number" /\ pass'[p].queue = queue /\ pass'[p].wanted = s.wanted /\ pass'[p].dry = s.dry
  <2> DEFINE T1 == Seq(Change)
             T2 == Seq(PatternIDs)
             T3 == Seq(Writes)
  <2>1. PassState = [at : Stages, dry : BOOLEAN, ask : Asks \cup {Nothing}, plan : T1, mined : T2,
                     wanted : T2, next : Nat, queue : T3, alone : BOOLEAN]
    BY DEF PassState
  <2>2. pass \in [Passes -> PassState] /\ queue \in T3 /\ "number" \in Stages
    BY <1>3 DEF VaultInv, VaultTyped, Stages
  <2> HIDE DEF T1, T2, T3
  <2> DEFINE t == [s EXCEPT !.at = "number", !.queue = queue]
  <2>3. s \in PassState
    BY <2>2
  <2> HIDE DEF s
  <2>4. /\ t \in PassState /\ t.at = "number" /\ t.queue = queue /\ t.wanted = s.wanted /\ t.dry = s.dry
        /\ t.queue = queue
    BY <1>2, <2>1, <2>2, <2>3
  <2>5. pass' = [pass EXCEPT ![p] = t]
    BY <1>2, <2>2 DEF s
  <2> HIDE DEF t
  <2>6. pass' \in [Passes -> PassState] /\ pass'[p] = t /\ \A q \in Passes \ {p} : pass'[q] = pass[q]
    BY <2>2, <2>4, <2>5
  <2> QED
    BY <1>2, <2>4, <2>6
<1>6. PassInOrder(pass'[p], patterns, files)
  <2>1. MinedIsPlanned(pass'[p], patterns) /\ WantedIsThere(pass'[p], patterns)
    BY <1>1, <1>5 DEF PassInOrder, MinedIsPlanned, WantedIsThere
  <2>2. QueueInOrder(pass'[p], patterns, files) /\ TopicFirst(pass'[p], files)
    BY <1>4, <1>5 DEF QueueInOrder, TopicFirst, Over
  <2> QED
    BY <2>1, <2>2 DEF PassInOrder
<1> QED
  BY <1>2, <1>5, <1>6, LocalKeeps

\* A round looks at the numbers there are.
LEMMA NewNumberingKeeps ==
  ASSUME VaultInv, NEW p \in Passes, NewNumbering(p)
  PROVE  VaultInv'
<1> DEFINE s == pass[p]
           next == NextEditNumber
<1>1. s \in PassState /\ PassInOrder(s, patterns, files)
  BY DEF VaultInv, VaultTyped
<1>2. s.at = "number" /\ s.queue = <<>> /\ pass' = [pass EXCEPT ![p].at = "round", ![p].next = next]
      /\ UNCHANGED <<recorded, patterns, files>>
  BY DEF NewNumbering
<1>3. next \in Nat /\ next >= 1
  BY NextEditNumberIs
<1> HIDE DEF next
<1>4. /\ pass' \in [Passes -> PassState] /\ \A q \in Passes \ {p} : pass'[q] = pass[q]
      /\ pass'[p].at = "round" /\ pass'[p].queue = <<>> /\ pass'[p].wanted = s.wanted /\ pass'[p].dry = s.dry
      /\ pass'[p].next = next
  <2> DEFINE T1 == Seq(Change)
             T2 == Seq(PatternIDs)
             T3 == Seq(Writes)
  <2>1. PassState = [at : Stages, dry : BOOLEAN, ask : Asks \cup {Nothing}, plan : T1, mined : T2,
                     wanted : T2, next : Nat, queue : T3, alone : BOOLEAN]
    BY DEF PassState
  <2>2. pass \in [Passes -> PassState] /\ "round" \in Stages
    BY <1>3 DEF VaultInv, VaultTyped, Stages
  <2> HIDE DEF T1, T2, T3
  <2> DEFINE t == [s EXCEPT !.at = "round", !.next = next]
  <2>3. s \in PassState
    BY <2>2
  <2> HIDE DEF s
  <2>4. /\ t \in PassState /\ t.at = "round" /\ t.next = next /\ t.wanted = s.wanted /\ t.dry = s.dry
        /\ t.queue = s.queue
    BY <1>2, <1>3, <2>1, <2>2, <2>3
  <2>5. pass' = [pass EXCEPT ![p] = t]
    BY <1>2, <2>2 DEF s
  <2> HIDE DEF t
  <2>6. pass' \in [Passes -> PassState] /\ pass'[p] = t /\ \A q \in Passes \ {p} : pass'[q] = pass[q]
    BY <2>2, <2>4, <2>5
  <2> QED
    BY <1>2, <1>3, <2>4, <2>6
<1>5. PassInOrder(pass'[p], patterns, files)
  <2>1. MinedIsPlanned(pass'[p], patterns) /\ WantedIsThere(pass'[p], patterns)
    BY <1>1, <1>4 DEF PassInOrder, MinedIsPlanned, WantedIsThere
  <2>2. QueueInOrder(pass'[p], patterns, files) /\ TopicFirst(pass'[p], files)
    BY <1>1, <1>2, <1>3, <1>4 DEF PassInOrder, QueueInOrder, TopicFirst, Over, EditsInOrder
  <2> QED
    BY <2>1, <2>2 DEF PassInOrder
<1> QED
  BY <1>2, <1>4, <1>5, LocalKeeps

\* An answer that is turned into an edit is about one surface that may be
\* edited.
LEMMA ProposalIs ==
  ASSUME NEW brought, Converts(brought)
  PROVE  Proposal(brought).component \in Injectable /\ Proposal(brought).approval \in {"auto", "human"}
<1>1. Cardinality(Surfaces(brought.changes)) = 1 /\ Surfaces(brought.changes) \subseteq Injectable
  BY DEF Converts, Classified
<1>2. Surfaces(brought.changes) # {}
  BY <1>1, FS_EmptySet
<1>3. Component(brought.changes) \in Injectable
  BY <1>1, <1>2 DEF Component
<1> QED
  BY <1>3 DEF Proposal

\* What a round asks to be written: whole edits, against the pattern it was
\* for, under numbers of their own.
LEMMA WritesAre ==
  ASSUME NEW p \in Passes, NEW pattern \in PatternIDs, NEW proposals, NEW n \in Nat,
         DOMAIN proposals = 1..n, pass[p].next \in Nat, pass[p].next >= 1,
         pass[p].next + n - 1 <= EditNumberMax,
         \A i \in DOMAIN proposals : /\ proposals[i].component \in Injectable
                                     /\ proposals[i].approval \in {"auto", "human"}
  PROVE  /\ WritesOf(p, pattern, proposals) \in Seq(Writes)
         /\ patterns[pattern] # ABSENT => EditsInOrder(WritesOf(p, pattern, proposals), patterns, files)
<1> DEFINE at(i) == pass[p].next + i - 1
           edit(i) == EditAt(p, pattern, proposals, i)
           queue == WritesOf(p, pattern, proposals)
<1>1. ASSUME NEW i \in 1..n
      PROVE  /\ at(i) \in Numbers /\ edit(i) \in EditDocs /\ edit(i).predicts = pattern
             /\ queue[i] \in {Alone(at(i), edit(i)), WithDiff(at(i), edit(i))}
  <2>1. at(i) \in Numbers
    BY Markers DEF Numbers
  <2>2. Content(p, pattern, i) \in Contents
    BY DEF Content, Contents
  <2>3. edit(i) = [predicts |-> pattern, component |-> proposals[i].component, approval |-> proposals[i].approval,
                   digest |-> IF proposals[i].sidecar THEN Content(p, pattern, i) ELSE <<>>]
    BY DEF EditAt
  <2>4. (IF proposals[i].sidecar THEN Content(p, pattern, i) ELSE <<>>) \in Contents \cup {<<>>}
    BY <2>2
  <2>5. edit(i) \in EditDocs /\ edit(i).predicts = pattern
    <3> HIDE DEF edit
    <3> QED
      BY <2>3, <2>4 DEF EditDocs
  <2>6. proposals[i].sidecar => edit(i).digest = Content(p, pattern, i)
    <3> HIDE DEF edit
    <3> QED
      BY <2>3
  <2>7. queue[i] = IF proposals[i].sidecar THEN <<<<Doc(at(i)), edit(i)>>, <<Diff(at(i)), Content(p, pattern, i)>>>>
                   ELSE <<<<Doc(at(i)), edit(i)>>>>
    BY DEF WritesOf
  <2> HIDE DEF queue, edit, at
  <2> QED
    BY <2>1, <2>5, <2>6, <2>7 DEF Alone, WithDiff
<1>2. queue = [i \in 1..n |-> queue[i]]
  BY DEF WritesOf
<1> HIDE DEF queue, edit, at
<1>3. \A i \in 1..n : queue[i] \in Writes
  BY <1>1 DEF Writes
<1>4. queue \in Seq(Writes) /\ DOMAIN queue = 1..n
  <2> HIDE DEF Writes
  <2> QED
    BY <1>2, <1>3
<1>5. patterns[pattern] # ABSENT => \A i \in 1..n : WholeEdit(queue[i], patterns)
  BY <1>1 DEF WholeEdit
<1> QED
  BY <1>4, <1>5 DEF EditsInOrder, queue

\* The proposals of a round are queued under new numbers.
LEMMA RoundKeeps ==
  ASSUME VaultInv, NEW p \in Passes, NEW answers \in Answers, Round(p, answers)
  PROVE  VaultInv'
<1> DEFINE s == pass[p]
           I == {i \in DOMAIN answers : Converts(answers[i])}
           kept == Picked(answers, I)
           proposals == [i \in DOMAIN kept |-> Proposal(kept[i])]
           n == Len(kept)
<1>1. /\ s \in PassState /\ PassInOrder(s, patterns, files) /\ s.wanted \in Seq(PatternIDs) /\ s.next \in Nat
      /\ pass \in [Passes -> PassState]
  BY DEF VaultInv, VaultTyped, PassState
<1>2. s.at = "round" /\ s.queue = <<>> /\ s.wanted # <<>> /\ UNCHANGED <<recorded, patterns, files>>
  BY DEF Round
<1>3. n \in Nat /\ DOMAIN kept = 1..n /\ \A k \in 1..n : Converts(kept[k])
  <2>1. answers \in Seq(Range(answers))
    BY ImproveAssumption
  <2>2. I \in SUBSET DOMAIN answers /\ \A i \in I : Converts(answers[i])
    OBVIOUS
  <2> HIDE DEF I
  <2>3. kept \in Seq(Range(answers)) /\ \A k \in DOMAIN kept : \E i \in I : kept[k] = answers[i]
    BY <2>1, <2>2, PickedIs
  <2> HIDE DEF kept
  <2> QED
    BY <2>2, <2>3
<1> HIDE DEF kept, n
<1>4. DOMAIN proposals = 1..n /\ Len(proposals) = n
      /\ \A i \in DOMAIN proposals : /\ proposals[i].component \in Injectable
                                     /\ proposals[i].approval \in {"auto", "human"}
  <2>1. \A i \in 1..n : Proposal(kept[i]).component \in Injectable /\ Proposal(kept[i]).approval \in {"auto", "human"}
    BY <1>3, ProposalIs
  <2>2. proposals = [i \in 1..n |-> Proposal(kept[i])]
    BY <1>3
  <2> HIDE DEF proposals
  <2> QED
    BY <1>3, <2>1, <2>2
<1>5. IF s.next + Len(proposals) - 1 > EditNumberMax THEN Becomes(p, "failed")
      ELSE pass' = [pass EXCEPT
             ![p].wanted = Tail(@), ![p].next = @ + Len(proposals),
             ![p].queue = IF s.dry THEN <<>> ELSE WritesOf(p, Head(s.wanted), proposals)]
  BY DEF Round, proposals, kept
<1>6. CASE s.next + n - 1 > EditNumberMax
  BY <1>2, <1>4, <1>5, <1>6, StopKeeps DEF Over
<1>7. CASE ~ s.next + n - 1 > EditNumberMax
  <2> HIDE DEF proposals
  <2> DEFINE pattern == Head(s.wanted)
             queue == IF s.dry THEN <<>> ELSE WritesOf(p, pattern, proposals)
             rest == Tail(s.wanted)
             next == s.next + n
             wanted == s.wanted
  <2>1. s.next >= 1 /\ WantedIsThere(s, patterns) /\ TopicFirst(s, files)
    BY <1>1, <1>2 DEF PassInOrder, QueueInOrder
  <2>2. pattern \in PatternIDs /\ rest \in Seq(PatternIDs) /\ (~ s.dry => patterns[pattern] # ABSENT)
        /\ (~ s.dry => \A i \in DOMAIN rest : patterns[rest[i]] # ABSENT)
    <3>1. wanted \in Seq(PatternIDs) /\ wanted # <<>> /\ pattern = Head(wanted) /\ rest = Tail(wanted)
      BY <1>1, <1>2
    <3>2. ~ s.dry => \A i \in DOMAIN wanted : patterns[wanted[i]] # ABSENT
      BY <2>1 DEF WantedIsThere
    <3> HIDE DEF wanted, pattern, rest
    <3>3. DOMAIN wanted = 1..Len(wanted) /\ DOMAIN Tail(wanted) = 1..(Len(wanted) - 1) /\ Len(wanted) \in Nat
          /\ Len(wanted) >= 1 /\ Head(wanted) = wanted[1] /\ Tail(wanted) \in Seq(PatternIDs)
          /\ \A i \in 1..(Len(wanted) - 1) : Tail(wanted)[i] = wanted[i + 1]
      BY <3>1
    <3>4. pattern = wanted[1] /\ 1 \in DOMAIN wanted /\ pattern \in PatternIDs /\ rest \in Seq(PatternIDs)
          /\ \A i \in DOMAIN rest : rest[i] = wanted[i + 1] /\ i + 1 \in DOMAIN wanted
      BY <3>1, <3>3
    <3> QED
      BY <3>2, <3>4
  <2>3. WritesOf(p, pattern, proposals) \in Seq(Writes)
        /\ (patterns[pattern] # ABSENT => EditsInOrder(WritesOf(p, pattern, proposals), patterns, files))
    <3>1. s.next + n - 1 <= EditNumberMax
      BY <1>1, <1>3, <1>7, Markers
    <3> HIDE DEF pattern, rest
    <3> QED
      BY <1>1, <1>3, <1>4, <2>1, <2>2, <3>1, WritesAre
  <2>4. next \in Nat /\ next >= 1
    BY <1>1, <1>3, <2>1
  <2>5. pass' = [pass EXCEPT ![p].wanted = rest, ![p].next = next, ![p].queue = queue]
    BY <1>4, <1>5, <1>7
  <2> HIDE DEF pattern, rest, next
  <2>6. queue \in Seq(Writes) /\ (s.dry => queue = <<>>) /\ EditsInOrder(queue, patterns, files)
    BY <2>2, <2>3 DEF EditsInOrder
  <2> HIDE DEF queue
  <2>7. /\ pass' \in [Passes -> PassState] /\ \A q \in Passes \ {p} : pass'[q] = pass[q]
        /\ pass'[p].at = "round" /\ pass'[p].queue = queue /\ pass'[p].wanted = rest /\ pass'[p].dry = s.dry
        /\ pass'[p].next = next
    <3> DEFINE T1 == Seq(Change)
               T2 == Seq(PatternIDs)
               T3 == Seq(Writes)
    <3>1. PassState = [at : Stages, dry : BOOLEAN, ask : Asks \cup {Nothing}, plan : T1, mined : T2,
                       wanted : T2, next : Nat, queue : T3, alone : BOOLEAN]
      BY DEF PassState
    <3>2. queue \in T3 /\ rest \in T2
      BY <2>2, <2>6
    <3> HIDE DEF T1, T2, T3
    <3> QED
      BY <1>1, <1>2, <2>4, <2>5, <3>1, <3>2
  <2>8. PassInOrder(pass'[p], patterns, files)
    <3>1. MinedIsPlanned(pass'[p], patterns) /\ WantedIsThere(pass'[p], patterns)
      BY <2>2, <2>7 DEF MinedIsPlanned, WantedIsThere
    <3>2. QueueInOrder(pass'[p], patterns, files) /\ TopicFirst(pass'[p], files)
      BY <1>2, <2>1, <2>4, <2>6, <2>7 DEF QueueInOrder, TopicFirst, Over
    <3> QED
      BY <3>1, <3>2 DEF PassInOrder
  <2> QED
    BY <1>2, <2>7, <2>8, LocalKeeps
<1> QED
  BY <1>6, <1>7

\* A pass has something to write.
Pending(p) == pass[p].at \in {"number", "fill topic", "round", "fill"} /\ pass[p].queue # <<>>

\* What a pass writes next: the topic; a document, and then its diff where it
\* has one; or the diff of a document that is written.
NextIsTopic(p) ==
  pass[p].at \in {"number", "fill topic"} /\ File(p) = <<Topic, "subject">> /\ Rest(p) = <<>>
NextIsDoc(p, n, d) ==
  /\ pass[p].at \in {"round", "fill"} /\ File(p) = <<Doc(n), d>> /\ patterns[d.predicts] # ABSENT
  /\ Rest(p) \in {Tail(pass[p].queue), <<DiffOf(n, d.digest)>> \o Tail(pass[p].queue)}
NextIsDiff(p, n) ==
  /\ pass[p].at \in {"round", "fill"} /\ files[Doc(n)] \notin {ABSENT, Torn}
  /\ File(p) = <<Diff(n), files[Doc(n)].digest>> /\ Rest(p) = Tail(pass[p].queue)

\* What a pass has still to write is a topic, an edit or its diff.
LEMMA FileIs ==
  ASSUME VaultInv, NEW p \in Passes, Pending(p)
  PROVE  /\ \/ NextIsTopic(p)
            \/ \E n \in Numbers, d \in EditDocs : NextIsDoc(p, n, d)
            \/ \E n \in Numbers : NextIsDiff(p, n)
         /\ ~ pass[p].dry /\ File(p)[1] \in FileNames
         /\ Tail(pass[p].queue) \in Seq(Writes)
         /\ pass[p].at \in {"round", "fill"} =>
              \A i \in DOMAIN Tail(pass[p].queue) : WholeEdit(Tail(pass[p].queue)[i], patterns)
<1> DEFINE s == pass[p]
           queue == s.queue
           head == Head(queue)
<1>1. QueueInOrder(s, patterns, files) /\ queue \in Seq(Writes) /\ queue # <<>>
  BY DEF VaultInv, VaultTyped, PassInOrder, PassState, Pending
<1>2. ~ s.dry
  BY <1>1 DEF QueueInOrder
<1>3. /\ DOMAIN queue = 1..Len(queue) /\ DOMAIN Tail(queue) = 1..(Len(queue) - 1) /\ Len(queue) \in Nat
      /\ Len(queue) >= 1 /\ Head(queue) = queue[1] /\ Tail(queue) \in Seq(Writes)
      /\ \A i \in 1..(Len(queue) - 1) : Tail(queue)[i] = queue[i + 1]
  <2> HIDE DEF queue
  <2> QED
    BY <1>1
<1>4. File(p) = Head(head) /\ Rest(p) = IF Len(head) = 1 THEN Tail(queue) ELSE <<Tail(head)>> \o Tail(queue)
  BY DEF File, Rest
<1>5. CASE s.at \in {"number", "fill topic"}
  <2>1. queue = <<TopicFile>>
    BY <1>1, <1>5 DEF QueueInOrder
  <2>2. NextIsTopic(p)
    <3> HIDE DEF queue, head
    <3>1. head = TopicFile /\ Tail(queue) = <<>>
      BY <2>1, TopicFileIs DEF head
    <3> QED
      BY <1>4, <1>5, <3>1, TopicFileIs DEF NextIsTopic
  <2>3. File(p)[1] \in FileNames
    <3>1. File(p) = <<Topic, "subject">>
      BY <2>2, Zenon DEF NextIsTopic
    <3> QED
      BY <3>1, Names
  <2>4. ~ s.at \in {"round", "fill"}
    BY <1>5
  <2>5. Tail(pass[p].queue) \in Seq(Writes)
    BY <1>3
  <2> QED
    BY <1>2, <2>2, <2>3, <2>4, <2>5
<1>6. CASE s.at \in {"round", "fill"}
  <2>1. \A i \in DOMAIN queue : WholeEdit(queue[i], patterns) \/ (i = 1 /\ ItsDiff(queue[i], files))
    BY <1>1, <1>6 DEF QueueInOrder, EditsInOrder
  <2>2. \A i \in DOMAIN Tail(queue) : WholeEdit(Tail(queue)[i], patterns)
    <3> HIDE DEF queue
    <3>1. \A i \in 1..(Len(queue) - 1) : i + 1 \in DOMAIN queue /\ i + 1 # 1
      BY <1>3
    <3> QED
      BY <1>3, <2>1, <3>1
  <2>3. WholeEdit(head, patterns) \/ ItsDiff(head, files)
    <3> HIDE DEF queue
    <3>1. 1 \in DOMAIN queue /\ head = queue[1]
      BY <1>3
    <3> QED
      BY <2>1, <3>1
  <2>4. CASE WholeEdit(head, patterns)
    <3>1. PICK n \in Numbers, d \in EditDocs : head \in {Alone(n, d), WithDiff(n, d)} /\ patterns[d.predicts] # ABSENT
      BY <2>4 DEF WholeEdit
    <3> HIDE DEF head
    <3>2. ASSUME head = Alone(n, d) PROVE NextIsDoc(p, n, d)
      <4>1. Len(head) = 1 /\ Head(head) = <<Doc(n), d>>
        BY <3>2 DEF Alone
      <4> QED
        BY <1>4, <1>6, <3>1, <4>1 DEF NextIsDoc
    <3>3. ASSUME head = WithDiff(n, d) PROVE NextIsDoc(p, n, d)
      <4>1. Len(head) = 2 /\ Head(head) = <<Doc(n), d>> /\ Tail(head) = DiffOf(n, d.digest)
        BY <3>3 DEF WithDiff, DiffOf
      <4> QED
        BY <1>4, <1>6, <3>1, <4>1 DEF NextIsDoc
    <3>4. NextIsDoc(p, n, d)
      BY <3>1, <3>2, <3>3
    <3>5. File(p)[1] = Doc(n)
      BY <3>4 DEF NextIsDoc
    <3> QED
      BY <1>2, <1>3, <2>2, <3>4, <3>5, Names
  <2>5. CASE ItsDiff(head, files)
    <3>1. PICK n \in Numbers : files[Doc(n)] \notin {ABSENT, Torn} /\ head = DiffOf(n, files[Doc(n)].digest)
      BY <2>5 DEF ItsDiff
    <3> HIDE DEF head
    <3>2. Len(head) = 1 /\ Head(head) = <<Diff(n), files[Doc(n)].digest>>
      BY <3>1 DEF DiffOf
    <3>3. NextIsDiff(p, n)
      BY <1>4, <1>6, <3>1, <3>2 DEF NextIsDiff
    <3>4. File(p)[1] = Diff(n)
      BY <3>3 DEF NextIsDiff
    <3> QED
      BY <1>2, <1>3, <2>2, <3>3, <3>4, Names
  <2> QED
    BY <2>3, <2>4, <2>5
<1> QED
  BY <1>5, <1>6 DEF Pending

\* A name is taken before anything is written under it.
LEMMA CreateKeeps ==
  ASSUME VaultInv, NEW p \in Passes, Create(p)
  PROVE  VaultInv'
<1> DEFINE s == pass[p]
           name == File(p)[1]
           t == pass'[p]
<1>1. /\ s \in PassState /\ pass \in [Passes -> PassState] /\ PassInOrder(s, patterns, files)
      /\ s.at \in {"number", "round"} /\ s.queue # <<>> /\ UNCHANGED <<recorded, patterns, hands>>
  BY DEF VaultInv, VaultTyped, Create
<1>2. name \in FileNames /\ ~ s.dry
  BY <1>1, FileIs DEF Pending
<1>3. CASE ~ MayCreate(name)
  BY <1>1, <1>3, StopKeeps DEF Create, Over
<1>4. CASE MayCreate(name)
  <2> HIDE DEF name
  <2> DEFINE at == IF s.at = "number" THEN "fill topic" ELSE "fill"
  <2>1. files' = [files EXCEPT ![name] = Torn] /\ files[name] = ABSENT /\ pass' = [pass EXCEPT ![p].at = at]
    BY <1>4 DEF Create, MayCreate, name
  <2>2. DOMAIN files = FileNames /\ DOMAIN files' = FileNames /\ files'[name] = Torn
        /\ \A f \in FileNames \ {name} : files'[f] = files[f]
    BY <1>2, <2>1 DEF VaultInv, VaultTyped
  <2>3. /\ pass' \in [Passes -> PassState] /\ \A q \in Passes \ {p} : pass'[q] = pass[q]
        /\ t.at = at /\ t.queue = s.queue /\ t.wanted = s.wanted /\ t.dry = s.dry /\ t.next = s.next
    <3> DEFINE T1 == Seq(Change)
               T2 == Seq(PatternIDs)
               T3 == Seq(Writes)
    <3>1. PassState = [at : Stages, dry : BOOLEAN, ask : Asks \cup {Nothing}, plan : T1, mined : T2,
                       wanted : T2, next : Nat, queue : T3, alone : BOOLEAN]
      BY DEF PassState
    <3>2. at \in Stages
      BY DEF Stages
    <3> HIDE DEF T1, T2, T3, at
    <3> QED
      BY <1>1, <2>1, <3>1, <3>2
  <2> HIDE DEF t
  <2>4. Grows(patterns, files, patterns', files')
    BY <1>1, <2>1, <2>2, Names, Markers DEF Grows
  <2>5. PassInOrder(t, patterns, files)
    <3>1. MinedIsPlanned(t, patterns) /\ WantedIsThere(t, patterns)
      BY <1>1, <2>3 DEF PassInOrder, MinedIsPlanned, WantedIsThere
    <3>2. QueueInOrder(t, patterns, files) /\ TopicFirst(t, files)
      BY <1>1, <1>2, <2>3 DEF PassInOrder, QueueInOrder, TopicFirst, Over
    <3> QED
      BY <3>1, <3>2 DEF PassInOrder
  <2>6. \A q \in Passes : PassInOrder(pass'[q], patterns', files')
    <3> TAKE q \in Passes
    <3>1. pass'[q] \in PassState /\ PassInOrder(pass'[q], patterns, files) /\ Aside(pass'[q], pass'[q])
      BY <2>3, <2>5 DEF VaultInv, t, Aside
    <3> QED
      BY <2>4, <3>1, InOrderStays
  <2>7. VaultTyped'
    <3>1. \A n \in Numbers : files'[Doc(n)] \in EditDocs \cup {ABSENT, Torn}
      BY <2>2, Names DEF VaultInv, VaultTyped
    <3> QED
      BY <1>1, <2>2, <2>3, <3>1 DEF VaultInv, VaultTyped
  <2>8. FillsItsOwn'
    <3>1. \A q \in Passes : File(q)' = File(q)
      BY <2>3 DEF File, t
    <3>2. \A q \in Passes : Filling(q)' /\ q # p =>
            Filling(q) /\ files[File(q)[1]] = Torn /\ File(q)[1] \in FileNames /\ File(q)[1] # name
      <4> TAKE q \in Passes
      <4> HAVE Filling(q)' /\ q # p
      <4>1. Filling(q) /\ files[File(q)[1]] = Torn
        BY <2>3 DEF Filling, VaultInv, FillsItsOwn
      <4>2. pass[q].queue # <<>>
        BY <4>1 DEF Filling, VaultInv, PassInOrder, QueueInOrder
      <4>3. File(q)[1] \in FileNames
        BY <4>1, <4>2, FileIs DEF Filling, Pending
      <4> QED
        BY <2>1, <4>1, <4>3, Markers
    <3>3. \A q \in Passes : Filling(q)' => files'[File(q)'[1]] = Torn
      BY <2>2, <3>1, <3>2 DEF name
    <3>4. \A q, r \in Passes : Filling(q)' /\ Filling(r)' /\ File(q)'[1] = File(r)'[1] => q = r
      BY <3>1, <3>2 DEF name, VaultInv, FillsItsOwn
    <3> QED
      BY <3>3, <3>4 DEF FillsItsOwn
  <2>9. \A n \in Numbers : /\ files'[Doc(n)] \notin {ABSENT, Torn} => files[Doc(n)] = files'[Doc(n)]
                           /\ files'[Diff(n)] \notin {ABSENT, Torn} => files[Diff(n)] = files'[Diff(n)]
    BY <2>2, Names
  <2>10. SidecarIsItsOwn'
    <3>1. \A n \in Numbers : files'[Diff(n)] \notin {ABSENT, Torn} =>
            files'[Doc(n)] \notin {ABSENT, Torn} /\ files'[Doc(n)].digest = files'[Diff(n)]
      <4> TAKE n \in Numbers
      <4> HAVE files'[Diff(n)] \notin {ABSENT, Torn}
      <4>1. files[Doc(n)] \notin {ABSENT, Torn} /\ files[Doc(n)].digest = files'[Diff(n)]
        BY <2>9 DEF VaultInv, SidecarIsItsOwn, Numbers
      <4> QED
        BY <2>4, <4>1 DEF Grows
    <3> QED
      BY <3>1 DEF SidecarIsItsOwn, Numbers
  <2>11. EditsReferToWhatIsThere'
    BY <1>1, <2>4, <2>9 DEF VaultInv, EditsReferToWhatIsThere, Numbers, Grows
  <2> QED
    BY <2>6, <2>7, <2>8, <2>10, <2>11 DEF VaultInv
<1> QED
  BY <1>3, <1>4

\* What is left to write after a file is whole, where the first of it is the
\* diff of the document that has just been written.
LEMMA RestInOrder ==
  ASSUME NEW queue \in Seq(Writes), NEW pats, NEW fs,
         \A i \in DOMAIN queue : WholeEdit(queue[i], pats),
         NEW n \in Numbers, fs[Doc(n)] \in EditDocs, NEW left,
         left \in {queue, <<DiffOf(n, fs[Doc(n)].digest)>> \o queue}
  PROVE  left \in Seq(Writes) /\ EditsInOrder(left, pats, fs)
<1>1. CASE left = queue
  BY <1>1 DEF EditsInOrder
<1>2. CASE left = <<DiffOf(n, fs[Doc(n)].digest)>> \o queue
  <2> DEFINE w == DiffOf(n, fs[Doc(n)].digest)
  <2>1. fs[Doc(n)].digest \in Contents \cup {<<>>} /\ fs[Doc(n)] \notin {ABSENT, Torn}
    BY Markers DEF EditDocs
  <2>2. w \in Writes /\ ItsDiff(w, fs)
    BY <2>1 DEF Writes, ItsDiff
  <2> HIDE DEF w, Writes
  <2>3. /\ left \in Seq(Writes) /\ DOMAIN left = 1..(1 + Len(queue)) /\ left[1] = w /\ Len(queue) \in Nat
        /\ DOMAIN queue = 1..Len(queue)
        /\ \A i \in 2..(1 + Len(queue)) : left[i] = queue[i - 1]
    BY <1>2, <2>2 DEF w
  <2>4. \A i \in DOMAIN left : WholeEdit(left[i], pats) \/ (i = 1 /\ ItsDiff(left[i], fs))
    <3> TAKE i \in DOMAIN left
    <3>1. CASE i = 1
      BY <2>2, <2>3, <3>1
    <3>2. CASE i # 1
      <4>1. i \in 2..(1 + Len(queue)) /\ i - 1 \in 1..Len(queue)
        BY <2>3, <3>2
      <4> QED
        BY <2>3, <4>1
    <3> QED
      BY <3>1, <3>2
  <2> QED
    BY <2>3, <2>4 DEF EditsInOrder
<1> QED
  BY <1>1, <1>2

\* A file that was created is filled, by the pass that created it.
LEMMA FillKeeps ==
  ASSUME VaultInv, NEW p \in Passes, Fill(p)
  PROVE  VaultInv'
<1> DEFINE s == pass[p]
           name == File(p)[1]
           content == File(p)[2]
           at == IF s.at = "fill" THEN "round" ELSE "number"
           rest == Rest(p)
           t == pass'[p]
<1>1. /\ s \in PassState /\ pass \in [Passes -> PassState] /\ PassInOrder(s, patterns, files)
      /\ s.at \in {"fill topic", "fill"} /\ UNCHANGED <<recorded, patterns, hands>>
      /\ files' = [files EXCEPT ![name] = content]
      /\ pass' = [pass EXCEPT ![p].at = at, ![p].queue = rest]
  BY DEF VaultInv, VaultTyped, Fill
<1>2. Pending(p) /\ Filling(p)
  BY <1>1 DEF Pending, Filling, PassInOrder, QueueInOrder
<1>3. files[name] = Torn
  BY <1>2 DEF VaultInv, FillsItsOwn
<1>4. /\ \/ NextIsTopic(p)
         \/ \E n \in Numbers, d \in EditDocs : NextIsDoc(p, n, d)
         \/ \E n \in Numbers : NextIsDiff(p, n)
      /\ ~ s.dry /\ name \in FileNames /\ Tail(s.queue) \in Seq(Writes)
      /\ s.at = "fill" => \A i \in DOMAIN Tail(s.queue) : WholeEdit(Tail(s.queue)[i], patterns)
  BY <1>2, FileIs
<1>5. /\ DOMAIN files = FileNames /\ DOMAIN files' = FileNames /\ files'[name] = content
      /\ \A f \in FileNames \ {name} : files'[f] = files[f]
  BY <1>1, <1>4 DEF VaultInv, VaultTyped
\* What is filled, by kind.
<1>6. ASSUME NextIsTopic(p)
      PROVE  name = Topic /\ content = "subject" /\ s.at = "fill topic" /\ rest = <<>>
  <2>1. File(p) = <<Topic, "subject">> /\ s.at \in {"number", "fill topic"} /\ rest = <<>>
    BY <1>6, Zenon DEF NextIsTopic
  <2>2. s.at = "fill topic"
    BY <1>1, <2>1
  <2>3. name = Topic /\ content = "subject"
    <3>1. File(p) = <<Topic, "subject">>
      BY <2>1, Zenon
    <3> QED
      BY <3>1
  <2> QED
    BY <2>1, <2>2, <2>3, Zenon
<1>7. ASSUME NEW n \in Numbers, NEW d \in EditDocs, NextIsDoc(p, n, d)
      PROVE  /\ name = Doc(n) /\ content = d /\ s.at = "fill" /\ patterns[d.predicts] # ABSENT
             /\ rest \in {Tail(s.queue), <<DiffOf(n, d.digest)>> \o Tail(s.queue)}
  <2>1. File(p) = <<Doc(n), d>> /\ s.at = "fill"
    BY <1>1, <1>7 DEF NextIsDoc
  <2> QED
    BY <1>7, <2>1 DEF NextIsDoc
<1>8. ASSUME NEW n \in Numbers, NextIsDiff(p, n)
      PROVE  /\ name = Diff(n) /\ content = files[Doc(n)].digest /\ s.at = "fill"
             /\ files[Doc(n)] \notin {ABSENT, Torn} /\ rest = Tail(s.queue)
  <2>1. File(p) = <<Diff(n), files[Doc(n)].digest>> /\ s.at = "fill"
    BY <1>1, <1>8 DEF NextIsDiff
  <2> QED
    BY <1>8, <2>1 DEF NextIsDiff
<1> HIDE DEF name, content, rest
<1>9. Grows(patterns, files, patterns', files')
  <2>1. files'[Topic] = files[Topic] \/ files'[Topic] = "subject"
    <3>1. name = Topic => content = "subject"
      BY <1>4, <1>6, <1>7, <1>8, Names
    <3> QED
      BY <1>5, <3>1, Names
  <2>2. \A n \in Numbers : files[Doc(n)] \notin {ABSENT, Torn} => files'[Doc(n)] = files[Doc(n)]
    BY <1>3, <1>5, Names
  <2> QED
    BY <1>1, <2>1, <2>2, Markers DEF Grows
\* The pass itself.
<1>10. rest \in Seq(Writes) /\ (s.at = "fill" => EditsInOrder(rest, patterns, files'))
       /\ (s.at = "fill topic" => rest = <<>> /\ files'[Topic] # ABSENT)
  <2>1. CASE NextIsTopic(p)
    <3>1. rest \in Seq(Writes)
      <4>1. rest = <<>>
        BY <1>6, <2>1, Zenon
      <4>2. <<>> \in Seq(Writes)
        OBVIOUS
      <4> QED
        BY <4>1, <4>2, Zenon
    <3>2. files'[Topic] # ABSENT
      BY <1>5, <1>6, <2>1, Markers
    <3>3. rest = <<>> /\ s.at = "fill topic"
      BY <1>6, <2>1, Zenon
    <3> QED
      BY <3>1, <3>2, <3>3
  <2>2. ASSUME NEW n \in Numbers, NEW d \in EditDocs, NextIsDoc(p, n, d)
        PROVE  rest \in Seq(Writes) /\ EditsInOrder(rest, patterns, files') /\ s.at = "fill"
    <3>1. files'[Doc(n)] = d
      BY <1>5, <1>7, <2>2
    <3>2. rest \in {Tail(s.queue), <<DiffOf(n, files'[Doc(n)].digest)>> \o Tail(s.queue)}
      BY <1>7, <2>2, <3>1
    <3>3. s.at = "fill" /\ Tail(s.queue) \in Seq(Writes) /\ files'[Doc(n)] \in EditDocs
          /\ \A i \in DOMAIN Tail(s.queue) : WholeEdit(Tail(s.queue)[i], patterns)
      BY <1>4, <1>7, <2>2, <3>1
    <3> DEFINE queue == Tail(s.queue)
    <3> HIDE DEF queue
    <3> QED
      BY <3>2, <3>3, RestInOrder DEF queue
  <2>3. ASSUME NEW n \in Numbers, NextIsDiff(p, n)
        PROVE  rest \in Seq(Writes) /\ EditsInOrder(rest, patterns, files') /\ s.at = "fill"
    BY <1>4, <1>8, <2>3 DEF EditsInOrder
  <2> QED
    BY <1>4, <2>1, <2>2, <2>3
<1>11. /\ pass' \in [Passes -> PassState] /\ \A q \in Passes \ {p} : pass'[q] = pass[q]
       /\ t.at = at /\ t.queue = rest /\ t.wanted = s.wanted /\ t.dry = s.dry /\ t.next = s.next
  <2> DEFINE T1 == Seq(Change)
             T2 == Seq(PatternIDs)
             T3 == Seq(Writes)
  <2>1. PassState = [at : Stages, dry : BOOLEAN, ask : Asks \cup {Nothing}, plan : T1, mined : T2,
                     wanted : T2, next : Nat, queue : T3, alone : BOOLEAN]
    BY DEF PassState
  <2>2. at \in Stages
    BY DEF Stages
  <2>3. rest \in T3
    BY <1>10
  <2> HIDE DEF T1, T2, T3, at
  <2> QED
    BY <1>1, <2>1, <2>2, <2>3
<1>12. PassInOrder(t, patterns, files')
  <2>1. WantedIsThere(s, patterns) /\ QueueInOrder(s, patterns, files) /\ TopicFirst(s, files)
    BY <1>1 DEF PassInOrder
  <2>2. MinedIsPlanned(t, patterns) /\ WantedIsThere(t, patterns)
    BY <1>11, <2>1 DEF MinedIsPlanned, WantedIsThere
  <2>3. CASE s.at = "fill"
    <3>1. t.at = "round" /\ EditsInOrder(t.queue, patterns, files') /\ t.next >= 1 /\ ~ t.dry
      BY <1>4, <1>10, <1>11, <2>1, <2>3 DEF QueueInOrder
    <3>2. files'[Topic] # ABSENT
      BY <1>4, <1>9, <2>1, <2>3 DEF Grows, TopicFirst
    <3> QED
      BY <2>2, <3>1, <3>2 DEF PassInOrder, QueueInOrder, TopicFirst, Over
  <2>4. CASE s.at = "fill topic"
    <3>1. t.at = "number" /\ t.queue = <<>> /\ files'[Topic] # ABSENT /\ ~ t.dry
      BY <1>4, <1>10, <1>11, <2>4
    <3> QED
      BY <2>2, <3>1 DEF PassInOrder, QueueInOrder, TopicFirst, Over
  <2> QED
    BY <1>1, <2>3, <2>4
<1>13. \A q \in Passes : PassInOrder(pass'[q], patterns', files')
  <2>1. \A q \in Passes \ {p} : PassInOrder(pass'[q], patterns', files')
    <3> TAKE q \in Passes \ {p}
    <3>1. pass'[q] \in PassState /\ PassInOrder(pass'[q], patterns, files) /\ Aside(pass'[q], pass'[q])
      BY <1>11 DEF VaultInv, Aside
    <3> QED
      BY <1>9, <3>1, InOrderStays
  <2> QED
    BY <1>1, <1>12, <2>1
<1>14. VaultTyped'
  <2>1. \A n \in Numbers : files'[Doc(n)] \in EditDocs \cup {ABSENT, Torn}
    <3> TAKE n \in Numbers
    <3>1. name = Doc(n) => content \in EditDocs
      BY <1>4, <1>6, <1>7, <1>8, Names
    <3>2. files[Doc(n)] \in EditDocs \cup {ABSENT, Torn}
      BY DEF VaultInv, VaultTyped
    <3> QED
      BY <1>5, <3>1, <3>2, Names
  <2> QED
    BY <1>1, <1>5, <1>11, <2>1 DEF VaultInv, VaultTyped
<1>15. FillsItsOwn'
  <2>1. \A q \in Passes : Filling(q)' => q # p /\ Filling(q) /\ File(q)' = File(q)
    BY <1>11 DEF Filling, File
  <2>2. \A q \in Passes : Filling(q)' => files'[File(q)[1]] = Torn
    <3> TAKE q \in Passes
    <3> HAVE Filling(q)'
    <3>1. Filling(q) /\ files[File(q)[1]] = Torn /\ File(q)[1] # name
      BY <1>2, <2>1 DEF VaultInv, FillsItsOwn, name
    <3>2. Pending(q)
      BY <3>1 DEF Filling, Pending, VaultInv, PassInOrder, QueueInOrder
    <3>3. File(q)[1] \in FileNames
      BY <3>2, FileIs
    <3> QED
      BY <1>5, <3>1, <3>3
  <2> QED
    BY <2>1, <2>2 DEF VaultInv, FillsItsOwn
\* The files together.
<1>16. SidecarIsItsOwn'
  <2>1. \A n \in Numbers : files'[Diff(n)] \notin {ABSENT, Torn} =>
          files'[Doc(n)] \notin {ABSENT, Torn} /\ files'[Doc(n)].digest = files'[Diff(n)]
    <3> TAKE n \in Numbers
    <3> HAVE files'[Diff(n)] \notin {ABSENT, Torn}
    <3>1. files[Doc(n)] \notin {ABSENT, Torn} /\ files[Doc(n)].digest = files'[Diff(n)]
      <4>1. CASE name = Diff(n)
        <5>1. NextIsDiff(p, n)
          <6>1. PICK m \in Numbers : NextIsDiff(p, m)
            BY <1>4, <1>6, <1>7, <4>1, Names
          <6> QED
            BY <1>8, <4>1, <6>1, Names
        <5> QED
          BY <1>5, <1>8, <4>1, <5>1
      <4>2. CASE name # Diff(n)
        <5>1. files'[Diff(n)] = files[Diff(n)]
          BY <1>5, <4>2, Names
        <5> QED
          BY <5>1 DEF VaultInv, SidecarIsItsOwn, Numbers
      <4> QED
        BY <4>1, <4>2
    <3> QED
      BY <1>9, <3>1 DEF Grows
  <2> QED
    BY <2>1 DEF SidecarIsItsOwn, Numbers
<1>17. EditsReferToWhatIsThere'
  <2>1. \A n \in Numbers : files'[Doc(n)] \notin {ABSENT, Torn} =>
          patterns[files'[Doc(n)].predicts] # ABSENT /\ files[Topic] # ABSENT
    <3> TAKE n \in Numbers
    <3> HAVE files'[Doc(n)] \notin {ABSENT, Torn}
    <3>1. CASE name = Doc(n)
      <4>1. PICK m \in Numbers, d \in EditDocs : NextIsDoc(p, m, d)
        BY <1>4, <1>6, <1>8, <3>1, Names
      <4>2. files'[Doc(n)] = d /\ patterns[d.predicts] # ABSENT /\ s.at = "fill"
        BY <1>5, <1>7, <3>1, <4>1
      <4> QED
        BY <1>1, <1>4, <4>2 DEF PassInOrder, TopicFirst
    <3>2. CASE name # Doc(n)
      <4>1. files'[Doc(n)] = files[Doc(n)]
        BY <1>5, <3>2, Names
      <4> QED
        BY <4>1 DEF VaultInv, EditsReferToWhatIsThere, Numbers
    <3> QED
      BY <3>1, <3>2
  <2> QED
    BY <1>1, <1>9, <2>1 DEF EditsReferToWhatIsThere, Numbers, Grows
<1> QED
  BY <1>13, <1>14, <1>15, <1>16, <1>17 DEF VaultInv

\* A run is recorded.
LEMMA RecordKeeps ==
  ASSUME VaultInv, Record
  PROVE  VaultInv'
<1>1. recorded' \in 0..Len(Recorded)
  BY ImproveAssumption DEF Record, VaultInv, VaultTyped
<1>2. UNCHANGED <<patterns, files, pass>>
  BY DEF Record
<1> QED
  BY <1>1, <1>2 DEF VaultInv, VaultTyped, FillsItsOwn, Filling, File, SidecarIsItsOwn, EditsReferToWhatIsThere

\* What people do to a pattern leaves it where it was, with what it cites.
LEMMA HandIs ==
  ASSUME VaultInv, NEW id \in PatternIDs, Hand(id)
  PROVE  /\ UNCHANGED <<recorded, files>>
         /\ pass' = [p \in Passes |-> [pass[p] EXCEPT !.alone = FALSE]]
         /\ \E doc \in PatternDocs : /\ patterns' = [patterns EXCEPT ![id] = doc]
                                     /\ patterns[id] # ABSENT /\ doc.evidence = patterns[id].evidence
<1>1. patterns[id] # ABSENT /\ patterns[id] \in PatternDocs
  BY DEF Hand, VaultInv, VaultTyped
<1>2. PICK doc \in {[patterns[id] EXCEPT !.status = "resolved"], [patterns[id] EXCEPT !.reading = "sharpened"],
                    [patterns[id] EXCEPT !.status = "unreadable"]} : ByHand(id, doc)
  BY DEF Hand
<1>3. doc \in PatternDocs /\ doc.evidence = patterns[id].evidence
  BY <1>1, <1>2 DEF PatternDocs
<1> QED
  BY <1>1, <1>2, <1>3 DEF ByHand

\* A person writes a pattern.
LEMMA HandKeeps ==
  ASSUME VaultInv, NEW id \in PatternIDs, Hand(id)
  PROVE  VaultInv'
<1>1. UNCHANGED <<recorded, files>> /\ pass' = [p \in Passes |-> [pass[p] EXCEPT !.alone = FALSE]]
  BY HandIs
<1>2. PICK doc \in PatternDocs : patterns' = [patterns EXCEPT ![id] = doc]
  BY HandIs
<1>3. patterns \in [PatternIDs -> PatternDocs \cup {ABSENT}] /\ pass \in [Passes -> PassState]
  BY DEF VaultInv, VaultTyped
<1>4. /\ patterns' \in [PatternIDs -> PatternDocs \cup {ABSENT}]
      /\ \A i \in PatternIDs : patterns[i] # ABSENT => patterns'[i] # ABSENT
  BY <1>2, <1>3, Markers
<1>5. Grows(patterns, files, patterns', files')
  BY <1>1, <1>4 DEF Grows
<1>6. \A q \in Passes : pass'[q] \in PassState /\ PassInOrder(pass'[q], patterns', files')
  <2> TAKE q \in Passes
  <2>1. pass[q] \in PassState /\ PassInOrder(pass[q], patterns, files) /\ Aside(pass[q], pass'[q])
    BY <1>1, <1>3 DEF VaultInv, Aside
  <2> QED
    BY <1>5, <2>1, InOrderStays
<1>7. pass' \in [Passes -> PassState]
  BY <1>1, <1>6
<1>8. VaultTyped'
  BY <1>1, <1>4, <1>7 DEF VaultInv, VaultTyped
<1>9. \A q \in Passes : pass'[q].at = pass[q].at /\ pass'[q].queue = pass[q].queue
  <2> TAKE q \in Passes
  <2>1. pass[q] \in PassState /\ pass'[q] = [pass[q] EXCEPT !.alone = FALSE]
    BY <1>1, <1>3
  <2> QED
    BY <2>1 DEF PassState
<1>10. FillsItsOwn'
  <2>1. \A q \in Passes : (Filling(q)' <=> Filling(q)) /\ File(q)' = File(q)
    BY <1>1, <1>9 DEF Filling, File
  <2>2. UNCHANGED files
    BY <1>1
  <2> QED
    BY <2>1, <2>2 DEF VaultInv, FillsItsOwn
<1> QED
  BY <1>1, <1>4, <1>6, <1>8, <1>10, FilesAgreeStill DEF VaultInv

\* A pass ends, or dies.
LEMMA EndingsKeep ==
  ASSUME VaultInv, NEW p \in Passes, RoundFails(p) \/ Finish(p) \/ PassDies(p)
  PROVE  VaultInv'
BY StopKeeps DEF RoundFails, Finish, PassDies, Over

\* The vault is in order at the start.
LEMMA VaultInit == ImproveInit => VaultInv
<1> SUFFICES ASSUME ImproveInit PROVE VaultInv
  OBVIOUS
<1> USE DEF ImproveInit
<1>1. Fresh \in PassState /\ PassInOrder(Fresh, patterns, files) /\ Fresh.at = "idle"
  <2>1. "idle" \in Over
    BY DEF Over
  <2>2. Fresh.at = "idle"
    BY DEF Fresh
  <2>3. [Fresh EXCEPT !.at = "idle"] = Fresh
    <3> DEFINE s == Fresh
    <3>1. s \in PassState /\ s.at = "idle"
      BY <2>1, <2>2, StoppedInOrder
    <3> HIDE DEF s
    <3>2. [s EXCEPT !.at = "idle"] = s
      BY <3>1 DEF PassState
    <3> QED
      BY <3>2 DEF s
  <2> QED
    BY <2>1, <2>2, <2>3, StoppedInOrder
<1>2. patterns \in [PatternIDs -> PatternDocs \cup {ABSENT}]
  <2>1. \A id \in DOMAIN Existing : Existing[id] \in PatternDocs
    BY ImproveAssumption
  <2> QED
    BY <2>1
<1>3. VaultTyped
  BY <1>1, <1>2, Names DEF VaultTyped
<1>4. \A p \in Passes : PassInOrder(pass[p], patterns, files) /\ ~ Filling(p)
  BY <1>1 DEF Filling
<1>5. \A n \in Numbers : files[Doc(n)] = ABSENT /\ files[Diff(n)] = ABSENT
  BY Names
<1>6. FillsItsOwn /\ SidecarIsItsOwn /\ EditsReferToWhatIsThere
  BY <1>4, <1>5 DEF FillsItsOwn, SidecarIsItsOwn, EditsReferToWhatIsThere, Numbers
<1> QED
  BY <1>3, <1>4, <1>6 DEF VaultInv

\* Every step keeps it in order.
LEMMA VaultNext == VaultInv /\ [ImproveNext]_improveVars => VaultInv'
<1> SUFFICES ASSUME VaultInv, [ImproveNext]_improveVars PROVE VaultInv'
  OBVIOUS
<1>1. CASE UNCHANGED improveVars
  BY <1>1 DEF improveVars, VaultInv, VaultTyped, FillsItsOwn, Filling, File, SidecarIsItsOwn, EditsReferToWhatIsThere
<1>2. ASSUME NEW p \in Passes, PassStep(p) PROVE VaultInv'
  <2>1. CASE \E dry \in BOOLEAN, ask \in Asks : StartPass(p, dry, ask)
    BY <2>1, StartPassKeeps
  <2>2. CASE Apply(p)
    BY <2>2, ApplyKeeps
  <2>3. CASE Want(p)
    BY <2>3, WantKeeps
  <2>4. CASE WriteTopic(p)
    BY <2>4, WriteTopicKeeps
  <2>5. CASE NewNumbering(p)
    BY <2>5, NewNumberingKeeps
  <2>6. CASE \E answers \in Answers : Round(p, answers)
    BY <2>6, RoundKeeps
  <2>7. CASE Create(p)
    BY <2>7, CreateKeeps
  <2>8. CASE Fill(p)
    BY <2>8, FillKeeps
  <2>9. CASE RoundFails(p) \/ Finish(p) \/ PassDies(p)
    BY <2>9, EndingsKeep
  <2> QED
    BY <1>2, <2>1, <2>2, <2>3, <2>4, <2>5, <2>6, <2>7, <2>8, <2>9 DEF PassStep
<1>3. CASE Record
  BY <1>3, RecordKeeps
<1>4. ASSUME NEW id \in PatternIDs, Hand(id) PROVE VaultInv'
  BY <1>4, HandKeeps
<1> QED
  BY <1>1, <1>2, <1>3, <1>4 DEF ImproveNext

\* It is in order in every state.
LEMMA VaultInvariant == ImproveSpec => []VaultInv
<1> QED
  BY VaultInit, VaultNext, PTL DEF ImproveSpec

\* A sidecar diff is the content of the edit whose number it carries, for any
\* number of passes that number and write at once and die at any step.
THEOREM SidecarsFit == ImproveSpec => []SidecarIsItsOwn
<1>1. VaultInv => SidecarIsItsOwn
  BY DEF VaultInv
<1> QED
  BY <1>1, VaultInvariant, PTL

\* An edit predicts a pattern the vault has, about a topic that is there,
\* wherever the pass that wrote it stopped.
THEOREM EditsRefer == ImproveSpec => []EditsReferToWhatIsThere
<1>1. VaultInv => EditsReferToWhatIsThere
  BY DEF VaultInv
<1> QED
  BY <1>1, VaultInvariant, PTL

-----------------------------------------------------------------------------
\* A pass that neither plans nor applies keeps its plan or drops it.
KeepsPlan(s, t) == t.plan = s.plan \/ DOMAIN t.plan = {}

\* No step but the mining and the changes themselves touches a plan or a pattern.
LEMMA PlanStays ==
  ASSUME VaultInv, NEW p \in Passes,
         \/ Want(p) \/ WriteTopic(p) \/ NewNumbering(p) \/ Create(p) \/ Fill(p)
         \/ RoundFails(p) \/ Finish(p) \/ PassDies(p) \/ \E answers \in Answers : Round(p, answers)
  PROVE  UNCHANGED patterns /\ \A q \in Passes : KeepsPlan(pass[q], pass'[q])
<1>1. UNCHANGED patterns
  BY DEF Want, WriteTopic, NewNumbering, Create, Fill, RoundFails, Finish, PassDies, Round
<1>2. pass \in [Passes -> PassState]
  BY DEF VaultInv, VaultTyped
<1>3. ASSUME NEW at, Becomes(p, at) PROVE \A q \in Passes : KeepsPlan(pass[q], pass'[q])
  <2> DEFINE s == [Fresh EXCEPT !.at = at]
  <2>1. DOMAIN s.plan = {}
    BY DEF Fresh
  <2>2. pass' = [pass EXCEPT ![p] = s]
    BY <1>3 DEF Becomes
  <2> HIDE DEF s
  <2> QED
    BY <1>2, <2>1, <2>2 DEF KeepsPlan
<1>4. ASSUME NEW at, NEW next, NEW wanted, NEW queue,
             \/ pass' = [pass EXCEPT ![p].at = at]
             \/ pass' = [pass EXCEPT ![p].at = at, ![p].queue = queue]
             \/ pass' = [pass EXCEPT ![p].at = at, ![p].next = next]
             \/ pass' = [pass EXCEPT ![p].at = at, ![p].wanted = wanted]
             \/ pass' = [pass EXCEPT ![p].wanted = wanted, ![p].next = next, ![p].queue = queue]
      PROVE  \A q \in Passes : KeepsPlan(pass[q], pass'[q])
  <2> DEFINE T1 == Seq(Change)
             T2 == Seq(PatternIDs)
             T3 == Seq(Writes)
  <2>1. PassState = [at : Stages, dry : BOOLEAN, ask : Asks \cup {Nothing}, plan : T1, mined : T2,
                     wanted : T2, next : Nat, queue : T3, alone : BOOLEAN]
    BY DEF PassState
  <2> HIDE DEF T1, T2, T3
  <2>2. \A q \in Passes : pass'[q].plan = pass[q].plan
    BY <1>2, <1>4, <2>1
  <2> QED
    BY <2>2 DEF KeepsPlan
<1>5. \A q \in Passes : KeepsPlan(pass[q], pass'[q])
  <2>1. CASE Want(p)
    BY <1>3, <1>4, <2>1 DEF Want
  <2>2. CASE WriteTopic(p)
    BY <1>4, <2>2 DEF WriteTopic
  <2>3. CASE NewNumbering(p)
    BY <1>4, <2>3 DEF NewNumbering
  <2>4. CASE Create(p)
    BY <1>3, <1>4, <2>4 DEF Create
  <2>5. CASE Fill(p)
    BY <1>4, <2>5 DEF Fill
  <2>6. CASE RoundFails(p) \/ Finish(p) \/ PassDies(p)
    BY <1>3, <2>6 DEF RoundFails, Finish, PassDies
  <2>7. ASSUME NEW answers \in Answers, Round(p, answers) PROVE \A q \in Passes : KeepsPlan(pass[q], pass'[q])
    <3> DEFINE kept == Picked(answers, {i \in DOMAIN answers : Converts(answers[i])})
               proposals == [i \in DOMAIN kept |-> Proposal(kept[i])]
               wanted == Tail(pass[p].wanted)
               next == pass[p].next + Len(proposals)
               queue == IF pass[p].dry THEN <<>> ELSE WritesOf(p, Head(pass[p].wanted), proposals)
    <3>1. Becomes(p, "failed")
          \/ pass' = [pass EXCEPT ![p].wanted = wanted, ![p].next = next, ![p].queue = queue]
      BY <2>7 DEF Round
    <3> HIDE DEF wanted, next, queue
    <3> QED
      BY <1>3, <1>4, <3>1
  <2> QED
    BY <2>1, <2>2, <2>3, <2>4, <2>5, <2>6, <2>7
<1> QED
  BY <1>1, <1>5

\* A plan that stays cites what was earned.
LEMMA EarnedKept ==
  ASSUME EarnedInv, NEW p \in Passes, KeepsPlan(pass[p], pass'[p])
  PROVE  EarnedPlan(pass'[p].plan)
BY DEF EarnedInv, EarnedPlan, KeepsPlan

\* At the start nothing is planned.
LEMMA EarnedInit ==
  ASSUME EarnedBefore, ImproveInit
  PROVE  EarnedInv
<1>1. \A p \in Passes : DOMAIN pass[p].plan = {}
  BY DEF ImproveInit, Fresh
<1>2. \A id \in PatternIDs : patterns[id] # ABSENT => id \in DOMAIN Existing /\ patterns[id] = Existing[id]
  BY DEF ImproveInit
<1> QED
  BY <1>1, <1>2 DEF EarnedInv, EarnedPlan, EarnedBefore, EmptyOrEarned

\* What a pass plans adds what it mined, which is earned.
LEMMA StartPassEarns ==
  ASSUME VaultInv, EarnedInv, NEW p \in Passes, NEW dry \in BOOLEAN, NEW ask \in Asks, StartPass(p, dry, ask)
  PROVE  EarnedInv'
<1>1. UNCHANGED patterns
  BY DEF StartPass
<1>2. EarnedPlan(pass'[p].plan) /\ \A q \in Passes \ {p} : pass'[q] = pass[q]
  <2>1. CASE Decodes(Traces(recorded))
    <3> DEFINE mined == Support[recorded]
    <3>1. /\ \A q \in Passes \ {p} : pass'[q] = pass[q]
          /\ \A j \in DOMAIN pass'[p].plan : \E i \in DOMAIN mined :
               pass'[p].plan[j] = [id |-> mined[i].id, doc |-> Planned(mined[i].runs, patterns[mined[i].id])]
      BY <2>1, PlanIs
    <3>2. /\ recorded \in 0..Len(Recorded)
          /\ \A id \in PatternIDs : patterns[id] \in PatternDocs \cup {ABSENT}
      BY DEF VaultInv, VaultTyped
    <3>3. mined \in Seq(Mining) /\ \A i \in DOMAIN mined : Earned(mined[i].id, mined[i].runs)
      BY <3>2, SupportIs
    <3> HIDE DEF mined
    <3>4. \A i \in DOMAIN mined : mined[i].id \in PatternIDs /\ mined[i].runs \in SUBSET Cited
      <4>1. \A i \in DOMAIN mined : mined[i] \in Mining
        BY <3>3
      <4> QED
        BY <4>1 DEF Mining
    <3>5. \A i \in DOMAIN mined : EmptyOrEarned(mined[i].id, Planned(mined[i].runs, patterns[mined[i].id]))
      BY <3>2, <3>3, <3>4, PlannedIs DEF EarnedInv
    <3>6. ASSUME NEW j \in DOMAIN pass'[p].plan
          PROVE  EmptyOrEarned(pass'[p].plan[j].id, pass'[p].plan[j].doc)
      <4> DEFINE doc(i) == Planned(mined[i].runs, patterns[mined[i].id])
                 entry == pass'[p].plan[j]
      <4>1. PICK i \in DOMAIN mined : entry = [id |-> mined[i].id, doc |-> doc(i)]
        BY <3>1
      <4>2. EmptyOrEarned(mined[i].id, doc(i))
        BY <3>5
      <4> HIDE DEF doc, entry
      <4>3. entry.id = mined[i].id /\ entry.doc = doc(i)
        BY <4>1
      <4>4. EmptyOrEarned(entry.id, entry.doc)
        BY <4>2, <4>3
      <4> QED
        BY <4>4 DEF entry
    <3> QED
      BY <3>1, <3>6 DEF EarnedPlan
  <2>2. CASE ~ Decodes(Traces(recorded))
    <3>1. Becomes(p, "failed")
      BY <2>2 DEF StartPass
    <3> DEFINE s == [Fresh EXCEPT !.at = "failed"]
    <3>2. DOMAIN s.plan = {}
      BY DEF Fresh
    <3>3. pass' = [pass EXCEPT ![p] = s] /\ pass \in [Passes -> PassState]
      BY <3>1 DEF Becomes, VaultInv, VaultTyped
    <3> HIDE DEF s
    <3> QED
      BY <3>2, <3>3 DEF EarnedPlan
  <2> QED
    BY <2>1, <2>2
<1> QED
  BY <1>1, <1>2 DEF EarnedInv

\* What is written was planned.
LEMMA ApplyEarns ==
  ASSUME VaultInv, EarnedInv, NEW p \in Passes, Apply(p)
  PROVE  EarnedInv'
<1> DEFINE planned == pass[p].plan
           change == Head(planned)
<1>1. /\ planned \in Seq(Change) /\ planned # <<>> /\ change \in Change
      /\ patterns' = [patterns EXCEPT ![change.id] = change.doc] /\ pass'[p].plan = Tail(planned)
      /\ \A q \in Passes \ {p} : pass'[q] = [pass[q] EXCEPT !.alone = FALSE]
  BY ApplyIs
<1>2. EarnedPlan(planned)
  BY DEF EarnedInv
<1> HIDE DEF planned
<1>3. change = planned[1] /\ 1 \in DOMAIN planned
      /\ \A i \in DOMAIN Tail(planned) : i + 1 \in DOMAIN planned /\ Tail(planned)[i] = planned[i + 1]
  <2> HIDE DEF Change
  <2> QED
    BY <1>1
<1> HIDE DEF change
<1>4. EmptyOrEarned(change.id, change.doc) /\ EarnedPlan(Tail(planned))
  BY <1>2, <1>3 DEF EarnedPlan
<1>5. \A q \in Passes : EarnedPlan(pass'[q].plan)
  <2>1. \A q \in Passes \ {p} : pass'[q].plan = pass[q].plan
    <3> TAKE q \in Passes \ {p}
    <3>1. pass[q] \in PassState /\ pass'[q] = [pass[q] EXCEPT !.alone = FALSE]
      BY <1>1 DEF VaultInv, VaultTyped
    <3> QED
      BY <3>1 DEF PassState
  <2> QED
    BY <1>1, <1>4, <2>1 DEF EarnedInv
<1>6. \A id \in PatternIDs : patterns'[id] # ABSENT => EmptyOrEarned(id, patterns'[id])
  <2>1. patterns \in [PatternIDs -> PatternDocs \cup {ABSENT}]
    BY DEF VaultInv, VaultTyped
  <2> QED
    BY <1>1, <1>4, <2>1 DEF EarnedInv
<1> QED
  BY <1>5, <1>6 DEF EarnedInv

\* People change what a pattern says, and none of what it cites.
LEMMA HandEarns ==
  ASSUME VaultInv, EarnedInv, NEW id \in PatternIDs, Hand(id)
  PROVE  EarnedInv'
<1>1. pass' = [p \in Passes |-> [pass[p] EXCEPT !.alone = FALSE]]
  BY HandIs
<1>2. PICK doc \in PatternDocs : /\ patterns' = [patterns EXCEPT ![id] = doc]
                                 /\ patterns[id] # ABSENT /\ doc.evidence = patterns[id].evidence
  BY HandIs
<1>3. pass \in [Passes -> PassState] /\ patterns \in [PatternIDs -> PatternDocs \cup {ABSENT}]
  BY DEF VaultInv, VaultTyped
<1>4. \A q \in Passes : pass'[q].plan = pass[q].plan
  <2> TAKE q \in Passes
  <2>1. pass[q] \in PassState /\ pass'[q] = [pass[q] EXCEPT !.alone = FALSE]
    BY <1>1, <1>3
  <2> QED
    BY <2>1 DEF PassState
<1>5. EmptyOrEarned(id, doc)
  BY <1>2 DEF EarnedInv, EmptyOrEarned
<1> QED
  BY <1>2, <1>3, <1>4, <1>5 DEF EarnedInv

\* Every step keeps citations earned.
LEMMA EarnedNext == VaultInv /\ EarnedInv /\ [ImproveNext]_improveVars => EarnedInv'
<1> SUFFICES ASSUME VaultInv, EarnedInv, [ImproveNext]_improveVars PROVE EarnedInv'
  OBVIOUS
<1>1. CASE UNCHANGED improveVars \/ Record
  BY <1>1 DEF improveVars, Record, EarnedInv
<1>2. ASSUME NEW p \in Passes, PassStep(p) PROVE EarnedInv'
  <2>1. CASE \E dry \in BOOLEAN, ask \in Asks : StartPass(p, dry, ask)
    BY <2>1, StartPassEarns
  <2>2. CASE Apply(p)
    BY <2>2, ApplyEarns
  <2>3. CASE \/ Want(p) \/ WriteTopic(p) \/ NewNumbering(p) \/ Create(p) \/ Fill(p)
             \/ RoundFails(p) \/ Finish(p) \/ PassDies(p) \/ \E answers \in Answers : Round(p, answers)
    <3>1. UNCHANGED patterns /\ \A q \in Passes : EarnedPlan(pass'[q].plan)
      BY <2>3, PlanStays, EarnedKept
    <3> QED
      BY <3>1 DEF EarnedInv
  <2> QED
    BY <1>2, <2>1, <2>2, <2>3 DEF PassStep
<1>3. ASSUME NEW id \in PatternIDs, Hand(id) PROVE EarnedInv'
  BY <1>3, HandEarns
<1> QED
  BY <1>1, <1>2, <1>3 DEF ImproveNext

\* Where the vault cites only what it has earned when the passes begin, a
\* pattern never cites anything else: whatever any number of them append to it,
\* from plans however stale, and whatever people make of it meanwhile.
THEOREM EvidenceEarned == EarnedBefore => (ImproveSpec => []EvidenceIsEarned)
<1> SUFFICES ASSUME EarnedBefore PROVE ImproveSpec => []EvidenceIsEarned
  OBVIOUS
<1>1. ImproveInit => VaultInv /\ EarnedInv
  BY VaultInit, EarnedInit
<1>2. VaultInv /\ EarnedInv /\ [ImproveNext]_improveVars => (VaultInv /\ EarnedInv)'
  BY VaultNext, EarnedNext
<1>3. EarnedInv => EvidenceIsEarned
  BY DEF EarnedInv, EmptyOrEarned, EvidenceIsEarned
<1> QED
  BY <1>1, <1>2, <1>3, PTL DEF ImproveSpec
=============================================================================
