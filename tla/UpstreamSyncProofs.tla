---------------------------- MODULE UpstreamSyncProofs ----------------------------
(***************************************************************************)
(* What an emit leaves in its directory, what its report says, and what    *)
(* reaches upstream: proved for any pages, any content and any number of   *)
(* emits, crashes, edits, pushes, merges and failures.                     *)
(***************************************************************************)
EXTENDS UpstreamSync, FiniteSetTheorems, SequenceTheorems, WellFoundedInduction, TLAPS

(***************************************************************************)
(* The invariant                                                           *)
(***************************************************************************)

(* The directory an emitter works in. *)
DirectoryOK ==
    /\ source \in Source
    /\ DOMAIN disk \subseteq Path /\ Shell \in DOMAIN disk
    /\ manifest \in Previous
    /\ emit \in Emit \cup {Idle}
    /\ strays \subseteq Path \ {Shell}
    /\ bounds \in [emits : Nat, crashes : Nat, edits : Nat]

(* Whatever is in the directory, the manifest lists it, or it is known to be *)
(* stray; ...                                                               *)
Listed == DOMAIN disk \subseteq DOMAIN PreviousFiles(manifest) \cup {Shell} \cup strays

(* ... and an emit in progress has yet to remove what it does not render,   *)
(* and has written what it need not write any more.                         *)
EmitFits ==
    /\ emit.previous = manifest
    /\ emit.report = DiffPages(emit.previous, emit.manifest)
    /\ emit.write \subseteq DOMAIN emit.manifest.files
    /\ emit.remove \cap (DOMAIN emit.manifest.files \cup {Shell}) = {}
    /\ \A path \in DOMAIN emit.manifest.files \ emit.write :
          Holds(disk, path, emit.manifest.files[path])
    /\ DOMAIN disk \subseteq DOMAIN emit.manifest.files \cup emit.remove \cup {Shell} \cup strays

Emitter ==
    /\ emit = Idle => Listed
    /\ emit # Idle => EmitFits

(* Every checkout and every branch is a whole site, a branch changes        *)
(* something, and a run has a branch to open a pull request for.            *)
Run == [pc : {"emit", "mirror", "push", "pr", "close"}, source : Source, base : Checkout, tree : Checkout]

Delivery ==
    /\ upstream \in Checkout
    /\ branch \in Branch \cup {NoBranch}
    /\ branch # NoBranch => branch.tree.files # branch.base.files
    /\ run \in Run \cup {NoRun}
    /\ run # NoRun /\ run.pc = "push" => run.tree.files # run.base.files
    /\ run # NoRun /\ run.pc = "pr" => branch # NoBranch
    /\ pr => branch # NoBranch
    /\ {pushed, pr, failed, raced} \subseteq BOOLEAN
    /\ place \in {"developer", "workflow"}

IInv ==
    /\ DirectoryOK
    /\ Emitter
    /\ Delivery

(***************************************************************************)
(* Pages and paths                                                         *)
(***************************************************************************)

(* Nat is well-ordered. *)
LEMMA LeastExists ==
    ASSUME NEW S \in SUBSET Nat, S # {}
    PROVE  \E i \in S : \A j \in S : i <= j
<1> DEFINE Below == {pair \in Nat \X Nat : pair[1] < pair[2]}
<1>1. IsWellFoundedOn(Below, Nat)
  BY NatLessThanWellFounded, Zenon DEF OpToRel
<1>2. \A i, j \in Nat : <<j, i>> \in Below <=> j < i
  OBVIOUS
<1> HIDE DEF Below
<1>3. PICK i \in S : \A j \in S : <<j, i>> \notin Below
  BY <1>1, WFMin
<1>4. \A j \in S : ~(j < i)
  BY <1>2, <1>3
<1> QED BY <1>3, <1>4

(* The first of some pages is one of them. *)
LEMMA FirstPageIn ==
    ASSUME NEW S \in SUBSET Page, S # {}
    PROVE  FirstPage(S) \in S
<1>1. DOMAIN PageOrder = 1 .. Len(PageOrder) /\ Len(PageOrder) \in Nat
  BY PageAssumption
<1>2. \A p \in Page : Rank(p) \in DOMAIN PageOrder
  BY DEF Page, Rank
<1> DEFINE ranks == {Rank(p) : p \in S}
<1>3. ranks \in SUBSET Nat /\ ranks # {}
  BY <1>1, <1>2
<1>4. PICK i \in ranks : \A j \in ranks : i <= j
  BY <1>3, LeastExists
<1>5. \E p \in S : \A q \in S : Rank(p) <= Rank(q)
  BY <1>4
<1> QED BY <1>5 DEF FirstPage

(* Every path has its place in the order files are written in. *)
LEMMA PathsInOrder ==
    /\ DOMAIN PathOrder = 1 .. Len(PathOrder) /\ Len(PathOrder) \in Nat
    /\ \A path \in Path : \E i \in DOMAIN PathOrder : PathOrder[i] = path
<1> DEFINE n == Len(PageOrder)
           public == Under("public")
           content == Under("src/content")
           one == public \o <<Index>>
           two == one \o content
<1>1. n \in Nat /\ DOMAIN PageOrder = 1 .. n
  BY PageAssumption
<1>2. \A dir : /\ Under(dir) \in Seq(Path \cup {<<dir, p>> : p \in Page})
                /\ Len(Under(dir)) = n
                /\ \A i \in 1 .. n : Under(dir)[i] = <<dir, PageOrder[i]>>
  BY <1>1 DEF Under, Page
<1> DEFINE Any == Path \cup {<<dir, p>> : dir \in {"public", "src/content"}, p \in Page}
<1>3. public \in Seq(Any) /\ content \in Seq(Any) /\ <<Index>> \in Seq(Any) /\ <<Shell>> \in Seq(Any)
  BY <1>1, <1>2 DEF Under, Page, Path
<1>4. /\ Len(public) = n /\ Len(content) = n
      /\ \A i \in 1 .. n : public[i] = <<"public", PageOrder[i]>> /\ content[i] = <<"src/content", PageOrder[i]>>
  BY <1>2
<1> HIDE DEF public, content, Any
<1>5. /\ one \in Seq(Any) /\ Len(one) = n + 1
      /\ \A i \in 1 .. n : one[i] = public[i]
      /\ one[n + 1] = Index
  BY <1>1, <1>3, <1>4
<1> HIDE DEF one, n
<1>6. /\ two \in Seq(Any) /\ Len(two) = n + 1 + n
      /\ \A i \in 1 .. n + 1 : two[i] = one[i]
      /\ \A i \in 1 .. n : two[n + 1 + i] = content[i]
  <2>1. two \in Seq(Any) /\ Len(two) = n + 1 + n
    <3>1. two \in Seq(Any) /\ Len(two) = Len(one) + Len(content)
      BY <1>3, <1>5, ConcatProperties
    <3> QED BY <1>4, <1>5, <3>1
  <2>2. ASSUME NEW i \in 1 .. n + 1 PROVE two[i] = one[i]
    <3>1. i \in 1 .. Len(one) + Len(content) /\ i <= Len(one)
      BY <1>1, <1>4, <1>5
    <3> QED BY <1>3, <1>5, <3>1, ConcatProperties
  <2>3. ASSUME NEW i \in 1 .. n PROVE two[n + 1 + i] = content[i]
    <3>1. n + 1 + i \in 1 .. Len(one) + Len(content) /\ n + 1 + i > Len(one)
      BY <1>1, <1>4, <1>5
    <3>2. two[n + 1 + i] = content[n + 1 + i - Len(one)]
      BY <1>3, <1>5, <3>1, ConcatProperties
    <3>3. n + 1 + i - Len(one) = i
      BY <1>1, <1>5
    <3> QED BY <3>2, <3>3
  <2> QED BY <2>1, <2>2, <2>3
<1> HIDE DEF two
<1>7. PathOrder = two \o <<Shell>>
  BY DEF PathOrder, two, one, public, content
<1>8. /\ PathOrder \in Seq(Any) /\ Len(PathOrder) = n + 1 + n + 1
      /\ \A i \in 1 .. n + 1 + n : PathOrder[i] = two[i]
      /\ PathOrder[n + 1 + n + 1] = Shell
  BY <1>1, <1>3, <1>6, <1>7
<1>9. DOMAIN PathOrder = 1 .. n + 1 + n + 1
  BY <1>8
<1>10. ASSUME NEW p \in Page
       PROVE  /\ \E i \in DOMAIN PathOrder : PathOrder[i] = <<"public", p>>
              /\ \E i \in DOMAIN PathOrder : PathOrder[i] = <<"src/content", p>>
  <2>1. PICK k \in 1 .. n : PageOrder[k] = p
    BY <1>1 DEF Page
  <2>2. PathOrder[k] = <<"public", p>> /\ k \in DOMAIN PathOrder
    BY <1>1, <1>4, <1>5, <1>6, <1>8, <1>9, <2>1
  <2>3. PathOrder[n + 1 + k] = <<"src/content", p>> /\ n + 1 + k \in DOMAIN PathOrder
    BY <1>1, <1>4, <1>6, <1>8, <1>9, <2>1
  <2> QED BY <2>2, <2>3
<1>11. PathOrder[n + 1] = Index /\ n + 1 \in DOMAIN PathOrder
  BY <1>1, <1>5, <1>6, <1>8, <1>9
<1>12. n + 1 + n + 1 \in DOMAIN PathOrder
  BY <1>1, <1>9
<1>13. ASSUME NEW path \in Path PROVE \E i \in DOMAIN PathOrder : PathOrder[i] = path
  BY <1>8, <1>10, <1>11, <1>12 DEF Path
<1> QED BY <1>1, <1>8, <1>9, <1>13

(* The first of some paths is one of them. *)
LEMMA FirstPathIn ==
    ASSUME NEW S \in SUBSET Path, S # {}
    PROVE  FirstPath(S) \in S
<1> DEFINE places == {i \in DOMAIN PathOrder : PathOrder[i] \in S}
<1>1. places \in SUBSET Nat /\ places # {}
  BY PathsInOrder
<1>2. PICK i \in places : \A j \in places : i <= j
  BY <1>1, LeastExists
<1>3. \A j \in 1 .. (i - 1) : PathOrder[j] \notin S
  BY <1>2, PathsInOrder
<1>4. \E k \in DOMAIN PathOrder :
         PathOrder[k] \in S /\ \A j \in 1 .. (k - 1) : PathOrder[j] \notin S
  BY <1>2, <1>3
<1> QED BY <1>4 DEF FirstPath

(***************************************************************************)
(* What is rendered                                                        *)
(***************************************************************************)

(* The index is no page's file, and the site's own file is nobody's. *)
LEMMA FilesDiffer ==
    /\ Index # Shell /\ Index \in Path /\ Shell \in Path
    /\ \A out \in {"src/content", "public"}, p \in Page :
          <<out, p>> \in Path /\ <<out, p>> # Index /\ <<out, p>> # Shell
BY PageAssumption DEF Index, Shell, Path

(* What a directory has after some of its files are written. *)
LEMMA OntoValues ==
    ASSUME NEW f, NEW g
    PROVE  /\ DOMAIN Onto(f, g) = DOMAIN f \cup DOMAIN g
           /\ \A path \in DOMAIN f : Onto(f, g)[path] = f[path]
           /\ \A path \in DOMAIN g \ DOMAIN f : Onto(f, g)[path] = g[path]
BY DEF Onto

LEMMA FileValue ==
    ASSUME NEW path, NEW bytes
    PROVE  DOMAIN File(path, bytes) = {path} /\ File(path, bytes)[path] = bytes
BY DEF File

(* A render has the files of the pages it selects and the index, which says *)
(* what is in each of them.                                                 *)
LEMMA RenderValues ==
    ASSUME NEW src \in Source, NEW drafts \in BOOLEAN
    PROVE  /\ Selected(src, drafts) \subseteq Page
           /\ DOMAIN Render(src, drafts) =
                 ({"src/content", "public"} \X Selected(src, drafts)) \cup {Index}
           /\ DOMAIN Render(src, drafts) \subseteq Path \ {Shell}
           /\ DOMAIN (Render(src, drafts)[Index]) = Selected(src, drafts)
           /\ \A out \in {"src/content", "public"}, p \in Selected(src, drafts) :
                 Render(src, drafts)[<<out, p>>] = Render(src, drafts)[Index][p]
<1> DEFINE pages == Selected(src, drafts)
           index == [p \in pages |-> RenderedPage(src, drafts, p)]
<1>1. pages \subseteq Page
  BY SourceAssumption DEF Selected
<1> HIDE DEF pages
<1>2. Render(src, drafts) =
        [path \in ({"src/content", "public"} \X pages) \cup {Index} |->
           IF path = Index THEN index ELSE RenderedPage(src, drafts, path[2])]
  BY DEF Render, pages
<1>3. DOMAIN Render(src, drafts) \subseteq Path \ {Shell}
  BY <1>1, <1>2, FilesDiffer DEF Path
<1>4. Render(src, drafts)[Index] = index
  BY <1>2
<1>5. ASSUME NEW out \in {"src/content", "public"}, NEW p \in pages
      PROVE  Render(src, drafts)[<<out, p>>] = index[p]
  BY <1>1, <1>2, FilesDiffer
<1> QED BY <1>1, <1>2, <1>3, <1>4, <1>5 DEF pages

(* A manifest lists files of the site and two files of each of its pages; a *)
(* fresh one does not list the site's own file.                             *)
LEMMA EmittedValues ==
    ASSUME NEW m \in Emitted
    PROVE  /\ m = [pages |-> m.pages, files |-> m.files]
           /\ DOMAIN m.pages \subseteq Page /\ DOMAIN m.files \subseteq Path \ {Shell}
           /\ \A out \in {"src/content", "public"}, p \in DOMAIN m.pages : <<out, p>> \in DOMAIN m.files
<1>1. PICK src \in Source, drafts \in BOOLEAN : m = NextManifest(src, drafts)
  BY DEF Emitted
<1>2. m.pages = ManifestPages(src, drafts) /\ m.files = Render(src, drafts)
      /\ m = [pages |-> m.pages, files |-> m.files]
  BY <1>1 DEF NextManifest
<1>3. DOMAIN m.pages = Selected(src, drafts)
  BY <1>2 DEF ManifestPages
<1>4. /\ DOMAIN m.files = ({"src/content", "public"} \X DOMAIN m.pages) \cup {Index}
      /\ DOMAIN m.files \subseteq Path \ {Shell} /\ DOMAIN m.pages \subseteq Page
  BY <1>2, <1>3, RenderValues
<1> QED BY <1>2, <1>4

LEMMA DamagedValues ==
    ASSUME NEW m \in Emitted
    PROVE  /\ Damaged(m).pages = m.pages
           /\ DOMAIN Damaged(m).files = {Shell} \cup DOMAIN m.files
           /\ Damaged(Damaged(m)) = Damaged(m)
<1>1. PICK pages, files : m = [pages |-> pages, files |-> files]
  BY EmittedValues
<1> DEFINE edited == Onto(File(Shell, Edited), files)
<1>0. \A p, g, h : [[pages |-> p, files |-> g] EXCEPT !.files = h] = [pages |-> p, files |-> h]
  OBVIOUS
<1>2. Damaged(m) = [pages |-> pages, files |-> edited]
  <2>1. Damaged(m) = [m EXCEPT !.files = Onto(File(Shell, Edited), m.files)]
    BY DEF Damaged
  <2>2. m.files = files
    BY <1>1
  <2> QED BY <1>0, <1>1, <2>1, <2>2
<1>3. DOMAIN edited = {Shell} \cup DOMAIN files /\ edited[Shell] = Edited
  <2>1. DOMAIN File(Shell, Edited) = {Shell} /\ File(Shell, Edited)[Shell] = Edited
    BY FileValue
  <2> QED BY <2>1 DEF Onto
<1>4. Onto(File(Shell, Edited), edited) = edited
  <2>1. DOMAIN File(Shell, Edited) = {Shell} /\ File(Shell, Edited)[Shell] = Edited
    BY FileValue
  <2>2. edited = [path \in DOMAIN edited |-> edited[path]]
    BY DEF Onto
  <2> HIDE DEF edited
  <2> QED BY <1>3, <2>1, <2>2 DEF Onto
<1> HIDE DEF edited
<1>5. Damaged(Damaged(m)) = [pages |-> pages, files |-> Onto(File(Shell, Edited), edited)]
  <2>1. Damaged(Damaged(m)) = [Damaged(m) EXCEPT !.files = Onto(File(Shell, Edited), Damaged(m).files)]
    BY DEF Damaged
  <2>2. Damaged(m).files = edited
    BY <1>2
  <2> QED BY <1>0, <1>2, <2>1, <2>2
<1> QED BY <1>1, <1>2, <1>3, <1>4, <1>5

LEMMA ManifestValues ==
    ASSUME NEW m \in Manifest
    PROVE  /\ m # NoManifest /\ Damaged(m) \in Manifest
           /\ PreviousFiles(m) = m.files /\ PreviousPages(m) = m.pages
           /\ DOMAIN m.pages \subseteq Page /\ DOMAIN m.files \subseteq Path
           /\ DOMAIN Damaged(m).files = {Shell} \cup DOMAIN m.files
           /\ \A out \in {"src/content", "public"}, p \in DOMAIN m.pages : <<out, p>> \in DOMAIN m.files
<1>1. m # NoManifest
  BY AbsenceAssumption
<1>2. CASE m \in Emitted
  <2>1. Damaged(m) \in Manifest
    BY <1>2 DEF Manifest
  <2> QED BY <1>1, <1>2, <2>1, EmittedValues, DamagedValues DEF PreviousFiles, PreviousPages
<1>3. CASE m \notin Emitted
  <2>1. PICK k \in Emitted : m = Damaged(k)
    BY <1>3 DEF Manifest
  <2>2. /\ DOMAIN k.pages \subseteq Page /\ DOMAIN k.files \subseteq Path \ {Shell}
        /\ \A out \in {"src/content", "public"}, p \in DOMAIN k.pages : <<out, p>> \in DOMAIN k.files
    BY EmittedValues
  <2>3. Damaged(m) = m /\ m.pages = k.pages /\ DOMAIN m.files = {Shell} \cup DOMAIN k.files
    BY <2>1, DamagedValues
  <2> QED BY <1>1, <2>2, <2>3, FilesDiffer DEF PreviousFiles, PreviousPages
<1> QED BY <1>2, <1>3

(* Nothing is listed by a manifest that is not there. *)
LEMMA PreviousValues ==
    ASSUME NEW m \in Previous
    PROVE  DOMAIN PreviousPages(m) \subseteq Page /\ DOMAIN PreviousFiles(m) \subseteq Path
<1>1. m = NoManifest \/ m \in Manifest
  BY DEF Previous
<1>2. CASE m = NoManifest
  BY <1>2 DEF PreviousPages, PreviousFiles
<1> QED BY <1>1, <1>2, ManifestValues

(***************************************************************************)
(* One emit                                                                *)
(***************************************************************************)

(* An emit plans to write what differs, and to remove what the manifest     *)
(* lists and it does not render, but never the site's own file.             *)
LEMMA StartStep ==
    ASSUME DirectoryOK, Emitter, NEW drafts \in BOOLEAN, StartEmit(drafts)
    PROVE  DirectoryOK' /\ Emitter'
<1> DEFINE next == NextManifest(source, drafts)
           plan == PlanSync(next.files, manifest, disk)
           e == [ write |-> plan.write, remove |-> plan.remove, manifest |-> next,
                  previous |-> manifest, report |-> DiffPages(manifest, next) ]
<1>1. /\ emit = Idle /\ emit' = e /\ bounds' = [bounds EXCEPT !.emits = @ + 1]
      /\ UNCHANGED <<source, disk, manifest, strays>>
  BY DEF StartEmit
<1>2. source \in Source /\ manifest \in Previous /\ next \in Emitted
  BY DEF DirectoryOK, Emitted
<1> HIDE DEF next
<1>3. /\ plan.write = {path \in DOMAIN next.files : ~Holds(disk, path, next.files[path])}
      /\ plan.remove = (DOMAIN PreviousFiles(manifest) \ DOMAIN next.files) \ {Shell}
  BY DEF PlanSync, IsOwned
<1> HIDE DEF plan
<1>4. plan.write \in SUBSET Path /\ plan.remove \in SUBSET Path
  BY <1>2, <1>3, EmittedValues, PreviousValues
<1>5. /\ e.write = plan.write /\ e.remove = plan.remove /\ e.manifest = next
      /\ e.previous = manifest /\ e.report = DiffPages(manifest, next)
  OBVIOUS
<1>6. e \in Emit
  BY <1>2, <1>4 DEF Emit
<1> HIDE DEF e
<1>7. DOMAIN disk \subseteq DOMAIN PreviousFiles(manifest) \cup {Shell} \cup strays
  BY <1>1 DEF Emitter, Listed
<1>8. DirectoryOK'
  BY <1>1, <1>6 DEF DirectoryOK
<1>9. EmitFits'
  <2>1. e.remove \cap (DOMAIN next.files \cup {Shell}) = {}
    BY <1>3, <1>5
  <2>2. DOMAIN disk \subseteq DOMAIN next.files \cup e.remove \cup {Shell} \cup strays
    BY <1>3, <1>5, <1>7
  <2> QED BY <1>1, <1>3, <1>5, <2>1, <2>2 DEF EmitFits, Holds
<1>10. emit' # Idle
  BY <1>1, <1>6, AbsenceAssumption
<1> QED BY <1>8, <1>9, <1>10 DEF Emitter

(* What an emit in progress is made of. *)
LEMMA EmitFields ==
    ASSUME DirectoryOK, emit # Idle
    PROVE  /\ emit = [ write |-> emit.write, remove |-> emit.remove, manifest |-> emit.manifest,
                       previous |-> emit.previous, report |-> emit.report ]
           /\ emit \in Emit /\ emit.manifest \in Emitted /\ emit.previous \in Previous
           /\ emit.write \subseteq Path /\ emit.remove \subseteq Path
BY DEF DirectoryOK, Emit

(* A file is written as it was rendered. *)
LEMMA WriteStep ==
    ASSUME DirectoryOK, Emitter, WriteFile
    PROVE  DirectoryOK' /\ Emitter' /\ emit' # Idle
<1> DEFINE path == FirstPath(emit.write)
           e == [ write |-> emit.write \ {path}, remove |-> emit.remove, manifest |-> emit.manifest,
                  previous |-> emit.previous, report |-> emit.report ]
<1>1. /\ emit # Idle /\ emit.write # {}
      /\ disk' = Onto(File(path, emit.manifest.files[path]), disk)
      /\ emit' = [emit EXCEPT !.write = @ \ {path}]
      /\ UNCHANGED <<source, manifest, bounds, strays>>
  BY DEF WriteFile
<1>2. EmitFits
  BY <1>1 DEF Emitter
<1>3. path \in emit.write /\ path \in DOMAIN emit.manifest.files /\ path \in Path
  BY <1>1, <1>2, EmitFields, FirstPathIn DEF EmitFits
<1> HIDE DEF path
<1>4. emit' = e
  BY <1>1, EmitFields
<1>5. /\ e.write = emit.write \ {path} /\ e.remove = emit.remove /\ e.manifest = emit.manifest
      /\ e.previous = emit.previous /\ e.report = emit.report
  OBVIOUS
<1>6. e \in Emit
  BY <1>1, EmitFields DEF Emit
<1> HIDE DEF e
<1>7. DOMAIN disk' = {path} \cup DOMAIN disk /\ disk'[path] = emit.manifest.files[path]
      /\ \A other \in DOMAIN disk \ {path} : disk'[other] = disk[other]
  BY <1>1 DEF Onto, File
<1>8. DirectoryOK'
  BY <1>1, <1>3, <1>4, <1>6, <1>7 DEF DirectoryOK
<1>9. EmitFits'
  <2>1. ASSUME NEW other \in DOMAIN e.manifest.files \ e.write
        PROVE  Holds(disk', other, e.manifest.files[other])
    BY <1>2, <1>5, <1>7 DEF EmitFits, Holds
  <2>2. DOMAIN disk' \subseteq DOMAIN e.manifest.files \cup e.remove \cup {Shell} \cup strays
    BY <1>2, <1>3, <1>5, <1>7 DEF EmitFits
  <2> QED BY <1>1, <1>2, <1>4, <1>5, <2>1, <2>2 DEF EmitFits, Holds
<1> QED BY <1>4, <1>6, <1>8, <1>9, AbsenceAssumption DEF Emitter

(* A file that is removed is not one that is rendered. *)
LEMMA RemoveStep ==
    ASSUME DirectoryOK, Emitter, RemoveFile
    PROVE  DirectoryOK' /\ Emitter' /\ emit' # Idle
<1> DEFINE path == FirstPath(emit.remove)
           e == [ write |-> emit.write, remove |-> emit.remove \ {path}, manifest |-> emit.manifest,
                  previous |-> emit.previous, report |-> emit.report ]
<1>1. /\ emit # Idle /\ emit.remove # {}
      /\ disk' = [other \in DOMAIN disk \ {path} |-> disk[other]]
      /\ emit' = [emit EXCEPT !.remove = @ \ {path}]
      /\ UNCHANGED <<source, manifest, bounds, strays>>
  BY DEF RemoveFile
<1>2. EmitFits
  BY <1>1 DEF Emitter
<1>3. path \in emit.remove
  BY <1>1, EmitFields, FirstPathIn
<1>4. path \notin DOMAIN emit.manifest.files /\ path # Shell
  BY <1>2, <1>3 DEF EmitFits
<1> HIDE DEF path
<1>5. emit' = e
  BY <1>1, EmitFields
<1>6. /\ e.write = emit.write /\ e.remove = emit.remove \ {path} /\ e.manifest = emit.manifest
      /\ e.previous = emit.previous /\ e.report = emit.report
  OBVIOUS
<1>7. e \in Emit
  BY <1>1, EmitFields DEF Emit
<1> HIDE DEF e
<1>8. DOMAIN disk' = DOMAIN disk \ {path} /\ \A other \in DOMAIN disk' : disk'[other] = disk[other]
  BY <1>1
<1>9. DirectoryOK'
  BY <1>1, <1>4, <1>5, <1>7, <1>8 DEF DirectoryOK
<1>10. EmitFits'
  <2>1. ASSUME NEW other \in DOMAIN e.manifest.files \ e.write
        PROVE  Holds(disk', other, e.manifest.files[other])
    BY <1>2, <1>4, <1>6, <1>8 DEF EmitFits, Holds
  <2>2. DOMAIN disk' \subseteq DOMAIN e.manifest.files \cup e.remove \cup {Shell} \cup strays
    BY <1>2, <1>6, <1>8 DEF EmitFits
  <2> QED BY <1>1, <1>2, <1>5, <1>6, <2>1, <2>2 DEF EmitFits, Holds
<1> QED BY <1>5, <1>7, <1>9, <1>10, AbsenceAssumption DEF Emitter

(* The manifest is written once the directory holds what it lists. *)
LEMMA WriteManifestStep ==
    ASSUME DirectoryOK, Emitter, WriteManifest
    PROVE  /\ DirectoryOK' /\ Emitter'
           /\ \A path \in DOMAIN emit.manifest.files : Holds(disk', path, emit.manifest.files[path])
           /\ DOMAIN disk' \subseteq DOMAIN emit.manifest.files \cup {Shell} \cup strays'
<1>1. /\ emit # Idle /\ emit.write = {} /\ emit.remove = {} /\ manifest' = emit.manifest
      /\ strays' = strays \ DOMAIN emit.manifest.files /\ emit' = Idle
      /\ UNCHANGED <<source, disk, bounds>>
  BY DEF WriteManifest
<1>2. EmitFits
  BY <1>1 DEF Emitter
<1>3. emit.manifest \in Emitted
  BY <1>1, EmitFields
<1>4. emit.manifest \in Previous /\ PreviousFiles(emit.manifest) = emit.manifest.files
  BY <1>3, ManifestValues DEF Previous, Manifest
<1>5. /\ \A path \in DOMAIN emit.manifest.files : Holds(disk, path, emit.manifest.files[path])
      /\ DOMAIN disk \subseteq DOMAIN emit.manifest.files \cup {Shell} \cup strays'
  BY <1>1, <1>2 DEF EmitFits
<1>6. DirectoryOK'
  BY <1>1, <1>4 DEF DirectoryOK
<1>7. PreviousFiles(manifest)' = emit.manifest.files
  BY <1>1, <1>4 DEF PreviousFiles
<1>8. Listed'
  BY <1>1, <1>5, <1>7 DEF Listed
<1> QED BY <1>1, <1>5, <1>6, <1>8 DEF Emitter, Holds

(* What an emit that stopped leaves is either listed or known to be stray. *)
LEMMA CrashStep ==
    ASSUME DirectoryOK, Emitter, Crash
    PROVE  DirectoryOK' /\ Emitter' /\ bounds'.crashes # bounds.crashes
<1>1. /\ emit # Idle
      /\ strays' = strays \cup Unlisted(PreviousFiles(manifest))' /\ emit' = Idle
      /\ bounds' = [bounds EXCEPT !.crashes = @ + 1] /\ UNCHANGED source
  BY DEF Crash
<1>2. \/ UNCHANGED <<disk, manifest>>
      \/ emit.write # {} /\ disk' = Onto(File(FirstPath(emit.write), Torn), disk) /\ UNCHANGED manifest
      \/ manifest' = NoManifest /\ UNCHANGED disk
  BY DEF Crash
<1>3. manifest' \in Previous
  BY <1>2 DEF Previous, DirectoryOK
<1>4. DOMAIN disk' \subseteq Path /\ Shell \in DOMAIN disk'
  <2>1. CASE disk' = disk
    BY <2>1 DEF DirectoryOK
  <2>2. CASE emit.write # {} /\ disk' = Onto(File(FirstPath(emit.write), Torn), disk)
    <3>1. FirstPath(emit.write) \in Path
      BY <1>1, <2>2, EmitFields, FirstPathIn
    <3> QED BY <2>2, <3>1 DEF DirectoryOK, Onto, File
  <2> QED BY <1>2, <2>1, <2>2
<1>5. Unlisted(PreviousFiles(manifest))' =
        {path \in DOMAIN disk' : path # Shell /\ path \notin DOMAIN PreviousFiles(manifest)'}
  BY DEF Unlisted, IsOwned
<1>6. DirectoryOK'
  BY <1>1, <1>3, <1>4, <1>5 DEF DirectoryOK
<1>7. Listed'
  BY <1>1, <1>5 DEF Listed
<1> QED BY <1>1, <1>6, <1>7 DEF Emitter, DirectoryOK

(* Hands change what a file holds, and what the manifest says of it. *)
LEMMA EditStep ==
    ASSUME DirectoryOK, Emitter, HandEdit
    PROVE  DirectoryOK' /\ Emitter' /\ emit = Idle
<1>1. /\ emit = Idle /\ bounds' = [bounds EXCEPT !.edits = @ + 1]
      /\ UNCHANGED <<source, emit, strays>>
  BY DEF HandEdit
<1>2. Listed
  BY <1>1 DEF Emitter
<1>3. DOMAIN disk' = DOMAIN disk
  BY DEF HandEdit
<1>4. manifest' \in Previous /\ DOMAIN PreviousFiles(manifest) \subseteq DOMAIN PreviousFiles(manifest)'
  <2>1. CASE manifest' = manifest
    BY <2>1 DEF DirectoryOK, PreviousFiles
  <2>2. CASE manifest # NoManifest /\ manifest' = Damaged(manifest)
    <3>1. manifest \in Manifest
      BY <2>2 DEF DirectoryOK, Previous
    <3>2. /\ Damaged(manifest) \in Manifest /\ DOMAIN Damaged(manifest).files = {Shell} \cup DOMAIN manifest.files
      BY <3>1, ManifestValues
    <3>3. PreviousFiles(manifest)' = Damaged(manifest).files /\ PreviousFiles(manifest) = manifest.files
      BY <2>2, <3>1, <3>2, ManifestValues DEF PreviousFiles
    <3> QED BY <2>2, <3>2, <3>3 DEF Previous
  <2> QED BY <2>1, <2>2 DEF HandEdit
<1>5. DirectoryOK'
  BY <1>1, <1>3, <1>4 DEF DirectoryOK
<1> QED BY <1>1, <1>2, <1>3, <1>4, <1>5 DEF Emitter, Listed

(***************************************************************************)
(* Sites                                                                   *)
(***************************************************************************)

(* A site is a render and the site's own file. *)
LEMMA SiteValues ==
    ASSUME NEW src \in Source
    PROVE  /\ DOMAIN Site(src) = DOMAIN Render(src, FALSE) \cup {Shell}
           /\ DOMAIN Site(src) \subseteq Path /\ Index \in DOMAIN Site(src)
           /\ Site(src)[Shell] = "shell"
           /\ \A path \in DOMAIN Render(src, FALSE) : Site(src)[path] = Render(src, FALSE)[path]
           /\ Site(src) = [path \in DOMAIN Site(src) |-> Site(src)[path]]
<1> DEFINE files == Render(src, FALSE)
<1>1. DOMAIN files \subseteq Path \ {Shell} /\ Index \in DOMAIN files
  BY RenderValues
<1>2. DOMAIN EmptySite.files = {Shell} /\ EmptySite.files[Shell] = "shell"
  BY FileValue DEF EmptySite
<1>3. Site(src) = Onto(files, EmptySite.files)
  BY DEF Site
<1> HIDE DEF files
<1>4. /\ DOMAIN Site(src) = DOMAIN files \cup {Shell}
      /\ Site(src)[Shell] = "shell"
      /\ \A path \in DOMAIN files : Site(src)[path] = files[path]
      /\ Site(src) = [path \in DOMAIN Site(src) |-> Site(src)[path]]
  BY <1>1, <1>2, <1>3 DEF Onto
<1> QED BY <1>1, <1>4, FilesDiffer DEF files

LEMMA CheckoutValues ==
    ASSUME NEW u \in Checkout
    PROVE  /\ u = [files |-> u.files, manifest |-> u.manifest]
           /\ DOMAIN u.files \subseteq Path
           /\ u = EmptySite \/ \E src \in Source : u.files = Site(src)
           /\ u.files = [path \in DOMAIN u.files |-> u.files[path]]
<1>1. CASE u = EmptySite
  <2>1. EmptySite.files = File(Shell, "shell") /\ EmptySite = [files |-> EmptySite.files, manifest |-> EmptySite.manifest]
    BY DEF EmptySite
  <2>2. DOMAIN EmptySite.files = {Shell}
        /\ EmptySite.files = [path \in DOMAIN EmptySite.files |-> EmptySite.files[path]]
    BY <2>1 DEF File
  <2> QED BY <1>1, <2>1, <2>2, FilesDiffer
<1>2. CASE u # EmptySite
  <2>1. u \in [ files : {Site(src) : src \in Source}, manifest : {NextManifest(src, FALSE) : src \in Source} ]
    BY <1>2 DEF Checkout
  <2>2. u = [files |-> u.files, manifest |-> u.manifest] /\ \E src \in Source : u.files = Site(src)
    BY <2>1
  <2> QED BY <2>2, SiteValues
<1> QED BY <1>1, <1>2

(* The index of a site says what every other file of it holds. *)
LEMMA IndexDecides ==
    ASSUME NEW u \in Checkout, NEW v \in Checkout, FileOf(u, Index) = FileOf(v, Index)
    PROVE  u.files = v.files
<1>1. Index \notin DOMAIN EmptySite.files
  BY FileValue, FilesDiffer DEF EmptySite
<1>2. CASE u = EmptySite \/ v = EmptySite
  <2>1. Index \notin DOMAIN u.files /\ Index \notin DOMAIN v.files
    BY <1>1, <1>2 DEF FileOf
  <2> QED BY <2>1, CheckoutValues, SiteValues
<1>3. ASSUME NEW s \in Source, NEW t \in Source, u.files = Site(s), v.files = Site(t)
      PROVE  u.files = v.files
  <2> DEFINE index == Site(s)[Index]
  <2>1. Site(t)[Index] = index
    <3>1. FileOf(u, Index) = {index} /\ FileOf(v, Index) = {Site(t)[Index]}
      BY <1>3, SiteValues DEF FileOf
    <3> QED BY <3>1
  <2>2. Render(s, FALSE)[Index] = index /\ Render(t, FALSE)[Index] = index
    BY <2>1, RenderValues, SiteValues
  <2> HIDE DEF index
  <2>3. Selected(s, FALSE) = DOMAIN index /\ Selected(t, FALSE) = DOMAIN index
    BY <2>2, RenderValues
  <2> DEFINE rendered == ({"src/content", "public"} \X DOMAIN index) \cup {Index}
  <2>4. DOMAIN Render(s, FALSE) = rendered /\ DOMAIN Render(t, FALSE) = rendered
    BY <2>3, RenderValues
  <2>5. ASSUME NEW path \in rendered
        PROVE  Render(s, FALSE)[path] = Render(t, FALSE)[path]
    <3>1. CASE path = Index
      BY <2>2, <3>1
    <3>2. CASE path # Index
      <4>1. PICK out \in {"src/content", "public"}, p \in DOMAIN index : path = <<out, p>>
        BY <3>2
      <4>2. \A src \in Source : \A o \in {"src/content", "public"}, q \in Selected(src, FALSE) :
              Render(src, FALSE)[<<o, q>>] = Render(src, FALSE)[Index][q]
        BY RenderValues
      <4>3. Render(s, FALSE)[<<out, p>>] = index[p] /\ Render(t, FALSE)[<<out, p>>] = index[p]
        BY <2>2, <2>3, <4>2
      <4> QED BY <4>1, <4>3
    <3> QED BY <3>1, <3>2
  <2> HIDE DEF rendered
  <2>6. /\ DOMAIN Site(s) = rendered \cup {Shell} /\ DOMAIN Site(t) = rendered \cup {Shell}
        /\ \A path \in rendered \cup {Shell} : Site(s)[path] = Site(t)[path]
    BY <2>4, <2>5, SiteValues
  <2>7. Site(s) = Site(t)
    BY <2>6, SiteValues
  <2> QED BY <1>3, <2>7
<1> QED BY <1>2, <1>3, CheckoutValues

(***************************************************************************)
(* Delivery                                                                *)
(***************************************************************************)

(* What a publish emit into a fresh checkout gives is the site of its       *)
(* content, whatever the manifest it was seeded with lists.                 *)
LEMMA EmittedTree ==
    ASSUME NEW src \in Source, NEW previous
    PROVE  LET next == NextManifest(src, FALSE)
               dir  == EmptySite.files
               plan == PlanSync(next.files, previous, dir)
               kept == [path \in DOMAIN dir \ plan.remove |-> dir[path]]
               tree == Onto([path \in plan.write |-> next.files[path]], kept)
           IN  tree = Site(src)
<1> DEFINE next == NextManifest(src, FALSE)
           dir  == EmptySite.files
           plan == PlanSync(next.files, previous, dir)
           kept == [path \in DOMAIN dir \ plan.remove |-> dir[path]]
           written == [path \in plan.write |-> next.files[path]]
<1>1. next.files = Render(src, FALSE)
  BY DEF NextManifest
<1>2. DOMAIN dir = {Shell} /\ dir = [path \in {Shell} |-> dir[path]]
  BY DEF EmptySite, File
<1>3. /\ plan.write = {path \in DOMAIN next.files : ~Holds(dir, path, next.files[path])}
      /\ Shell \notin plan.remove
  BY DEF PlanSync, IsOwned
<1> HIDE DEF next, dir, plan
<1>4. plan.write = DOMAIN next.files
  BY <1>1, <1>2, <1>3, RenderValues DEF Holds
<1>5. kept = dir
  BY <1>2, <1>3
<1>6. DOMAIN written = DOMAIN next.files /\ \A path \in DOMAIN next.files : written[path] = next.files[path]
  BY <1>4
<1> HIDE DEF kept, written
<1>7. Onto(written, kept) = Onto(next.files, dir)
  BY <1>5, <1>6 DEF Onto
<1> QED BY <1>1, <1>7 DEF Site, written, kept, next, dir, plan

(* What a run is made of, and goes on as. *)
LEMMA RunFields ==
    ASSUME Delivery, run # NoRun
    PROVE  /\ run \in Run /\ run.source \in Source /\ run.base \in Checkout /\ run.tree \in Checkout
           /\ run = [pc |-> run.pc, source |-> run.source, base |-> run.base, tree |-> run.tree]
BY DEF Delivery, Run

(* A run checks out main and upstream, ... *)
LEMMA StartRunStep ==
    ASSUME DirectoryOK, Delivery, StartRun
    PROVE  Delivery'
<1> DEFINE r == [pc |-> "emit", source |-> source, base |-> upstream, tree |-> upstream]
<1>1. /\ pushed' = FALSE /\ run' = r /\ failed' = FALSE
      /\ UNCHANGED <<place, upstream, branch, pr, raced>>
  BY DEF StartRun
<1>2. r \in Run /\ r.pc = "emit"
  BY DEF Run, DirectoryOK, Delivery
<1> HIDE DEF r
<1> QED BY <1>1, <1>2 DEF Delivery

(* ... emits the site of that content, unless it fails, ... *)
LEMMA EmitReadyStep ==
    ASSUME Delivery, EmitReadyPages
    PROVE  Delivery'
<1>1. run # NoRun /\ run.pc = "emit" /\ UNCHANGED <<place, pushed, upstream, branch, pr, raced>>
  BY DEF EmitReadyPages
<1>2. CASE EmitFails(run.source, FALSE)
  <2>1. run' = NoRun /\ failed' = TRUE
    BY <1>2 DEF EmitReadyPages
  <2> QED BY <1>1, <2>1 DEF Delivery
<1>3. CASE ~EmitFails(run.source, FALSE)
  <2> DEFINE next == NextManifest(run.source, FALSE)
             dir  == EmptySite.files
             plan == PlanSync(next.files, run.base.manifest, dir)
             kept == [path \in DOMAIN dir \ plan.remove |-> dir[path]]
             tree == Onto([path \in plan.write |-> next.files[path]], kept)
             site == [files |-> tree, manifest |-> next]
             r == [pc |-> "mirror", source |-> run.source, base |-> run.base, tree |-> site]
  <2>1. run' = [run EXCEPT !.pc = "mirror", !.tree = site] /\ failed' = failed
    BY <1>3 DEF EmitReadyPages
  <2>2. tree = Site(run.source)
    BY <1>1, RunFields, EmittedTree
  <2> HIDE DEF tree
  <2>3. site \in Checkout
    BY <1>1, <2>2, RunFields DEF Checkout
  <2> HIDE DEF site
  <2>4. run' = r
    BY <1>1, <2>1, RunFields
  <2>5. r \in Run /\ r.pc = "mirror"
    BY <1>1, <2>3, RunFields DEF Run
  <2> HIDE DEF r
  <2> QED BY <1>1, <2>1, <2>4, <2>5 DEF Delivery
<1> QED BY <1>2, <1>3

(* ... goes on to push what differs from upstream, ... *)
LEMMA MirrorStep ==
    ASSUME Delivery, MirrorIntoUpstream
    PROVE  Delivery'
<1> DEFINE pc == IF run.tree.files = run.base.files THEN "close" ELSE "push"
           r == [pc |-> pc, source |-> run.source, base |-> run.base, tree |-> run.tree]
<1>1. /\ run # NoRun /\ run' = [run EXCEPT !.tree = run.tree, !.pc = pc]
      /\ UNCHANGED <<place, pushed, upstream, branch, pr, failed, raced>>
  BY DEF MirrorIntoUpstream, Mirrored
<1>2. pc \in {"close", "push"} /\ (pc = "push" => run.tree.files # run.base.files)
  OBVIOUS
<1> HIDE DEF pc
<1>3. run' = r
  BY <1>1, RunFields
<1>4. r \in Run /\ r.pc = pc /\ r.tree = run.tree /\ r.base = run.base
  BY <1>1, <1>2, RunFields DEF Run
<1> HIDE DEF r
<1> QED BY <1>1, <1>2, <1>3, <1>4 DEF Delivery

(* ... has a branch that changes something, ... *)
LEMMA PushBranchStep ==
    ASSUME Delivery, PushBranch
    PROVE  Delivery'
<1> DEFINE b == [tree |-> run.tree, base |-> run.base]
           r == [pc |-> "pr", source |-> run.source, base |-> run.base, tree |-> run.tree]
<1>1. /\ run # NoRun /\ run.pc = "push" /\ run' = [run EXCEPT !.pc = "pr"]
      /\ branch' = (IF branch # NoBranch /\ branch.tree.files = run.tree.files THEN branch ELSE b)
      /\ UNCHANGED <<place, pushed, upstream, pr, failed, raced>>
  BY DEF PushBranch, Goto
<1>2. /\ b \in Branch /\ b.tree.files # b.base.files
  BY <1>1, RunFields DEF Branch, Delivery
<1>3. b # NoBranch
  BY <1>2, SyncAssumption
<1> HIDE DEF b
<1>4. run' = r
  BY <1>1, RunFields
<1>5. r \in Run /\ r.pc = "pr"
  BY <1>1, RunFields DEF Run
<1> HIDE DEF r
<1> QED BY <1>1, <1>2, <1>3, <1>4, <1>5 DEF Delivery

(* ... and ends, whether it opens a pull request, closes one or fails. *)
LEMMA EndRunStep ==
    ASSUME Delivery, OpenPullRequest \/ CloseStalePullRequest \/ FailRun
    PROVE  Delivery'
<1>1. CASE OpenPullRequest
  BY <1>1 DEF OpenPullRequest, Delivery
<1>2. CASE CloseStalePullRequest
  BY <1>2 DEF CloseStalePullRequest, Delivery
<1>3. CASE FailRun
  BY <1>3 DEF FailRun, Delivery
<1> QED BY <1>1, <1>2, <1>3

(* A branch merges as a whole or not at all: if both it and upstream changed *)
(* a site since they parted, both changed its index, so what merges without  *)
(* a conflict is the same site.                                             *)
LEMMA MergedTree ==
    ASSUME Delivery, MergePullRequest
    PROVE  upstream' = branch.tree
<1>1. pr /\ branch # NoBranch
  BY DEF MergePullRequest, Delivery
<1>2. branch.tree \in Checkout /\ branch.base \in Checkout /\ upstream \in Checkout
      /\ branch.tree.files # branch.base.files
  BY <1>1 DEF Delivery, Branch
<1> DEFINE theirs == branch.tree
           base == branch.base
           kept == {path \in Path : FileOf(IF Theirs(path) THEN theirs ELSE upstream, path) # {}}
           files == [path \in kept |-> IF Theirs(path) THEN theirs.files[path] ELSE upstream.files[path]]
<1>3. /\ \A path \in Path : Theirs(path) /\ Ours(path) => FileOf(theirs, path) = FileOf(upstream, path)
      /\ upstream' = [files |-> files, manifest |-> theirs.manifest]
  BY DEF MergePullRequest
<1>4. \A path \in Path : ~Theirs(path) => FileOf(upstream, path) = FileOf(theirs, path)
  <2>1. FileOf(theirs, Index) # FileOf(base, Index)
    BY <1>2, IndexDecides
  <2>2. CASE Ours(Index)
    <3>1. FileOf(theirs, Index) = FileOf(upstream, Index)
      BY <1>3, <2>1, <2>2, FilesDiffer DEF Theirs
    <3>2. theirs.files = upstream.files
      BY <1>2, <3>1, IndexDecides
    <3> QED BY <3>2 DEF FileOf
  <2>3. CASE ~Ours(Index)
    <3>1. upstream.files = base.files
      BY <1>2, <2>3, IndexDecides DEF Ours
    <3> QED BY <3>1 DEF FileOf, Theirs
  <2> QED BY <2>2, <2>3
<1>5. \A u : \A path : (FileOf(u, path) # {} <=> path \in DOMAIN u.files)
                     /\ (path \in DOMAIN u.files => FileOf(u, path) = {u.files[path]})
  BY DEF FileOf
<1>6. DOMAIN theirs.files \subseteq Path /\ theirs.files = [path \in DOMAIN theirs.files |-> theirs.files[path]]
      /\ theirs = [files |-> theirs.files, manifest |-> theirs.manifest]
  BY <1>2, CheckoutValues
<1> HIDE DEF theirs, base
<1>7. kept = DOMAIN theirs.files
  BY <1>4, <1>5, <1>6
<1>8. ASSUME NEW path \in kept
      PROVE  (IF Theirs(path) THEN theirs.files[path] ELSE upstream.files[path]) = theirs.files[path]
  <2> SUFFICES ASSUME ~Theirs(path) PROVE upstream.files[path] = theirs.files[path]
    OBVIOUS
  <2>1. {upstream.files[path]} = {theirs.files[path]}
    BY <1>4, <1>5, <1>7
  <2> QED BY <2>1
<1>9. files = theirs.files
  BY <1>6, <1>7, <1>8
<1> HIDE DEF files
<1> QED BY <1>3, <1>6, <1>9 DEF theirs

LEMMA MergeStep ==
    ASSUME Delivery, MergePullRequest
    PROVE  Delivery'
<1>1. upstream' = branch.tree
  BY MergedTree
<1>2. branch \in Branch
  BY DEF Delivery, MergePullRequest
<1>3. upstream' \in Checkout
  BY <1>1, <1>2 DEF Branch
<1> QED BY <1>3 DEF MergePullRequest, Delivery

(***************************************************************************)
(* The invariant is inductive                                              *)
(***************************************************************************)

(* Delivery does not touch the developer's directory, ... *)
LEMMA DirectoryStays ==
    ASSUME DirectoryOK, Emitter, UNCHANGED siteVars, source' \in Source
    PROVE  DirectoryOK' /\ Emitter'
BY DEF DirectoryOK, Emitter, siteVars, Listed, EmitFits, Holds, PreviousFiles

(* ... and its state is only what these variables say. *)
LEMMA DeliveryStays ==
    ASSUME Delivery, UNCHANGED <<place, upVars>>
    PROVE  Delivery'
BY DEF Delivery, upVars

LEMMA IInvInit == Init => IInv
<1> SUFFICES ASSUME Init PROVE IInv
  OBVIOUS
<1>1. DOMAIN EmptySite.files = {Shell}
  BY FileValue DEF EmptySite
<1>2. DirectoryOK
  BY <1>1, SyncAssumption, FilesDiffer DEF Init, DirectoryOK, Previous
<1>3. Emitter
  BY <1>1 DEF Init, Emitter, Listed
<1>4. Delivery
  BY DEF Init, Delivery, Checkout
<1> QED BY <1>2, <1>3, <1>4 DEF IInv

LEMMA IInvNext == IInv /\ [Next]_vars => IInv'
<1> SUFFICES ASSUME IInv, [Next]_vars PROVE IInv'
  OBVIOUS
<1> USE DEF IInv
<1>1. ASSUME NEW src \in Source, Push(src) PROVE IInv'
  <2>1. source' = src /\ UNCHANGED siteVars
    BY <1>1 DEF Push
  <2>2. Delivery'
    BY <1>1 DEF Push, Delivery
  <2> QED BY <2>1, <2>2, DirectoryStays
<1>5. CASE Dispatch
  <2>1. source' = source /\ source \in Source /\ UNCHANGED siteVars
    BY <1>5 DEF Dispatch, DirectoryOK
  <2>2. Delivery'
    BY <1>5 DEF Dispatch, Delivery
  <2> QED BY <2>1, <2>2, DirectoryStays
<1>2. CASE EmitterNext /\ UNCHANGED <<place, upVars>>
  <2>1. DirectoryOK' /\ Emitter'
    BY <1>2, StartStep, WriteStep, RemoveStep, WriteManifestStep, CrashStep, EditStep
       DEF EmitterNext, EmitStep
  <2> QED BY <1>2, <2>1, DeliveryStays
<1>3. CASE RunStep \/ FailRun \/ MergePullRequest
  <2>1. UNCHANGED <<source, siteVars>>
    BY <1>3 DEF RunStep, StartRun, EmitReadyPages, MirrorIntoUpstream, PushBranch, OpenPullRequest,
                CloseStalePullRequest, FailRun, MergePullRequest
  <2>2. DirectoryOK' /\ Emitter'
    BY <2>1, DirectoryStays DEF DirectoryOK
  <2>3. Delivery'
    BY <1>3, StartRunStep, EmitReadyStep, MirrorStep, PushBranchStep, EndRunStep, MergeStep DEF RunStep
  <2> QED BY <2>2, <2>3
<1>4. CASE UNCHANGED vars
  <2>1. UNCHANGED <<source, siteVars>> /\ UNCHANGED <<place, upVars>>
    BY <1>4 DEF vars
  <2> QED BY <2>1, DirectoryStays, DeliveryStays DEF DirectoryOK
<1> QED BY <1>1, <1>2, <1>3, <1>4, <1>5 DEF Next

(* The invariant holds in every reachable state. *)
THEOREM Inductive == Spec => []IInv
BY IInvInit, IInvNext, PTL DEF Spec

(***************************************************************************)
(* What follows                                                            *)
(***************************************************************************)

(* Directories and branches hold files of the site, and no emit writes or   *)
(* removes the site's own file, whatever a manifest lists.                  *)
THEOREM TypeCorrect == Spec => []TypeOK
<1>1. IInv => TypeOK
  <2> SUFFICES ASSUME IInv PROVE TypeOK
    OBVIOUS
  <2> USE DEF IInv
  <2>1. manifest # NoManifest => DOMAIN manifest.pages \subseteq Page /\ DOMAIN manifest.files \subseteq Path
    BY ManifestValues DEF DirectoryOK, Previous
  <2>2. emit # Idle => Shell \notin emit.write \cup emit.remove
    <3> SUFFICES ASSUME emit # Idle PROVE Shell \notin emit.write \cup emit.remove
      OBVIOUS
    <3>1. DOMAIN emit.manifest.files \subseteq Path \ {Shell}
      BY EmitFields, EmittedValues
    <3> QED BY <3>1 DEF Emitter, EmitFits
  <2>3. run # NoRun => run.pc \in {"emit", "mirror", "push", "pr", "close"}
    BY DEF Delivery, Run
  <2>4. DOMAIN upstream.files \subseteq Path
    BY CheckoutValues DEF Delivery
  <2>5. branch # NoBranch => DOMAIN branch.tree.files \subseteq Path
    BY CheckoutValues DEF Delivery, Branch
  <2> QED BY <2>1, <2>2, <2>3, <2>4, <2>5 DEF TypeOK, DirectoryOK, Delivery
<1> QED BY <1>1, Inductive, PTL

(* What is upstream is the site of one content in every file, whichever     *)
(* branch was merged over which main.                                       *)
THEOREM UpstreamStaysOneSite == Spec => []UpstreamIsOneSite
<1>1. IInv => UpstreamIsOneSite
  BY CheckoutValues DEF IInv, Delivery, UpstreamIsOneSite
<1> QED BY <1>1, Inductive, PTL

(* An emit that ends has put every file it renders right, and has left      *)
(* nothing else but the site's own file and what is known to be stray.      *)
THEOREM EmitRepairs == Spec => EmitRepairsSite
<1> DEFINE Repairs ==
             EmitEnds =>
               /\ \A path \in DOMAIN emit.manifest.files : Holds(disk', path, emit.manifest.files[path])
               /\ DOMAIN disk' \subseteq DOMAIN emit.manifest.files \cup {Shell} \cup strays'
<1>1. IInv /\ [Next]_vars => [Repairs]_vars
  <2> SUFFICES ASSUME IInv, [Next]_vars, EmitEnds PROVE Repairs
    OBVIOUS
  <2> USE DEF IInv
  <2>1. emit # Idle /\ emit' = Idle /\ bounds'.crashes = bounds.crashes
    BY DEF EmitEnds
  <2>2. emit' # emit
    BY <2>1
  <2>3. EmitterNext
    BY <2>2 DEF Next, vars, siteVars, Push, Dispatch, RunStep, StartRun, EmitReadyPages, MirrorIntoUpstream,
           PushBranch, OpenPullRequest, CloseStalePullRequest, FailRun, MergePullRequest
  <2>4. ASSUME NEW drafts \in BOOLEAN PROVE ~StartEmit(drafts)
    BY <2>1 DEF StartEmit
  <2>5. ~WriteFile /\ ~RemoveFile /\ ~Crash /\ ~HandEdit
    BY <2>1, WriteStep, RemoveStep, CrashStep, EditStep
  <2>6. WriteManifest
    BY <2>3, <2>4, <2>5 DEF EmitterNext, EmitStep
  <2> QED BY <2>6, WriteManifestStep
<1> QED BY <1>1, Inductive, PTL DEF Spec, EmitRepairsSite

(***************************************************************************)
(* The change report                                                       *)
(***************************************************************************)

(* The renames found up to a page follow from those found before it. *)
Extended(before, after, found, i) ==
    IF i = 0 THEN [renamed |-> {}, added |-> DOMAIN after \ DOMAIN before]
    ELSE IF PageOrder[i] \in DOMAIN before \ DOMAIN after
    THEN Pair(before, after, found[i - 1], PageOrder[i])
    ELSE found[i - 1]

LEMMA PairingsExist ==
    ASSUME NEW before, NEW after, NEW n \in Nat
    PROVE  \E found : found = [i \in 0 .. n |-> Extended(before, after, found, i)]
<1> DEFINE Has(m) == \E found : found = [i \in 0 .. m |-> Extended(before, after, found, i)]
           lacking == {m \in Nat : ~Has(m)}
<1> SUFFICES ASSUME lacking # {} PROVE FALSE
  OBVIOUS
<1>1. lacking \in SUBSET Nat
  OBVIOUS
<1>2. PICK m \in lacking : \A k \in lacking : m <= k
  BY <1>1, LeastExists
<1>3. CASE m = 0
  <2> DEFINE found == [i \in 0 .. 0 |-> [renamed |-> {}, added |-> DOMAIN after \ DOMAIN before]]
  <2>1. found = [i \in 0 .. 0 |-> Extended(before, after, found, i)]
    BY DEF Extended
  <2> QED BY <1>2, <1>3, <2>1
<1>4. CASE m # 0
  <2>1. m - 1 \in Nat /\ m - 1 \notin lacking
    BY <1>2, <1>4
  <2>2. PICK less : less = [i \in 0 .. (m - 1) |-> Extended(before, after, less, i)]
    BY <2>1
  <2> DEFINE found == [i \in 0 .. m |-> Extended(before, after, less, i)]
  <2>3. ASSUME NEW i \in 0 .. (m - 1) PROVE found[i] = less[i]
    BY <2>2
  <2>4. ASSUME NEW i \in 0 .. m
        PROVE  Extended(before, after, less, i) = Extended(before, after, found, i)
    <3>1. CASE i = 0
      BY <3>1 DEF Extended
    <3>2. CASE i # 0
      <4>1. found[i - 1] = less[i - 1]
        <5>1. i - 1 \in 0 .. (m - 1)
          BY <1>2, <3>2
        <5> HIDE DEF found
        <5> QED BY <2>3, <5>1
      <4> HIDE DEF found
      <4> QED BY <3>2, <4>1 DEF Extended
    <3> QED BY <3>1, <3>2
  <2>5. found = [i \in 0 .. m |-> Extended(before, after, found, i)]
    BY <2>4
  <2> QED BY <1>2, <2>5
<1> QED BY <1>3, <1>4

LEMMA PairingsValue ==
    ASSUME NEW before, NEW after
    PROVE  Pairings(before, after) =
             [i \in 0 .. Len(PageOrder) |-> Extended(before, after, Pairings(before, after), i)]
<1>1. Len(PageOrder) \in Nat
  BY PageAssumption
<1>2. \E found : found = [i \in 0 .. Len(PageOrder) |-> Extended(before, after, found, i)]
  BY <1>1, PairingsExist
<1> QED BY <1>2 DEF Pairings, Extended

(* Renames pair a page that went with one that came, each at most once, and *)
(* what came and is in no pair was added.                                   *)
Paired(before, after, found, i) ==
    /\ \A pair \in found.renamed :
          \E from \in DOMAIN before \ DOMAIN after, to \in DOMAIN after \ DOMAIN before, j \in 1 .. i :
              pair = <<from, to>> /\ from = PageOrder[j]
    /\ \A one, other \in found.renamed : one[1] = other[1] \/ one[2] = other[2] => one = other
    /\ found.added = (DOMAIN after \ DOMAIN before) \ {pair[2] : pair \in found.renamed}

LEMMA PairStep ==
    ASSUME NEW before, NEW after, DOMAIN after \subseteq Page,
           NEW found, NEW i \in 1 .. Len(PageOrder),
           Paired(before, after, found, i - 1), PageOrder[i] \in DOMAIN before \ DOMAIN after
    PROVE  Paired(before, after, Pair(before, after, found, PageOrder[i]), i)
<1> DEFINE from == PageOrder[i]
           same == {k \in found.added : after[k].contentHash = before[from].contentHash}
           to == FirstPage(same)
           next == [ renamed |-> found.renamed \cup {<<from, to>>}, added |-> found.added \ {to} ]
           gone == DOMAIN before \ DOMAIN after
           came == DOMAIN after \ DOMAIN before
<1>1. Len(PageOrder) \in Nat /\ DOMAIN PageOrder = 1 .. Len(PageOrder)
  BY PageAssumption
<1>2. \A pair \in found.renamed :
         \E old \in gone, new \in came, j \in 1 .. i : pair = <<old, new>> /\ old = PageOrder[j]
  BY <1>1 DEF Paired
<1>3. CASE same = {}
  BY <1>2, <1>3 DEF Pair, Paired
<1>4. CASE same # {}
  <2>1. Pair(before, after, found, from) = next
    BY <1>4 DEF Pair
  <2>2. to \in same
    BY <1>4, FirstPageIn DEF Paired
  <2>3. to \in found.added /\ to \in came
    BY <2>2 DEF Paired
  <2> HIDE DEF to, same
  <2>4. ASSUME NEW pair \in found.renamed
        PROVE  pair[1] # from /\ pair[2] # to
    <3>1. PICK old \in gone, new \in came, j \in 1 .. (i - 1) : pair = <<old, new>> /\ old = PageOrder[j]
      BY DEF Paired
    <3>2. j # i /\ j \in DOMAIN PageOrder /\ i \in DOMAIN PageOrder
      BY <1>1
    <3>3. pair[1] # from
      BY <3>1, <3>2, PageAssumption
    <3>4. pair[2] # to
      BY <2>3 DEF Paired
    <3> QED BY <3>3, <3>4
  <2>5. next.renamed = found.renamed \cup {<<from, to>>} /\ next.added = found.added \ {to}
    OBVIOUS
  <2> HIDE DEF next
  <2>6. ASSUME NEW pair \in next.renamed
        PROVE  \E old \in gone, new \in came, j \in 1 .. i : pair = <<old, new>> /\ old = PageOrder[j]
    <3>1. CASE pair \in found.renamed
      BY <1>2, <3>1
    <3>2. CASE pair = <<from, to>>
      BY <1>1, <2>3, <3>2
    <3> QED BY <2>5, <3>1, <3>2
  <2>7. ASSUME NEW one \in next.renamed, NEW other \in next.renamed,
               one[1] = other[1] \/ one[2] = other[2]
        PROVE  one = other
    <3>1. <<from, to>>[1] = from /\ <<from, to>>[2] = to
      OBVIOUS
    <3>2. (one \in found.renamed \/ one = <<from, to>>) /\ (other \in found.renamed \/ other = <<from, to>>)
      BY <2>5
    <3> HIDE DEF from
    <3> QED BY <2>4, <2>7, <3>1, <3>2 DEF Paired
  <2>8. next.added = came \ {pair[2] : pair \in next.renamed}
    <3>0. <<from, to>>[2] = to
      OBVIOUS
    <3> HIDE DEF from
    <3>1. {pair[2] : pair \in next.renamed} = {pair[2] : pair \in found.renamed} \cup {to}
      BY <2>5, <3>0
    <3> QED BY <2>5, <3>1 DEF Paired
  <2> QED BY <2>1, <2>6, <2>7, <2>8 DEF Paired
<1> QED BY <1>3, <1>4

LEMMA PairingsPair ==
    ASSUME NEW before, NEW after, DOMAIN after \subseteq Page
    PROVE  Paired(before, after, Pairings(before, after)[Len(PageOrder)], Len(PageOrder))
<1> DEFINE n == Len(PageOrder)
           found == Pairings(before, after)
           wrong == {i \in 0 .. n : ~Paired(before, after, found[i], i)}
<1>1. n \in Nat
  BY PageAssumption
<1>2. ASSUME NEW i \in 0 .. n PROVE found[i] = Extended(before, after, found, i)
  BY PairingsValue
<1> HIDE DEF found
<1> SUFFICES ASSUME wrong # {} PROVE FALSE
  BY <1>1 DEF found
<1>3. wrong \in SUBSET Nat
  OBVIOUS
<1>4. PICK i \in wrong : \A j \in wrong : i <= j
  BY <1>3, LeastExists
<1>5. i \in 0 .. n /\ ~Paired(before, after, found[i], i)
  OBVIOUS
<1>6. i # 0
  <2> SUFFICES ASSUME i = 0 PROVE FALSE
    OBVIOUS
  <2>1. found[0] = [renamed |-> {}, added |-> DOMAIN after \ DOMAIN before]
    BY <1>2, <1>5 DEF Extended
  <2> QED BY <1>5, <2>1 DEF Paired
<1>7. i - 1 \in 0 .. n /\ i - 1 \notin wrong /\ i \in 1 .. n
  BY <1>1, <1>4, <1>5, <1>6
<1>8. Paired(before, after, found[i - 1], i - 1)
  BY <1>7
<1>9. CASE PageOrder[i] \in DOMAIN before \ DOMAIN after
  <2>1. found[i] = Pair(before, after, found[i - 1], PageOrder[i])
    BY <1>2, <1>5, <1>6, <1>9 DEF Extended
  <2> QED BY <1>5, <1>7, <1>8, <1>9, <2>1, PairStep
<1>10. CASE PageOrder[i] \notin DOMAIN before \ DOMAIN after
  <2>1. found[i] = found[i - 1]
    BY <1>2, <1>5, <1>6, <1>10 DEF Extended
  <2>2. 1 .. (i - 1) \subseteq 1 .. i
    BY <1>7
  <2> QED BY <1>5, <1>8, <2>1, <2>2 DEF Paired
<1> QED BY <1>9, <1>10

(* What the report says of each kind of page. *)
LEMMA ReportValues ==
    ASSUME NEW old \in Previous, NEW new \in Emitted
    PROVE  LET report == DiffPages(old, new)
               before == PreviousPages(old)
               after  == new.pages
               gone   == DOMAIN before \ DOMAIN after
               came   == DOMAIN after \ DOMAIN before
               kept   == DOMAIN before \cap DOMAIN after
           IN  /\ report.added = came \ {pair[2] : pair \in report.renamed}
               /\ report.removed = gone \ {pair[1] : pair \in report.renamed}
               /\ \A pair \in report.renamed :
                     \E from \in gone, to \in came : pair[1] = from /\ pair[2] = to
               /\ \A one, other \in report.renamed :
                     one[1] = other[1] \/ one[2] = other[2] => one = other
               /\ report.changed = {p \in kept : before[p] # after[p]}
               /\ report.renderOnly =
                     {p \in kept \ report.changed : \E out \in {"src/content", "public"} :
                         PreviousFiles(old)[<<out, p>>] # new.files[<<out, p>>]}
<1> DEFINE report == DiffPages(old, new)
           before == PreviousPages(old)
           after  == new.pages
           paired == Pairings(before, after)[Len(PageOrder)]
<1>1. Paired(before, after, paired, Len(PageOrder))
  BY EmittedValues, PairingsPair
<1>2. /\ report.added = paired.added /\ report.renamed = paired.renamed
      /\ report.removed = (DOMAIN before \ DOMAIN after) \ {pair[1] : pair \in paired.renamed}
      /\ report.changed = {p \in DOMAIN before \cap DOMAIN after : before[p] # after[p]}
      /\ report.renderOnly =
            {p \in (DOMAIN before \cap DOMAIN after) \ report.changed : \E out \in {"src/content", "public"} :
                PreviousFiles(old)[<<out, p>>] # new.files[<<out, p>>]}
  BY DEF DiffPages
<1> HIDE DEF report, before, after, paired
<1>3. \A pair \in paired.renamed :
        \E from \in DOMAIN before \ DOMAIN after, to \in DOMAIN after \ DOMAIN before :
            pair[1] = from /\ pair[2] = to
  BY <1>1 DEF Paired
<1> QED BY <1>1, <1>2, <1>3 DEF Paired, report, before, after

(* Every page is in one class of the report, or is the same as it was. *)
LEMMA OneClass ==
    ASSUME NEW old \in Previous, NEW new \in Emitted,
           NEW p \in DOMAIN PreviousPages(old) \cup DOMAIN new.pages
    PROVE  Cardinality(Classes(DiffPages(old, new), p)) = IF SamePage(p, old, new) THEN 0 ELSE 1
<1> DEFINE report == DiffPages(old, new)
           before == PreviousPages(old)
           after  == new.pages
           named  == {name \in {"added", "removed", "changed", "renderOnly"} : p \in report[name]}
           pairs  == {pair \in report.renamed : p \in {pair[1], pair[2]}}
<1>1. /\ report.added = (DOMAIN after \ DOMAIN before) \ {pair[2] : pair \in report.renamed}
      /\ report.removed = (DOMAIN before \ DOMAIN after) \ {pair[1] : pair \in report.renamed}
      /\ \A pair \in report.renamed : /\ pair[1] \in DOMAIN before \ DOMAIN after
                                       /\ pair[2] \in DOMAIN after \ DOMAIN before
      /\ \A one, other \in report.renamed : one[1] = other[1] \/ one[2] = other[2] => one = other
      /\ report.changed = {q \in DOMAIN before \cap DOMAIN after : before[q] # after[q]}
      /\ report.renderOnly =
            {q \in (DOMAIN before \cap DOMAIN after) \ report.changed : \E out \in {"src/content", "public"} :
                PreviousFiles(old)[<<out, q>>] # new.files[<<out, q>>]}
  BY ReportValues
<1>2. Classes(report, p) = named \cup {<<pair>> : pair \in pairs}
  BY DEF Classes
<1>3. SamePage(p, old, new) <=>
        /\ p \in DOMAIN before \cap DOMAIN after /\ before[p] = after[p]
        /\ \A out \in {"src/content", "public"} : Holds(PreviousFiles(old), <<out, p>>, new.files[<<out, p>>])
  BY DEF SamePage
<1>4. p \in DOMAIN before => \A out \in {"src/content", "public"} : <<out, p>> \in DOMAIN PreviousFiles(old)
  <2>1. CASE old = NoManifest
    BY <2>1 DEF PreviousPages
  <2>2. CASE old \in Manifest
    BY <2>2, ManifestValues
  <2> QED BY <2>1, <2>2 DEF Previous
<1> HIDE DEF report
<1>5. /\ "added" \in named <=> p \in report.added
      /\ "removed" \in named <=> p \in report.removed
      /\ "changed" \in named <=> p \in report.changed
      /\ "renderOnly" \in named <=> p \in report.renderOnly
      /\ named \subseteq {"added", "removed", "changed", "renderOnly"}
  OBVIOUS
<1> HIDE DEF named
<1>6. \A c : Cardinality({c}) = 1
  BY FS_Singleton
<1>7. Cardinality({}) = 0
  BY FS_EmptySet
<1>8. CASE p \in DOMAIN before \cap DOMAIN after
  <2>1. pairs = {}
    BY <1>1, <1>8
  <2>2. Classes(report, p) = named
    BY <1>2, <2>1
  <2>3. named \subseteq {"changed", "renderOnly"}
    BY <1>1, <1>5, <1>8
  <2>4. CASE before[p] # after[p]
    <3>1. named = {"changed"}
      BY <1>1, <1>5, <1>8, <2>3, <2>4
    <3> QED BY <1>3, <1>6, <2>2, <2>4, <3>1 DEF report
  <2>5. CASE before[p] = after[p] /\ \E out \in {"src/content", "public"} :
                PreviousFiles(old)[<<out, p>>] # new.files[<<out, p>>]
    <3>1. named = {"renderOnly"}
      BY <1>1, <1>5, <1>8, <2>3, <2>5
    <3>2. ~SamePage(p, old, new)
      BY <1>3, <2>5 DEF Holds
    <3> QED BY <1>6, <2>2, <3>1, <3>2 DEF report
  <2>6. CASE before[p] = after[p] /\ \A out \in {"src/content", "public"} :
                PreviousFiles(old)[<<out, p>>] = new.files[<<out, p>>]
    <3>1. named = {}
      BY <1>1, <1>5, <1>8, <2>3, <2>6
    <3>2. SamePage(p, old, new)
      BY <1>3, <1>4, <1>8, <2>6 DEF Holds
    <3> QED BY <1>7, <2>2, <3>1, <3>2 DEF report
  <2> QED BY <2>4, <2>5, <2>6
<1>9. CASE p \notin DOMAIN before \cap DOMAIN after
  <2>1. ~SamePage(p, old, new)
    BY <1>3, <1>9
  <2>2. \A one, other \in pairs : one = other
    BY <1>1, <1>9
  <2>3. CASE pairs = {}
    <3>1. named = {"added"} \/ named = {"removed"}
      <4>1. \A pair \in report.renamed : pair[1] # p /\ pair[2] # p
        BY <2>3
      <4>2. p \notin report.changed /\ p \notin report.renderOnly
        BY <1>1, <1>9
      <4>3. CASE p \in DOMAIN after \ DOMAIN before
        <5>1. p \in report.added /\ p \notin report.removed
          BY <1>1, <4>1, <4>3
        <5> QED BY <1>5, <4>2, <5>1
      <4>4. CASE p \in DOMAIN before \ DOMAIN after
        <5>1. p \in report.removed /\ p \notin report.added
          BY <1>1, <4>1, <4>4
        <5> QED BY <1>5, <4>2, <5>1
      <4> QED BY <1>9, <4>3, <4>4
    <3> QED BY <1>2, <1>6, <2>1, <2>3, <3>1 DEF report
  <2>4. CASE pairs # {}
    <3>1. PICK pair \in pairs : pairs = {pair}
      BY <2>2, <2>4
    <3>2. named = {}
      BY <1>1, <1>5, <1>9, <3>1
    <3>3. Classes(report, p) = {<<pair>>}
      BY <1>2, <3>1, <3>2
    <3> QED BY <1>6, <2>1, <3>3 DEF report
  <2> QED BY <2>3, <2>4
<1> QED BY <1>8, <1>9

(* The change report accounts for every page once. *)
THEOREM ReportIsComplete == Spec => []ReportAccounts
<1>1. IInv => ReportAccounts
  BY EmitFields, OneClass DEF IInv, Emitter, EmitFits, ReportAccounts
<1> QED BY <1>1, Inductive, PTL
=============================================================================
