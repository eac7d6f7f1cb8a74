----------------------------- MODULE ToolProofs -----------------------------
(***************************************************************************)
(* Proofs about the parts of ToolExecutor: a patch (PatchTool), for any     *)
(* files and patches; a command (CommandTool), for every set of processes,  *)
(* whichever of them are deaf or detached, and every capacity of the pipe;  *)
(* and the report of a turn (TurnReport), for every workspace and order of  *)
(* its files, any limits, and any number of commands, patches and writes.   *)
(***************************************************************************)
EXTENDS PatchTool, CommandTool, TurnReport, SequenceFacts, FiniteSetTheorems

(* Patches. *)

(* Sequences one after the other are a sequence. *)
LEMMA FlatIsSequence ==
  ASSUME NEW seqs, IsSequence(seqs), \A i \in DOMAIN seqs : IsSequence(seqs[i])
  PROVE  IsSequence(FlattenSeq(seqs))
<1> DEFINE m == Len(seqs)
<1>1. m \in Nat /\ DOMAIN seqs = 1..m
  BY SequencesAre
<1>2. CASE m = 0
  BY <1>2, ShortSequences DEF FlattenSeq
<1>3. CASE m # 0
  <2>1. \E f : Flattens(f, seqs, m)
    BY <1>1, FlattensExists
  <2>2. m - 1 \in Nat /\ (m - 1) + 1 = m
    BY <1>1, <1>3
  <2>3. PICK f : Flattens(f, seqs, m) /\ FlattenSeq(seqs) = f[m]
    BY <1>3, <2>1, Zenon DEF FlattenSeq, Flattens
  <2> DEFINE U == {n \in Nat : n < m => IsSequence(f[n + 1])}
  <2>4. 0 \in U
    BY <1>1, <1>3, <2>3 DEF Flattens
  <2>5. ASSUME NEW n \in U PROVE n + 1 \in U
    <3> SUFFICES ASSUME n + 1 < m PROVE IsSequence(f[(n + 1) + 1])
      OBVIOUS
    <3>1. (n + 1) + 1 \in 1..m /\ (n + 1) + 1 # 1 /\ ((n + 1) + 1) - 1 = n + 1 /\ n < m
      BY <1>1
    <3>2. f[(n + 1) + 1] = f[n + 1] \o seqs[(n + 1) + 1]
      BY <2>3, <3>1 DEF Flattens
    <3>3. IsSequence(f[n + 1]) /\ IsSequence(seqs[(n + 1) + 1])
      BY <1>1, <3>1
    <3> QED BY <3>2, <3>3, SequencesAre
  <2>6. U = Nat
    <3>1. U \in SUBSET Nat
      OBVIOUS
    <3> HIDE DEF U
    <3> QED BY <2>4, <2>5, <3>1, Induction
  <2>7. IsSequence(f[(m - 1) + 1])
    <3>1. m - 1 \in U /\ m - 1 < m
      BY <1>1, <2>2, <2>6
    <3> QED BY <3>1
  <2> QED BY <2>2, <2>3, <2>7
<1> QED BY <1>2, <1>3

(* What the model means becomes a text. *)
LEMMA OfferIsText ==
  ASSUME NEW offer \in Offers
  PROVE  IsSequence(ToUnifiedDiff(offer))
<1>1. IsSequence(offer)
  BY PatchAssumption DEF IsSequence
<1>2. ASSUME NEW i \in DOMAIN offer PROVE IsSequence(SectionLines(offer[i]))
  <2> DEFINE hunks == offer[i].hunks
             text  == [n \in DOMAIN hunks |-> HunkLines(hunks[n])]
  <2>1. /\ IsSequence(hunks)
        /\ \A n \in DOMAIN hunks : IsSequence(hunks[n].body)
    <3>1. /\ hunks \in Seq(Range(hunks))
          /\ \A n \in DOMAIN hunks : hunks[n].body \in Seq(Range(hunks[n].body))
      BY PatchAssumption
    <3> QED BY <3>1 DEF IsSequence
  <2>2. ASSUME NEW n \in DOMAIN hunks PROVE IsSequence(HunkLines(hunks[n]))
    <3> DEFINE body  == hunks[n].body
               lines == [j \in DOMAIN body |-> BodyLine(body[j])]
    <3>1. Len(body) \in Nat /\ DOMAIN body = 1..Len(body)
      BY <2>1, SequencesAre
    <3>2. DOMAIN lines = 1..Len(body) /\ lines = [j \in DOMAIN lines |-> lines[j]]
      BY <3>1
    <3>3. IsSequence(lines)
      <4> HIDE DEF lines
      <4> QED BY <3>1, <3>2, SequencesAre
    <3> QED BY <3>3, ShortSequences, SequencesAre DEF HunkLines
  <2>3. IsSequence(text)
    <3>1. Len(hunks) \in Nat /\ DOMAIN hunks = 1..Len(hunks)
      BY <2>1, SequencesAre
    <3>2. DOMAIN text = 1..Len(hunks) /\ text = [j \in DOMAIN text |-> text[j]]
      BY <3>1
    <3> HIDE DEF text
    <3> QED BY <3>1, <3>2, SequencesAre
  <2>4. IsSequence(FlattenSeq(text))
    <3>1. \A n \in DOMAIN text : IsSequence(text[n])
      BY <2>2
    <3> HIDE DEF text
    <3> QED BY <2>3, <3>1, FlatIsSequence
  <2> HIDE DEF text
  <2>5. SectionLines(offer[i]) =
          <<PathLine("---", offer[i].old), PathLine("+++", offer[i].new)>> \o FlattenSeq(text)
    BY DEF SectionLines, text
  <2> QED BY <2>4, <2>5, ShortSequences, SequencesAre
<1> DEFINE text == [i \in DOMAIN offer |-> SectionLines(offer[i])]
<1>3. Len(offer) \in Nat /\ DOMAIN offer = 1..Len(offer)
  BY <1>1, SequencesAre
<1>4. IsSequence(text)
  <2>1. DOMAIN text = 1..Len(offer) /\ text = [j \in DOMAIN text |-> text[j]]
    BY <1>3
  <2> HIDE DEF text
  <2> QED BY <1>3, <2>1, SequencesAre
<1>5. IsSequence(FlattenSeq(text))
  <2>1. \A n \in DOMAIN text : IsSequence(text[n])
    BY <1>2
  <2> HIDE DEF text
  <2> QED BY <1>4, <2>1, FlatIsSequence
<1>6. IsSequence(ToUnifiedDiff(offer))
  BY <1>5 DEF ToUnifiedDiff
<1> QED BY <1>6

(* What is read from a text is a sequence of sections. *)
LEMMA ParsedIsSequence ==
  ASSUME NEW text, IsSequence(text), ParseUnifiedDiff(text) # Error
  PROVE  IsSequence(ParseUnifiedDiff(text))
<1> DEFINE numbers == [i \in DOMAIN text |-> i]
           starts  == LinesOf(text, "---", 1, Len(text))
<1>1. Len(text) \in Nat /\ DOMAIN text = 1..Len(text)
  BY SequencesAre
<1>2. numbers \in Seq(Nat)
  BY <1>1
<1>3. starts \in Seq(Nat)
  <2> DEFINE S == {i \in 1..Len(text) : text[i].mark = "---"}
  <2>1. starts = Only(numbers, S)
    BY DEF LinesOf
  <2> HIDE DEF numbers, S, starts
  <2> QED BY <1>2, <2>1, OnlyIn
<1> DEFINE patch0 == [i \in DOMAIN starts |-> ParseSection(text, starts[i])]
<1>4. ParseUnifiedDiff(text) = patch0
  BY DEF ParseUnifiedDiff
<1>5. Len(starts) \in Nat /\ DOMAIN patch0 = 1..Len(starts) /\ patch0 = [j \in DOMAIN patch0 |-> patch0[j]]
  <2> HIDE DEF starts
  <2> QED BY <1>3
<1>6. IsSequence(patch0)
  <2> HIDE DEF patch0, starts
  <2> QED BY <1>5, SequencesAre
<1> QED BY <1>4, <1>6

-----------------------------------------------------------------------------
(* The files are what they were at the time of the call until the first of *)
(* them is written.                                                        *)
FilesInv ==
  /\ disk = [p \in Path |-> disk[p]] /\ before = [p \in Path |-> before[p]]
  /\ (outcome = "none") = (patchPc # "returned")
  /\ patchPc \in {"idle", "staging"} => Undisturbed(Path)
  /\ outcome \in {"rejected", "canceled"} => Undisturbed(Path)

(* Files about which nobody need be asked, on the word of the call. *)
Harmless(files, spelled) ==
  /\ IsFiniteSet(files) /\ Cardinality(files) <= MaxAutoFiles
  /\ \A p \in files \cap PolicyFiles : \E s \in spelled \ PolicyNames : PathOf[s] = p

(* What is written was staged, and what is staged is a target of the patch, *)
(* about which nobody need be asked.                                        *)
UnaskedInv ==
  ~asked =>
    /\ Harmless(Targets(patch), expected)
    /\ IsSequence(patch) /\ IsSequence(staged) /\ written \in Nat
    /\ \A i \in DOMAIN staged : staged[i].path \in Targets(patch)
    /\ \A p \in Path \ foreign : disk[p] # before[p] => p \in Targets(patch)

IdleInv == patchPc = "idle" => staged = <<>> /\ written = 0

PatchInv == FilesInv /\ UnaskedInv /\ IdleInv

(* Nobody need be asked about fewer files. *)
LEMMA FewerAreHarmless ==
  ASSUME NEW S, NEW T, NEW spelled, Harmless(S, spelled), T \subseteq S
  PROVE  Harmless(T, spelled)
<1>1. /\ IsFiniteSet(T) /\ Cardinality(T) \in Nat /\ Cardinality(S) \in Nat
      /\ Cardinality(T) <= Cardinality(S)
  BY FS_Subset, FS_CardinalityType DEF Harmless
<1> QED BY <1>1, PatchAssumption DEF Harmless

(* Nobody need be asked about a patch that names no file. *)
LEMMA NothingIsHarmless == \A spelled : Harmless(Targets(<<>>), spelled)
<1>1. IsFiniteSet({}) /\ Cardinality({}) = 0
  BY FS_EmptySet
<1>2. Targets(<<>>) = {}
  BY DEF Targets
<1>3. 0 <= MaxAutoFiles
  BY PatchAssumption
<1> QED BY <1>1, <1>2, <1>3 DEF Harmless

(* A list that needs no question, whatever its spellings, means few files, *)
(* and policy files only by spellings that hide their names.               *)
LEMMA ShortListMeansFewFiles ==
  ASSUME NEW files \in Seq(Spellings), ~NeedsQuestion(files)
  PROVE  LET meant == {PathOf[s] : s \in Range(files)}
         IN  Harmless(meant, Range(files))
<1> DEFINE meant == {PathOf[s] : s \in Range(files)}
           at    == [i \in 1..Len(files) |-> PathOf[files[i]]]
<1>1. Len(files) \in Nat /\ DOMAIN files = 1..Len(files)
  OBVIOUS
<1>2. at \in Surjection(1..Len(files), meant)
  <2>1. meant = {PathOf[files[i]] : i \in 1..Len(files)}
    BY <1>1 DEF Range
  <2>2. at \in [1..Len(files) -> meant]
    BY <2>1
  <2>3. ASSUME NEW p \in meant PROVE \E i \in 1..Len(files) : at[i] = p
    BY <2>1
  <2> HIDE DEF at, meant
  <2> QED BY <2>2, <2>3 DEF Surjection
<1>3. IsFiniteSet(1..Len(files)) /\ Cardinality(1..Len(files)) = Len(files)
  <2>1. 1 \in Int /\ Len(files) \in Int
    BY <1>1
  <2>2. IsFiniteSet(1..Len(files))
        /\ Cardinality(1..Len(files)) = IF 1 > Len(files) THEN 0 ELSE Len(files) - 1 + 1
    BY <2>1, FS_Interval
  <2> QED BY <1>1, <2>2
<1>4. IsFiniteSet(meant) /\ Cardinality(meant) <= Len(files)
  <2> HIDE DEF at, meant
  <2> QED BY <1>2, <1>3, FS_Surjection
<1>5. Len(files) <= MaxAutoFiles /\ Range(files) \cap PolicyNames = {}
  BY <1>1, PatchAssumption DEF NeedsQuestion
<1>6. Cardinality(meant) \in Nat
  BY <1>4, FS_CardinalityType
<1>7. Cardinality(meant) <= MaxAutoFiles
  <2> HIDE DEF meant
  <2> QED BY <1>1, <1>4, <1>5, <1>6, PatchAssumption
<1>8. \A p \in meant : \E s \in Range(files) \ PolicyNames : PathOf[s] = p
  BY <1>5
<1> HIDE DEF meant
<1> QED BY <1>4, <1>7, <1>8 DEF Harmless, meant

(* Before the call nothing is written. *)
LEMMA InitPatchInv == PatchInit => PatchInv
<1> SUFFICES ASSUME PatchInit PROVE PatchInv
  OBVIOUS
<1>1. FilesInv
  BY DEF PatchInit, FilesInv, Undisturbed
<1>2. UnaskedInv
  <2>1. patch = <<>> /\ staged = <<>> /\ written = 0 /\ before = disk
    BY DEF PatchInit
  <2>2. IsSequence(patch) /\ IsSequence(staged)
    BY <2>1, ShortSequences
  <2>3. Harmless(Targets(patch), expected)
    BY <2>1, NothingIsHarmless
  <2>4. DOMAIN staged = {}
    BY <2>1
  <2> QED BY <2>1, <2>2, <2>3, <2>4 DEF UnaskedInv
<1>3. IdleInv
  BY DEF PatchInit, IdleInv
<1> QED BY <1>1, <1>2, <1>3 DEF PatchInv

(* A call: if nobody was asked, the patch is what the call names. *)
LEMMA RequestKeepsPatchInv ==
  ASSUME PatchInv, NEW text, NEW files, NEW approved,
         IsSequence(text), files \in Seq(Spellings), RequestPatch(text, files, approved)
  PROVE  PatchInv'
<1>1. /\ disk' = disk /\ before' = disk /\ foreign' = {}
      /\ patchPc = "idle" /\ staged' = staged /\ written' = written
      /\ asked' = (NeedsQuestion(files) /\ ParseUnifiedDiff(text) # Error)
      /\ approved # Absent => NeedsQuestion(files)
  BY DEF RequestPatch
<1> DEFINE text2   == IF approved = Absent THEN text ELSE FilterText(text, approved)
           request == IF text2 = Error THEN Error ELSE ParseUnifiedDiff(text2)
           named   == IF approved = Absent \/ request = Error THEN Range(files) ELSE Targets(request)
<1>0. expected' = named
  BY DEF RequestPatch
<1>2. \/ /\ patchPc' = "returned" /\ outcome' \in {"canceled", "rejected"} /\ patch' = <<>>
      \/ /\ patchPc' = "staging" /\ patch' = request /\ outcome' = outcome
         /\ Acceptable(request, named)
  BY DEF RequestPatch, PatchReturn
<1>3. FilesInv'
  BY <1>1, <1>2 DEF PatchInv, FilesInv, Undisturbed
<1>4. IdleInv'
  BY <1>2 DEF IdleInv
<1>5. ASSUME ~asked' PROVE Harmless(Targets(patch'), expected') /\ IsSequence(patch')
  <2>1. CASE patch' = <<>>
    BY <2>1, NothingIsHarmless, ShortSequences
  <2>2. CASE Acceptable(request, named) /\ patch' = request
    <3>1. request # Error /\ {PathOf[s] : s \in named} = Targets(request)
      BY <2>2 DEF Acceptable
    <3>2. CASE approved = Absent
      <4>1. text2 = text
        BY <3>2
      <4>2. request = ParseUnifiedDiff(text) /\ ParseUnifiedDiff(text) # Error
        BY <3>1, <4>1
      <4>3. IsSequence(request)
        BY <4>2, ParsedIsSequence
      <4>4. named = Range(files) /\ expected' = named
        BY <1>0, <3>2
      <4>5. ~NeedsQuestion(files)
        BY <1>1, <1>5, <4>2
      <4>6. Harmless({PathOf[s] : s \in Range(files)}, Range(files))
        BY <4>5, ShortListMeansFewFiles
      <4> HIDE DEF request, named
      <4> QED BY <2>2, <3>1, <4>3, <4>4, <4>6
    <3>3. CASE approved # Absent
      <4>1. text2 = FilterText(text, approved) /\ text2 # Error
        BY <3>1, <3>3
      <4>2. ParseUnifiedDiff(text) # Error
        BY <4>1 DEF FilterText
      <4> QED BY <1>1, <1>5, <3>3, <4>2
    <3> QED BY <3>2, <3>3
  <2> QED BY <1>2, <2>1, <2>2
<1>6. staged = <<>> /\ written = 0
  BY <1>1 DEF PatchInv, IdleInv
<1>7. UnaskedInv'
  <2>1. IsSequence(staged) /\ DOMAIN staged = {}
    <3>1. IsSequence(<<>>)
      BY ShortSequences, Zenon
    <3>2. DOMAIN staged = {}
      BY <1>6
    <3> QED BY <1>6, <3>1, <3>2, Zenon
  <2>2. \A p \in Path : disk'[p] = before'[p]
    BY <1>1
  <2> QED BY <1>1, <1>5, <1>6, <2>1, <2>2 DEF UnaskedInv
<1> QED BY <1>3, <1>4, <1>7 DEF PatchInv

(* One step of the call, or of somebody else. *)
LEMMA StepPatchInv ==
  PatchInv /\ [PatchNext]_<<patchVars, canceled>> => PatchInv'
<1> SUFFICES ASSUME PatchInv, [PatchNext]_<<patchVars, canceled>> PROVE PatchInv'
  OBVIOUS
<1> USE DEF PatchInv
<1>0. Lists \subseteq Seq(Spellings)
  BY PatchAssumption
<1>1. ASSUME NEW files \in Lists, RequestPatch(Garbled, files, Absent) PROVE PatchInv'
  <2>1. IsSequence(Garbled)
    BY ShortSequences DEF Garbled
  <2> QED BY <1>0, <1>1, <2>1, RequestKeepsPatchInv
<1>2. ASSUME NEW offer \in Offers, NEW files \in Lists, NEW approved,
             RequestPatch(ToUnifiedDiff(offer), files, approved)
      PROVE  PatchInv'
  BY <1>0, <1>2, OfferIsText, RequestKeepsPatchInv
<1>3. ASSUME StageFile PROVE PatchInv'
  <2> DEFINE section == patch[Len(staged) + 1]
             path    == Target(section)
  <2>1. /\ UNCHANGED <<disk, before, foreign, asked, expected, patch, written>>
        /\ patchPc = "staging" /\ patchPc' # "idle" /\ Len(staged) < Len(patch)
    BY <1>3 DEF StageFile, PatchReturn, callVars
  <2>2. PICK applied :
          \/ /\ patchPc' = "returned" /\ outcome' = "rejected" /\ staged' = staged
          \/ /\ staged' = Append(staged, [path |-> path, contents |-> applied])
             /\ UNCHANGED <<patchPc, outcome>>
    BY <1>3 DEF StageFile, PatchReturn
  <2>3. FilesInv'
    BY <2>1, <2>2 DEF FilesInv, Undisturbed
  <2>4. UnaskedInv'
    <3> SUFFICES ASSUME ~asked PROVE
          IsSequence(staged') /\ \A i \in DOMAIN staged' : staged'[i].path \in Targets(patch)
      BY <2>1 DEF UnaskedInv
    <3>1. /\ IsSequence(staged) /\ IsSequence(patch)
          /\ \A i \in DOMAIN staged : staged[i].path \in Targets(patch)
      BY DEF UnaskedInv
    <3>2. CASE staged' = staged
      BY <3>1, <3>2
    <3>3. CASE staged' = Append(staged, [path |-> path, contents |-> applied])
      <4> DEFINE file == [path |-> path, contents |-> applied]
      <4>1. Len(staged) \in Nat /\ DOMAIN staged = 1..Len(staged)
            /\ Len(patch) \in Nat /\ DOMAIN patch = 1..Len(patch)
        BY <3>1, SequencesAre
      <4>2. Len(staged) + 1 \in DOMAIN patch
        BY <2>1, <4>1
      <4>3. file.path \in Targets(patch)
        BY <4>2 DEF Targets
      <4> HIDE DEF file
      <4>4. /\ IsSequence(staged') /\ Len(staged') = Len(staged) + 1
            /\ \A i \in 1..Len(staged) : staged'[i] = staged[i]
            /\ staged'[Len(staged) + 1] = file
        BY <3>1, <3>3, AppendSequence DEF file
      <4>5. DOMAIN staged' = 1..(Len(staged) + 1)
        BY <4>4, SequencesAre
      <4>6. ASSUME NEW i \in 1..(Len(staged) + 1) PROVE staged'[i].path \in Targets(patch)
        <5>1. CASE i \in 1..Len(staged)
          BY <3>1, <4>1, <4>4, <5>1
        <5>2. CASE i = Len(staged) + 1
          BY <4>3, <4>4, <5>2
        <5> QED BY <4>1, <5>1, <5>2
      <4> QED BY <4>4, <4>5, <4>6
    <3> QED BY <2>2, <3>2, <3>3
  <2> QED BY <2>1, <2>3, <2>4 DEF IdleInv
<1>4. ASSUME BeginWriting PROVE PatchInv'
  <2>1. /\ UNCHANGED <<disk, callVars, staged, written, foreign>> /\ patchPc = "staging"
        /\ \/ patchPc' = "returned" /\ outcome' = "canceled"
           \/ patchPc' = "writing" /\ outcome' = outcome
    BY <1>4 DEF BeginWriting, PatchReturn
  <2> QED BY <2>1 DEF callVars, FilesInv, UnaskedInv, IdleInv, Undisturbed
<1>5. ASSUME NEW p0, NEW contents, ~asked => p0 \in Targets(patch),
             patchPc = "writing", disk' = [disk EXCEPT ![p0] = contents] \/ disk' = disk,
             UNCHANGED <<callVars, staged, foreign>>, written' \in {written, written + 1},
             \/ UNCHANGED <<patchPc, outcome>>
             \/ patchPc' = "returned" /\ outcome' \in {"ok", "failed"}
      PROVE  PatchInv'
  <2>1. FilesInv'
    BY <1>5 DEF callVars, FilesInv, Undisturbed
  <2>2. UnaskedInv'
    BY <1>5 DEF callVars, UnaskedInv, FilesInv
  <2> QED BY <1>5, <2>1, <2>2 DEF IdleInv
<1>6. ASSUME patchPc = "writing", written < Len(staged), ~asked
      PROVE  staged[written + 1].path \in Targets(patch)
  <2>1. /\ written \in Nat /\ IsSequence(staged)
        /\ \A i \in DOMAIN staged : staged[i].path \in Targets(patch)
    BY <1>6 DEF UnaskedInv
  <2>2. Len(staged) \in Nat /\ DOMAIN staged = 1..Len(staged)
    BY <2>1, SequencesAre
  <2>3. written + 1 \in DOMAIN staged
    BY <1>6, <2>1, <2>2
  <2> QED BY <2>1, <2>3
<1>7. ASSUME WriteFile PROVE PatchInv'
  <2> DEFINE file == staged[written + 1]
  <2>1. /\ patchPc = "writing" /\ written < Len(staged)
        /\ disk' = [disk EXCEPT ![file.path] = file.contents]
        /\ written' = written + 1
        /\ UNCHANGED <<patchPc, outcome>> /\ UNCHANGED <<callVars, staged, foreign>>
    BY <1>7 DEF WriteFile
  <2>2. ~asked => file.path \in Targets(patch)
    BY <1>6, <2>1
  <2> HIDE DEF file
  <2> QED BY <1>5, <2>1, <2>2
<1>8. ASSUME WriteFileFails PROVE PatchInv'
  <2> DEFINE file == staged[written + 1]
  <2>1. /\ patchPc = "writing" /\ written < Len(staged)
        /\ disk' = disk \/ disk' = [disk EXCEPT ![file.path] = Empty]
        /\ written' = written
        /\ patchPc' = "returned" /\ outcome' = "failed"
        /\ UNCHANGED <<callVars, staged, foreign>>
    BY <1>8 DEF WriteFileFails, PatchReturn
  <2>2. ~asked => file.path \in Targets(patch)
    BY <1>6, <2>1
  <2> HIDE DEF file
  <2> QED BY <1>5, <2>1, <2>2
<1>9. ASSUME FinishPatch PROVE PatchInv'
  <2>1. /\ patchPc = "writing" /\ patchPc' = "returned" /\ outcome' = "ok"
        /\ UNCHANGED <<disk, callVars, staged, written, foreign>>
    BY <1>9 DEF FinishPatch, PatchReturn
  <2> QED BY <2>1 DEF callVars, FilesInv, UnaskedInv, IdleInv, Undisturbed
<1>10. ASSUME NEW path \in Path, NEW contents, Edit(path, contents) PROVE PatchInv'
  <2>1. /\ disk' = [disk EXCEPT ![path] = contents] /\ foreign' = foreign \cup {path}
        /\ UNCHANGED <<patchPc, callVars, staged, written, outcome>>
    BY <1>10 DEF Edit
  <2>2. FilesInv'
    BY <2>1 DEF callVars, FilesInv, Undisturbed
  <2>3. UnaskedInv'
    BY <2>1 DEF callVars, UnaskedInv, FilesInv
  <2> QED BY <2>1, <2>2, <2>3 DEF IdleInv
<1>11. ASSUME UNCHANGED patchVars PROVE PatchInv'
  BY <1>11 DEF patchVars, callVars, FilesInv, UnaskedInv, IdleInv, Undisturbed
<1> QED
  BY <1>1, <1>2, <1>3, <1>4, <1>7, <1>8, <1>9, <1>10, <1>11 DEF PatchNext, PatchStep

(* The inductive invariant. *)
THEOREM PatchInvariance == PatchSpec => []PatchInv
BY InitPatchInv, StepPatchInv, PTL DEF PatchSpec

(* A patch of which a hunk does not fit, and one that is canceled before   *)
(* the first write, leave every file as it was (apply_patch: everything is *)
(* staged before anything is written).                                     *)
THEOREM RejectionsAreClean == PatchSpec => []RejectionIsClean
<1>1. PatchInv => RejectionIsClean
  BY DEF PatchInv, FilesInv, RejectionIsClean
<1> QED BY <1>1, PatchInvariance, PTL

(* Whatever fails halfway, many files change only if the user was asked,   *)
(* and policy files only then, or by a spelling that hides their names     *)
(* (tool_risk_assessment looks at what the call names, apply_patch holds   *)
(* the patch to it).                                                       *)
THEOREM QuestionsCoverChanges == PatchSpec => []QuestionCoversChanges
<1>1. PatchInv => QuestionCoversChanges
  <2> SUFFICES ASSUME PatchInv, ~asked PROVE Harmless(Changed, expected)
    BY DEF QuestionCoversChanges, Harmless
  <2>1. Changed \subseteq Targets(patch) /\ Harmless(Targets(patch), expected)
    BY DEF PatchInv, UnaskedInv, Changed
  <2> QED BY <2>1, FewerAreHarmless
<1> QED BY <1>1, PatchInvariance, PTL
-----------------------------------------------------------------------------
(* Commands. *)

(* What was written is in the pipe or was read; nothing is left in the     *)
(* pipe, and nobody is left to write, when the end of the output was seen. *)
OutputInv ==
  /\ output + pipe = produced
  /\ ended = "exited" => commandPc = "returned" /\ pipe = 0 /\ Running = {}

(* The program was started before anything is looked at, and is known to   *)
(* have exited before its output is read.                                  *)
RootInv ==
  /\ commandPc = "idle" => process[Root] = "none"
  /\ commandPc \notin {"idle", "returned"} => process[Root] # "none"
  /\ commandPc \in {"reading", "returned"} => process[Root] # "running"

CommandInv == CommandTypeOK /\ OutputInv /\ RootInv

(* The program is one of the processes. *)
LEMMA RootIsProcess == Root \in Processes
BY DEF Processes

(* Before the command nothing runs. *)
LEMMA InitCommandInv == CommandInit => CommandInv
<1> SUFFICES ASSUME CommandInit PROVE CommandInv
  OBVIOUS
<1>0. ClockTypeOK
  BY Zenon DEF CommandInit, ClockTypeOK
<1>1. CommandTypeOK
  BY <1>0, CommandAssumption DEF CommandInit, CommandTypeOK
<1>2. OutputInv
  BY DEF CommandInit, OutputInv
<1>3. RootInv
  BY RootIsProcess DEF CommandInit, RootInv
<1> QED BY <1>1, <1>2, <1>3 DEF CommandInv

(* One step of the command, of a process, of the clock or of the user. *)
LEMMA StepCommandInv == CommandInv /\ [CommandNext]_<<commandVars, canceled>> => CommandInv'
<1> SUFFICES ASSUME CommandInv, [CommandNext]_<<commandVars, canceled>> PROVE CommandInv'
  OBVIOUS
<1> USE DEF CommandInv, CommandTypeOK, treeVars, pollFrame
<1>1. ASSUME Spawn PROVE CommandInv'
  <2>1. ClockTypeOK'
    BY <1>1, Zenon DEF ClockTypeOK, Spawn
  <2>2. CommandTypeOK'
    BY <1>1, <2>1 DEF Spawn
  <2>3. OutputInv'
    BY <1>1 DEF OutputInv, Spawn
  <2>4. RootInv'
    BY <1>1, RootIsProcess DEF RootInv, Spawn
  <2> QED BY <2>2, <2>3, <2>4
<1>2. ASSUME PollToken PROVE CommandInv'
  <2>1. ClockTypeOK'
    BY <1>2, Zenon DEF ClockTypeOK, PollToken
  <2>2. CommandTypeOK'
    BY <1>2, <2>1 DEF PollToken
  <2>3. OutputInv'
    BY <1>2 DEF OutputInv, PollToken
  <2>4. RootInv'
    BY <1>2 DEF RootInv, PollToken
  <2> QED BY <2>2, <2>3, <2>4
<1>3. ASSUME PollExit PROVE CommandInv'
  <2>1. ClockTypeOK'
    BY <1>3, Zenon DEF ClockTypeOK, PollExit
  <2>2. CommandTypeOK'
    BY <1>3, <2>1 DEF PollExit
  <2>3. OutputInv'
    BY <1>3 DEF OutputInv, PollExit
  <2>4. RootInv'
    BY <1>3 DEF RootInv, PollExit
  <2> QED BY <2>2, <2>3, <2>4
<1>4. ASSUME PollClock PROVE CommandInv'
  <2>1. ClockTypeOK'
    BY <1>4, Zenon DEF ClockTypeOK, PollClock
  <2>2. CommandTypeOK'
    BY <1>4, <2>1 DEF PollClock
  <2>3. OutputInv'
    BY <1>4 DEF OutputInv, PollClock
  <2>4. RootInv'
    BY <1>4 DEF RootInv, PollClock
  <2> QED BY <2>2, <2>3, <2>4
<1>5. ASSUME ReadOutput PROVE CommandInv'
  <2>1. ClockTypeOK'
    BY <1>5, Zenon DEF ClockTypeOK, ReadOutput
  <2>2. CommandTypeOK'
    BY <1>5, <2>1, CommandAssumption DEF OutputInv, ReadOutput
  <2>3. OutputInv'
    BY <1>5 DEF OutputInv, ReadOutput
  <2>4. RootInv'
    BY <1>5 DEF RootInv, ReadOutput
  <2> QED BY <2>2, <2>3, <2>4
<1>6. ASSUME FinishOutput PROVE CommandInv'
  <2>1. ClockTypeOK'
    BY <1>6, Zenon DEF ClockTypeOK, FinishOutput
  <2>2. CommandTypeOK'
    BY <1>6, <2>1 DEF FinishOutput
  <2>3. OutputInv'
    BY <1>6 DEF OutputInv, Running, FinishOutput
  <2>4. RootInv'
    BY <1>6 DEF RootInv, FinishOutput
  <2> QED BY <2>2, <2>3, <2>4
<1>7. ASSUME SendTerm PROVE CommandInv'
  <2>1. ClockTypeOK'
    BY <1>7, Zenon DEF ClockTypeOK, SendTerm
  <2>2. CommandTypeOK'
    BY <1>7, <2>1 DEF Running, Group, SendTerm
  <2>3. OutputInv'
    BY <1>7 DEF OutputInv, SendTerm
  <2>4. RootInv'
    BY <1>7 DEF RootInv, SendTerm
  <2> QED BY <2>2, <2>3, <2>4
<1>8. ASSUME AwaitGrace PROVE CommandInv'
  <2>1. ClockTypeOK'
    BY <1>8, Zenon DEF ClockTypeOK, AwaitGrace
  <2>2. CommandTypeOK'
    BY <1>8, <2>1 DEF AwaitGrace
  <2>3. OutputInv'
    BY <1>8 DEF OutputInv, AwaitGrace
  <2>4. RootInv'
    BY <1>8 DEF RootInv, AwaitGrace
  <2> QED BY <2>2, <2>3, <2>4
<1>9. ASSUME KillGroup PROVE CommandInv'
  <2>1. ClockTypeOK'
    BY <1>9, Zenon DEF ClockTypeOK, KillGroup
  <2>2. CommandTypeOK'
    BY <1>9, <2>1 DEF KillGroup
  <2>3. OutputInv'
    BY <1>9 DEF OutputInv, KillGroup
  <2>4. RootInv'
    BY <1>9, RootIsProcess DEF RootInv, KillGroup
  <2> QED BY <2>2, <2>3, <2>4
<1>10. ASSUME Reap PROVE CommandInv'
  <2>1. ClockTypeOK'
    BY <1>10, Zenon DEF ClockTypeOK, Reap
  <2>2. CommandTypeOK'
    BY <1>10, <2>1 DEF Reap
  <2>3. OutputInv'
    BY <1>10 DEF OutputInv, Reap
  <2>4. RootInv'
    BY <1>10 DEF RootInv, Reap
  <2> QED BY <2>2, <2>3, <2>4
<1>11. ASSUME NEW p \in Processes, Write(p) PROVE CommandInv'
  <2>1. ClockTypeOK'
    BY <1>11, Zenon DEF ClockTypeOK, Write
  <2>2. CommandTypeOK'
    BY <1>11, <2>1, CommandAssumption DEF Full, Write
  <2>3. OutputInv'
    BY <1>11 DEF OutputInv, Write
  <2>4. RootInv'
    BY <1>11 DEF RootInv, Write
  <2> QED BY <2>2, <2>3, <2>4
<1>12. ASSUME NEW p \in Processes, Fork(p) PROVE CommandInv'
  <2>1. ClockTypeOK'
    BY <1>12, Zenon DEF ClockTypeOK, Fork
  <2>2. CommandTypeOK'
    BY <1>12, <2>1 DEF Fork
  <2>3. OutputInv'
    BY <1>12 DEF OutputInv, Fork
  <2>4. RootInv'
    BY <1>12 DEF RootInv, Fork
  <2> QED BY <2>2, <2>3, <2>4
<1>13. ASSUME NEW p \in Processes, ExitProcess(p) PROVE CommandInv'
  <2>1. ClockTypeOK'
    BY <1>13, Zenon DEF ClockTypeOK, ExitProcess
  <2>2. CommandTypeOK'
    BY <1>13, <2>1 DEF ExitProcess
  <2>3. OutputInv'
    BY <1>13 DEF OutputInv, ExitProcess
  <2>4. RootInv'
    BY <1>13 DEF RootInv, Running, ExitProcess
  <2> QED BY <2>2, <2>3, <2>4
<1>14. ASSUME Elapse PROVE CommandInv'
  <2>1. ClockTypeOK'
    BY <1>14, Zenon DEF ClockTypeOK, Elapse
  <2>2. CommandTypeOK'
    BY <1>14, <2>1 DEF Elapse
  <2>3. OutputInv'
    BY <1>14 DEF OutputInv, Elapse
  <2>4. RootInv'
    BY <1>14 DEF RootInv, Elapse
  <2> QED BY <2>2, <2>3, <2>4
<1>15. ASSUME UNCHANGED commandVars PROVE CommandInv'
  <2>1. ClockTypeOK'
    BY <1>15, Zenon DEF ClockTypeOK, commandVars
  <2>2. CommandTypeOK'
    BY <1>15, <2>1 DEF commandVars
  <2>3. OutputInv'
    BY <1>15 DEF OutputInv, Running, commandVars
  <2>4. RootInv'
    BY <1>15 DEF RootInv, commandVars
  <2> QED BY <2>2, <2>3, <2>4
<1> QED
  BY <1>1, <1>2, <1>3, <1>4, <1>5, <1>6, <1>7, <1>8, <1>9, <1>10, <1>11,
     <1>12, <1>13, <1>14, <1>15
  DEF CommandNext, CommandStep, ProcessStep

(* The inductive invariant. *)
THEOREM CommandInvariance == CommandSpec => []CommandInv
BY InitCommandInv, StepCommandInv, PTL DEF CommandSpec

(* Every piece of a command's state keeps its type (run_command).         *)
THEOREM CommandTypeCorrect == CommandSpec => []CommandTypeOK
BY CommandInvariance, PTL DEF CommandInv

(* Of a command that exited nothing is missing from its output             *)
(* (run_command, wait_with_output).                                        *)
THEOREM CommandOutput == CommandSpec => []OutputIsComplete
<1>1. CommandInv => OutputIsComplete
  BY DEF CommandInv, OutputInv, CommandTypeOK, OutputIsComplete
<1> QED BY <1>1, CommandInvariance, PTL

(* When the call returns, by whatever way, the program is not running any  *)
(* more: it never came up, has exited, or was killed and reaped (child.wait *)
(* at every exit of run_command).                                          *)
THEOREM ProgramIsOver ==
  CommandSpec => [](commandPc = "returned" => process[Root] # "running")
<1>1. CommandInv => (commandPc = "returned" => process[Root] # "running")
  BY DEF CommandInv, RootInv
<1> QED BY <1>1, CommandInvariance, PTL
-----------------------------------------------------------------------------
(* Reports. *)

Known == Versions \cup {Missing}

(* What a snapshot says of the files before a place of the walk, except    *)
(* those written meanwhile.                                                *)
Shows(snapshot, files, end) ==
  \A i \in 1..(end - 1) :
    Walk[i] \notin Skipped \cup stirred =>
      /\ Walk[i] \in DOMAIN snapshot <=> files[Walk[i]] # Missing
      /\ files[Walk[i]] # Missing =>
           snapshot[Walk[i]] = Fingerprint(files[Walk[i]])

ReportTypeOK ==
  /\ tree \in [Files -> Known] /\ atBaseline \in [Files -> Known]
  /\ position \in 1..(Len(Walk) + 1) /\ reach \in 1..(Len(Walk) + 1)

PatchedInv ==
  /\ patched \subseteq changedFiles
  /\ reportPc # "reported" => changedFiles = patched

ScanInv ==
  reportPc \in {"before", "after"} =>
    /\ Shows(seen, tree, position)
    /\ \A f \in DOMAIN seen : \E i \in 1..(position - 1) : f = Walk[i]

BaselineInv ==
  /\ reportPc = "after" => baseline \notin {Missing, Failed}
  /\ baseline \notin {Missing, Failed} => Shows(baseline, atBaseline, reach)

VerificationInv ==
  /\ ends \subseteq {"ok", "failed"}
  /\ verification = IF "failed" \in ends THEN "failed"
                    ELSE IF ends # {} THEN "passed" ELSE "skipped"

ReportInv == /\ ReportTypeOK /\ PatchedInv /\ ScanInv /\ BaselineInv
        /\ VerificationInv /\ ReportIsAccurate

(* The walk takes files, each once. *)
LEMMA WalkType ==
  /\ Len(Walk) \in Nat
  /\ \A i \in 1..Len(Walk) : Walk[i] \in Files
  /\ \A i, j \in 1..Len(Walk) : Walk[i] = Walk[j] => i = j
BY ReportAssumption DEF IsInjective

(* The smaller of two numbers. *)
LEMMA MinOfTwo ==
  ASSUME NEW i \in Nat, NEW j \in Nat
  PROVE  Min({i, j}) \in {i, j} /\ Min({i, j}) <= i /\ Min({i, j}) <= j
<1>1. \E k \in {i, j} : \A l \in {i, j} : k <= l
  OBVIOUS
<1> QED BY <1>1 DEF Min

(* Fingerprints differ when what is compared does. *)
LEMMA FingerprintsTell ==
  ASSUME NEW c \in Versions, NEW d \in Versions
  PROVE  Fingerprint(c) # Fingerprint(d) <=> Distinct(c, d)
<1>1. c.len \in Nat /\ d.len \in Nat /\ HashMax \in Nat
  BY ReportAssumption
<1>2. Missing \notin {c, d}
  BY ReportAssumption
<1>3. c = d <=> c.len = d.len /\ c.time = d.time /\ c.data = d.data
  BY ReportAssumption
<1>4. Fingerprint(c) = Fingerprint(d) <=>
        /\ c.len = d.len /\ c.time = d.time
        /\ c.len <= HashMax => c.data = d.data
  BY <1>1 DEF Fingerprint
<1> QED BY <1>1, <1>2, <1>3, <1>4 DEF Distinct

(* What comparing two snapshots makes of a file that both show. *)
LEMMA DifferencesTell ==
  ASSUME NEW old, NEW new, NEW f, NEW c \in Known, NEW d \in Known,
         f \in DOMAIN old <=> c # Missing,
         c # Missing => old[f] = Fingerprint(c),
         f \in DOMAIN new <=> d # Missing,
         d # Missing => new[f] = Fingerprint(d)
  PROVE  f \in Differences(old, new) <=> Distinct(c, d)
<1>1. CASE c = Missing \/ d = Missing
  BY <1>1 DEF Differences, Distinct
<1>2. CASE c # Missing /\ d # Missing
  BY <1>2, FingerprintsTell DEF Differences, Known
<1> QED BY <1>1, <1>2

(* Before the first call there is nothing to report. *)
LEMMA InitReportInv == ReportInit => ReportInv
<1> SUFFICES ASSUME ReportInit PROVE ReportInv
  OBVIOUS
<1>1. ReportTypeOK
  BY WalkType, ReportAssumption DEF ReportInit, ReportTypeOK, Known
<1>2. PatchedInv /\ ScanInv /\ BaselineInv /\ VerificationInv
  BY DEF ReportInit, PatchedInv, ScanInv, BaselineInv, VerificationInv
<1>3. ReportIsAccurate
  BY DEF ReportInit, ReportIsAccurate
<1> QED BY <1>1, <1>2, <1>3 DEF ReportInv

(* The walk takes one file more. *)
LEMMA ScanKeepsScanInv == ReportInv /\ ScanFile => ScanInv'
<1> SUFFICES ASSUME ReportInv, ScanFile PROVE ScanInv'
  OBVIOUS
<1> DEFINE f == Walk[position]
           taken == f \notin Skipped /\ tree[f] # Missing
<1>1. position \in 1..Len(Walk) /\ position' = position + 1
  BY WalkType DEF ScanFile, ScanIsOver, ReportInv, ReportTypeOK
<1>2. UNCHANGED <<reportPc, tree, stirred>>
  BY DEF ScanFile
<1>3. /\ \A g : g \in DOMAIN seen' <=> g \in DOMAIN seen \/ (taken /\ g = f)
      /\ taken => seen'[f] = Fingerprint(tree[f])
      /\ \A g \in DOMAIN seen : g # f => seen'[g] = seen[g]
  <2>1. CASE taken
    BY <2>1 DEF ScanFile
  <2>2. CASE ~taken
    BY <2>2 DEF ScanFile
  <2> QED BY <2>1, <2>2
<1>4. /\ Shows(seen, tree, position)
      /\ \A g \in DOMAIN seen : \E i \in 1..(position - 1) : g = Walk[i]
  BY DEF ReportInv, ScanInv, ScanFile
<1>5. f \notin DOMAIN seen
  BY <1>1, <1>4, WalkType
<1>6. ASSUME NEW i \in 1..position, Walk[i] \notin Skipped \cup stirred
      PROVE  /\ Walk[i] \in DOMAIN seen' <=> tree[Walk[i]] # Missing
             /\ tree[Walk[i]] # Missing =>
                  seen'[Walk[i]] = Fingerprint(tree[Walk[i]])
  <2>1. CASE i = position
    BY <1>3, <1>5, <1>6, <2>1
  <2>2. CASE i # position
    <3>1. i \in 1..(position - 1) /\ Walk[i] # f
      BY <1>1, <2>2, WalkType
    <3> QED BY <1>3, <1>4, <1>6, <3>1 DEF Shows
  <2> QED BY <2>1, <2>2
<1>7. Shows(seen', tree, position + 1)
  BY <1>1, <1>6 DEF Shows
<1>8. Shows(seen, tree, position)'
  BY <1>1, <1>2, <1>7 DEF Shows
<1>9. \A g \in DOMAIN seen' : \E i \in 1..position : g = Walk[i]
  BY <1>1, <1>3, <1>4
<1> QED BY <1>1, <1>8, <1>9 DEF ScanInv

(* What the two walks show and the comparison makes of it. *)
LEMMA FinishIsAccurate == ReportInv /\ FinishReport => ReportIsAccurate'
<1> SUFFICES ASSUME ReportInv, FinishReport PROVE ReportIsAccurate'
  OBVIOUS
<1>1. /\ Shows(seen, tree, position) /\ Shows(baseline, atBaseline, reach)
      /\ baseline \notin {Missing, Failed} /\ changedFiles = patched
  BY DEF FinishReport, ReportInv, ScanInv, BaselineInv, PatchedInv
<1>2. /\ UNCHANGED <<tree, baseline, verification, atBaseline, stirred>>
      /\ UNCHANGED <<patched, ends>>
      /\ changedFiles' = changedFiles \cup Differences(baseline, seen)
  BY DEF FinishReport, scanVars
<1>3. PICK end \in 1..(Len(Walk) + 1) :
        reach' = end /\ end <= reach /\ end <= position
  BY MinOfTwo, WalkType DEF FinishReport, ReportInv, ReportTypeOK
<1>4. ASSUME NEW i \in 1..(end - 1),
             Walk[i] \notin Skipped \cup stirred \cup patched
      PROVE  Walk[i] \in changedFiles' <=>
               Distinct(atBaseline[Walk[i]], tree[Walk[i]])
  <2>1. i \in 1..(reach - 1) /\ i \in 1..(position - 1) /\ Walk[i] \in Files
    <3>1. reach \in 1..(Len(Walk) + 1) /\ position \in 1..(Len(Walk) + 1)
      BY DEF ReportInv, ReportTypeOK
    <3>2. i \in 1..(reach - 1) /\ i \in 1..(position - 1) /\ i \in 1..Len(Walk)
      BY <1>3, <3>1, WalkType
    <3> QED BY <3>2, WalkType
  <2>2. atBaseline[Walk[i]] \in Known /\ tree[Walk[i]] \in Known
    BY <2>1 DEF ReportInv, ReportTypeOK
  <2>3. /\ Walk[i] \in DOMAIN baseline <=> atBaseline[Walk[i]] # Missing
        /\ atBaseline[Walk[i]] # Missing =>
             baseline[Walk[i]] = Fingerprint(atBaseline[Walk[i]])
    BY <1>1, <1>4, <2>1 DEF Shows
  <2>4. /\ Walk[i] \in DOMAIN seen <=> tree[Walk[i]] # Missing
        /\ tree[Walk[i]] # Missing =>
             seen[Walk[i]] = Fingerprint(tree[Walk[i]])
    BY <1>1, <1>4, <2>1 DEF Shows
  <2>5. Walk[i] \in Differences(baseline, seen) <=>
          Distinct(atBaseline[Walk[i]], tree[Walk[i]])
    BY <2>2, <2>3, <2>4, DifferencesTell
  <2> QED BY <1>1, <1>2, <1>4, <2>5
<1>5. patched' \subseteq changedFiles' /\ baseline' \notin {Missing, Failed}
  BY <1>1, <1>2
<1>6. VerificationInv'
  BY <1>2 DEF ReportInv, VerificationInv
<1> QED BY <1>2, <1>3, <1>4, <1>5, <1>6 DEF ReportIsAccurate, VerificationInv

(* The table that says which commands verify something says what the       *)
(* words of a command say.                                                 *)
TableIsTrue ==
  \A command \in DOMAIN Verifies :
    IsVerification(command) <=> Verifies[command]

(* One step of the turn, of a walk or of those who write. *)
LEMMA StepReportInv ==
  ASSUME TableIsTrue PROVE ReportInv /\ [ReportStep]_reportVars => ReportInv'
<1> SUFFICES ASSUME ReportInv, [ReportStep]_reportVars PROVE ReportInv'
  OBVIOUS
<1> USE DEF ReportInv
<1>1. ASSUME ScanFile PROVE ReportInv'
  <2>1. ReportTypeOK'
    BY <1>1, WalkType DEF ReportTypeOK, ScanFile, ScanIsOver
  <2>2. PatchedInv' /\ BaselineInv' /\ VerificationInv' /\ ReportIsAccurate'
    BY <1>1 DEF ScanFile, PatchedInv, BaselineInv, VerificationInv, Shows,
                ReportIsAccurate
  <2> QED BY <1>1, <2>1, <2>2, ScanKeepsScanInv
<1>2. ASSUME BeginCommand PROVE ReportInv'
  <2>1. ReportTypeOK'
    BY <1>2, WalkType DEF ReportTypeOK, BeginCommand, BeginScan, scanVars
  <2>2. PatchedInv' /\ VerificationInv' /\ ReportIsAccurate'
    BY <1>2 DEF BeginCommand, BeginScan, PatchedInv, VerificationInv,
                ReportIsAccurate
  <2>3. ScanInv' /\ BaselineInv'
    BY <1>2 DEF BeginCommand, BeginScan, scanVars, ScanInv, BaselineInv, Shows
  <2> QED BY <2>1, <2>2, <2>3
<1>3. ASSUME KeepBaseline PROVE ReportInv'
  <2>1. ReportTypeOK'
    BY <1>3 DEF ReportTypeOK, KeepBaseline, scanVars
  <2>2. PatchedInv' /\ ScanInv' /\ VerificationInv' /\ ReportIsAccurate'
    BY <1>3 DEF KeepBaseline, PatchedInv, ScanInv, VerificationInv,
                ReportIsAccurate
  <2>3. BaselineInv'
    BY <1>3 DEF KeepBaseline, ScanInv, BaselineInv, Shows
  <2> QED BY <2>1, <2>2, <2>3
<1>4. ASSUME RefuseCommand PROVE ReportInv'
  BY <1>4 DEF RefuseCommand, scanVars, ReportTypeOK, PatchedInv, ScanInv,
              BaselineInv, Shows, VerificationInv, ReportIsAccurate
<1>5. ASSUME NEW f \in Files, NEW c \in Known, CommandWrites(f, c) PROVE ReportInv'
  <2>1. ReportTypeOK'
    BY <1>5 DEF ReportTypeOK, CommandWrites, Change, scanVars
  <2>2. PatchedInv' /\ ScanInv' /\ BaselineInv' /\ VerificationInv'
        /\ ReportIsAccurate'
    BY <1>5 DEF CommandWrites, scanVars, PatchedInv, ScanInv, BaselineInv,
                Shows, VerificationInv, ReportIsAccurate
  <2> QED BY <2>1, <2>2
<1>6. ASSUME NEW f \in Files, NEW c \in Known, OthersWrite(f, c) PROVE ReportInv'
  <2>1. ReportTypeOK'
    BY <1>6 DEF ReportTypeOK, OthersWrite, Change, scanVars
  <2>2. PatchedInv' /\ VerificationInv' /\ ReportIsAccurate'
    BY <1>6 DEF OthersWrite, PatchedInv, VerificationInv, ReportIsAccurate
  <2>3. ScanInv'
    <3>1. /\ Shows(seen, tree, position)
          /\ \A g \in DOMAIN seen : \E i \in 1..(position - 1) : g = Walk[i]
      BY <1>6 DEF OthersWrite, ScanInv
    <3>2. UNCHANGED <<position, seen>> /\ stirred' = stirred \cup {f}
      BY <1>6 DEF OthersWrite, scanVars
    <3>3. \A g : g # f => tree'[g] = tree[g]
      BY <1>6 DEF OthersWrite, Change, ReportTypeOK
    <3>4. Shows(seen, tree, position)'
      BY <3>1, <3>2, <3>3 DEF Shows
    <3> QED BY <3>1, <3>2, <3>4 DEF ScanInv
  <2>4. BaselineInv'
    BY <1>6 DEF OthersWrite, BaselineInv, Shows
  <2> QED BY <2>1, <2>2, <2>3, <2>4
<1>7. ASSUME NEW f \in Files, NEW c \in Versions, PatchFile(f, c) PROVE ReportInv'
  <2>1. ReportTypeOK'
    BY <1>7 DEF ReportTypeOK, PatchFile, Change, scanVars, Known
  <2>2. PatchedInv'
    BY <1>7 DEF PatchFile, PatchedInv
  <2>3. ScanInv' /\ BaselineInv' /\ VerificationInv' /\ ReportIsAccurate'
    BY <1>7 DEF PatchFile, scanVars, ScanInv, BaselineInv, Shows,
                VerificationInv, ReportIsAccurate
  <2> QED BY <2>1, <2>2, <2>3
<1>8. ASSUME NEW command \in DOMAIN Verifies, NEW how \in {"ok", "failed"},
             EndCommand(command, how)
      PROVE  ReportInv'
  <2>1. ReportTypeOK' /\ PatchedInv' /\ ScanInv' /\ BaselineInv'
        /\ ReportIsAccurate'
    BY <1>8 DEF EndCommand, scanVars, ReportTypeOK, PatchedInv, ScanInv,
                BaselineInv, Shows, ReportIsAccurate
  <2>2. VerificationInv'
    <3>1. CASE IsVerification(command)
      <4>1. ends' = ends \cup {how}
        BY <1>8, <3>1 DEF TableIsTrue, EndCommand
      <4>2. verification' = IF verification = "failed" \/ how = "failed"
                            THEN "failed" ELSE "passed"
        BY <1>8, <3>1 DEF EndCommand, Combine
      <4> QED BY <4>1, <4>2 DEF VerificationInv
    <3>2. CASE ~IsVerification(command)
      <4>1. ends' = ends
        BY <1>8, <3>2 DEF TableIsTrue, EndCommand
      <4>2. verification' = verification
        BY <1>8, <3>2 DEF EndCommand, Combine
      <4> QED BY <4>1, <4>2 DEF VerificationInv
    <3> QED BY <3>1, <3>2
  <2> QED BY <2>1, <2>2
<1>9. ASSUME BeginReport PROVE ReportInv'
  <2>1. ReportTypeOK'
    BY <1>9, WalkType DEF ReportTypeOK, BeginReport, BeginScan, scanVars
  <2>2. PatchedInv' /\ VerificationInv'
    BY <1>9 DEF BeginReport, BeginScan, PatchedInv, VerificationInv
  <2>3. ScanInv' /\ BaselineInv'
    BY <1>9 DEF BeginReport, BeginScan, scanVars, ScanInv, BaselineInv, Shows
  <2>4. ReportIsAccurate'
    BY <1>9 DEF BeginReport, BeginScan, PatchedInv, VerificationInv,
                ReportIsAccurate
  <2> QED BY <2>1, <2>2, <2>3, <2>4
<1>10. ASSUME FinishReport PROVE ReportInv'
  <2>1. ReportTypeOK'
    BY <1>10, MinOfTwo, WalkType DEF FinishReport, scanVars, ReportTypeOK
  <2>4. BaselineInv'
    <3>1. 1..(reach' - 1) \subseteq 1..(reach - 1)
      BY <1>10, MinOfTwo, WalkType DEF FinishReport, ReportTypeOK
    <3> QED BY <1>10, <3>1 DEF FinishReport, BaselineInv, Shows
  <2>5. ScanInv' /\ VerificationInv'
    BY <1>10 DEF FinishReport, ScanInv, VerificationInv
  <2>2. PatchedInv'
    BY <1>10 DEF FinishReport, PatchedInv
  <2>3. ReportIsAccurate'
    BY <1>10, FinishIsAccurate DEF FinishReport
  <2> QED BY <2>1, <2>2, <2>3, <2>4, <2>5
<1>11. ASSUME UNCHANGED reportVars PROVE ReportInv'
  BY <1>11 DEF reportVars, scanVars, ReportTypeOK, PatchedInv, ScanInv,
               BaselineInv, Shows, VerificationInv, ReportIsAccurate
<1> QED
  BY <1>1, <1>2, <1>3, <1>4, <1>5, <1>6, <1>7, <1>8, <1>9, <1>10, <1>11
  DEF ReportStep, Known

(* The inductive invariant. *)
THEOREM ReportInvariance == ASSUME TableIsTrue PROVE ReportSpec => []ReportInv
BY InitReportInv, StepReportInv, PTL DEF ReportSpec

(* Files of patches are reported; of the files both walks reached and      *)
(* nobody wrote while they went on, exactly those that changed are; and a  *)
(* failed verification is never hidden (final_changed_files,               *)
(* VerificationStatus::combine).                                           *)
THEOREM ReportsAreAccurate ==
  ASSUME TableIsTrue PROVE ReportSpec => []ReportIsAccurate
<1>1. ReportInv => ReportIsAccurate
  BY DEF ReportInv
<1> QED BY <1>1, ReportInvariance, PTL
=============================================================================
