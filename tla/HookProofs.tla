----------------------------- MODULE HookProofs -----------------------------
(***************************************************************************)
(* Proofs about HookCapture: for any calls, files and contents, any number *)
(* of hooks at once, and any writes and kills.                             *)
(***************************************************************************)
EXTENDS HookCapture, TLAPS

(***************************************************************************)
(* Types                                                                   *)
(***************************************************************************)

(* Entries taken out leave the others as they were.                         *)
LEMMA WithoutTypes ==
  ASSUME NEW f, NEW S, MapTo(f, S), NEW P
  PROVE  /\ MapTo(Without(f, P), S)
         /\ DOMAIN Without(f, P) = DOMAIN f \ P
         /\ \A q \in DOMAIN f \ P : Without(f, P)[q] = f[q]
BY DEF MapTo, Without

(* No files is a map to anything.                                           *)
LEMMA NoFilesTypes == ASSUME NEW S PROVE MapTo(NoFiles, S) /\ DOMAIN NoFiles = {}
BY DEF MapTo, NoFiles

(* A walk reports files as they are, and as gone only if they had an entry. *)
LEMMA DriftTypes ==
  ASSUME NEW files, fs \in [Paths -> File]
  PROVE  /\ MapTo(Drift(files), File)
         /\ \A p \in DOMAIN Drift(files) : p \in Paths /\ Drift(files)[p] = fs[p]
         /\ \A p \in DOMAIN Drift(files) :
              Drift(files)[p].bytes = Gone => p \in DOMAIN files
BY DEF MapTo, Drift

(* readEntry makes an entry of a file the walk saw.                         *)
LEMMA EntryTypes ==
  ASSUME NEW seen \in File, NEW now \in File, seen.bytes # Gone
  PROVE  ReadEntry(seen, now) \in Entry
BY HookConstants DEF ReadEntry, Entry, File, Contents, Ref

(* A changed path gives at most one delta.                                  *)
LEMMA DeltaTypes ==
  ASSUME NEW files, MapTo(files, Entry), NEW p \in Paths, NEW entry \in Entry
  PROVE  DeltasOf(files, p, entry) \in SUBSET Delta
<1>1. CASE p \notin DOMAIN files
  BY <1>1 DEF DeltasOf, Delta, Entry, Ref
<1>2. CASE p \in DOMAIN files
  <2>1. files[p] \in Entry
    BY <1>2 DEF MapTo
  <2> QED
    BY <1>2, <2>1 DEF DeltasOf, Delta, Entry, Ref
<1> QED
  BY <1>1, <1>2

(* A hook's next local state replaces its last one and no other.            *)
LEMMA HookReplaced ==
  ASSUME TypeOK, NEW c \in Calls, NEW h, HookOK(h), hook' = [hook EXCEPT ![c] = h]
  PROVE  DOMAIN hook' = Calls /\ \A d \in Calls : HookOK(hook'[d])
<1>1. DOMAIN hook = Calls /\ \A d \in Calls : HookOK(hook[d])
  BY DEF TypeOK
<1> QED
  BY <1>1

(* A hook that has not begun is well formed.                                *)
LEMMA IdleHookOK == HookOK(IdleHook)
<1>1. MapTo(NoFiles, Entry) /\ MapTo(NoFiles, File) /\ DOMAIN NoFiles = {}
  BY NoFilesTypes
<1> QED
  BY <1>1 DEF HookOK, IdleHook, Phases

(* The tree's contents are contents.                                        *)
LEMMA ContentsTypes == ASSUME TypeOK PROVE ContentsNow \in [Paths -> Contents]
BY DEF TypeOK, ContentsNow, File

(* The types hold at first.                                                 *)
LEMMA InitTypes == Init => TypeOK
<1> SUFFICES ASSUME Init PROVE TypeOK
  OBVIOUS
<1>1. fs \in [Paths -> File] /\ \A p \in Paths : fs[p].stamp <= writes
  BY DEF Init, File
<1>2. MapTo(manifest.files, Entry) /\ manifest.saved \in BOOLEAN
  BY NoFilesTypes DEF Init
<1>3. DOMAIN manifest = {"saved", "files"}
  BY DEF Init
<1>4. DOMAIN hook = Calls /\ \A c \in Calls : HookOK(hook[c])
  BY IdleHookOK DEF Init
<1>5. ContentsNow \in [Paths -> Contents]
  BY <1>1 DEF ContentsNow, File
<1> QED
  BY <1>1, <1>2, <1>3, <1>4, <1>5, HookConstants DEF Init, TypeOK, Sides

(* A write keeps the tree's types and takes the next stamp.                 *)
LEMMA WriteTypes ==
  ASSUME TypeOK, NEW p \in Paths, NEW b \in Contents, WriteFile(p, b)
  PROVE  /\ fs' \in [Paths -> File] /\ writes' \in 0..MaxWrites
         /\ writes' = writes + 1
         /\ \A q \in Paths : fs'[q].stamp <= writes'
BY HookConstants DEF TypeOK, WriteFile, File

(* A hook that ends or is killed leaves well-formed state.                  *)
LEMMA LeaveTypes ==
  ASSUME TypeOK, NEW c \in Calls, LeaveHook(c)
  PROVE  /\ side' \in [Calls -> Sides]
         /\ DOMAIN hook' = Calls /\ \A d \in Calls : HookOK(hook'[d])
         /\ before' \in [Calls -> [Paths -> Contents]]
<1>1. side' \in [Calls -> Sides]
  BY DEF TypeOK, LeaveHook, Sides
<1>2. DOMAIN hook' = Calls /\ \A d \in Calls : HookOK(hook'[d])
  BY HookReplaced, IdleHookOK DEF LeaveHook
<1>3. before' \in [Calls -> [Paths -> Contents]]
  BY ContentsTypes DEF TypeOK, LeaveHook
<1> QED
  BY <1>1, <1>2, <1>3

(* Starting a call keeps the types.                                         *)
LEMMA StartTypes ==
  ASSUME TypeOK, NEW c \in Calls, StartCall(c) PROVE TypeOK'
<1>1. side' \in [Calls -> Sides]
  BY DEF TypeOK, StartCall, Sides
<1>2. disturbed' \in [Calls -> SUBSET Disturbances]
  BY DEF TypeOK, StartCall, Disturbances
<1> QED
  BY <1>1, <1>2 DEF TypeOK, StartCall

(* Loading the manifest keeps the types.                                    *)
LEMMA LoadTypes ==
  ASSUME TypeOK, NEW c \in Calls, LoadManifest(c) PROVE TypeOK'
<1> DEFINE h == [hook[c] EXCEPT !.at = "scan", !.priming = ~manifest.saved,
                                !.files = manifest.files]
<1>1. hook' = [hook EXCEPT ![c] = h]
  BY DEF LoadManifest
<1>2. HookOK(h)
  BY DEF TypeOK, HookOK, Phases
<1>3. DOMAIN hook' = Calls /\ \A d \in Calls : HookOK(hook'[d])
  BY <1>1, <1>2, HookReplaced
<1>4. began' \in [Calls -> Nat]
  BY HookConstants DEF TypeOK, LoadManifest
<1> QED
  BY <1>3, <1>4 DEF TypeOK, LoadManifest

(* The walk keeps the types.                                                *)
LEMMA ScanTypes ==
  ASSUME TypeOK, NEW c \in Calls, ScanStats(c) PROVE TypeOK'
<1> DEFINE h == [hook[c] EXCEPT !.at = "read", !.drift = Drift(hook[c].files)]
<1>1. hook' = [hook EXCEPT ![c] = h]
  BY DEF ScanStats
<1>2. /\ MapTo(Drift(hook[c].files), File)
      /\ \A p \in DOMAIN Drift(hook[c].files) :
           Drift(hook[c].files)[p].bytes = Gone => p \in DOMAIN hook[c].files
  BY DriftTypes DEF TypeOK
<1>3. HookOK(h)
  BY <1>2 DEF TypeOK, HookOK, Phases
<1>4. DOMAIN hook' = Calls /\ \A d \in Calls : HookOK(hook'[d])
  BY <1>1, <1>3, HookReplaced
<1> QED
  BY <1>4 DEF TypeOK, ScanStats, history

(* Reading a file keeps the types; what the hook and manifest then hold.    *)
LEMMA ReadTypes ==
  ASSUME TypeOK, NEW c \in Calls, NEW p \in Paths, ReadFile(c, p)
  PROVE  /\ TypeOK'
         /\ LET e == ReadEntry(hook[c].drift[p], fs[p])
                files == Put(hook[c].files, p, e)
            IN  /\ p \in DOMAIN hook[c].drift /\ hook[c].drift[p].bytes # Gone
                /\ MapTo(files, Entry)
                /\ DOMAIN hook' = Calls
                /\ hook'[c].files = files
                /\ hook'[c].drift = Without(hook[c].drift, {p})
                /\ \A d \in Calls \ {c} : hook'[d] = hook[d]
                /\ manifest'.files \in {manifest.files, files}
<1> DEFINE e == ReadEntry(hook[c].drift[p], fs[p])
           files == Put(hook[c].files, p, e)
           observing == side[c] = "post" /\ ~hook[c].priming
           found == hook[c].found \cup (IF observing THEN DeltasOf(hook[c].files, p, e) ELSE {})
           h == [hook[c] EXCEPT !.files = files, !.drift = Without(hook[c].drift, {p}),
                                !.touched = @ + 1, !.found = found]
<1>1. HookOK(hook[c])
  BY DEF TypeOK
<1>2. hook' = [hook EXCEPT ![c] = h]
  BY DEF ReadFile
<1>3. /\ hook[c].at = "read"
      /\ p \in DOMAIN hook[c].drift /\ hook[c].drift[p].bytes # Gone
      /\ hook[c].drift[p] \in File /\ fs[p] \in File
  BY <1>1 DEF ReadFile, HookOK, MapTo, TypeOK
<1>4. e \in Entry
  BY <1>3, EntryTypes
<1>5. MapTo(files, Entry) /\ DOMAIN files = DOMAIN hook[c].files \cup {p}
  <2>1. MapTo(hook[c].files, Entry)
    BY <1>1 DEF HookOK
  <2>2. \A x \in Entry : /\ MapTo(Put(hook[c].files, p, x), Entry)
                         /\ DOMAIN Put(hook[c].files, p, x) = DOMAIN hook[c].files \cup {p}
    BY <2>1 DEF MapTo, Put
  <2> QED
    BY <1>4, <2>2
<1>6. /\ MapTo(Without(hook[c].drift, {p}), File)
      /\ DOMAIN Without(hook[c].drift, {p}) = DOMAIN hook[c].drift \ {p}
      /\ \A q \in DOMAIN hook[c].drift \ {p} :
           Without(hook[c].drift, {p})[q] = hook[c].drift[q]
  BY <1>1, WithoutTypes DEF HookOK
<1>7. found \in SUBSET Delta
  BY <1>1, <1>4, DeltaTypes DEF HookOK
<1>8. HookOK(h)
  <2>1. /\ DOMAIN h = DOMAIN hook[c] /\ h.at = hook[c].at /\ h.priming = hook[c].priming
        /\ h.files = files /\ h.drift = Without(hook[c].drift, {p})
        /\ h.touched = hook[c].touched + 1 /\ h.found = found
    <3> HIDE DEF e, files, found
    <3> QED
      BY <1>1 DEF HookOK
  <2> HIDE DEF e, files, found, h
  <2> QED
    <3>1. h.at \in Phases /\ h.priming \in BOOLEAN /\ h.touched \in Nat
      BY <2>1, <1>1 DEF HookOK
    <3>2. MapTo(h.files, Entry) /\ MapTo(h.drift, File) /\ h.found \in SUBSET Delta
      BY <2>1, <1>5, <1>6, <1>7
    <3>3. \A q \in DOMAIN h.drift : h.drift[q].bytes = Gone => q \in DOMAIN h.files
      BY <2>1, <1>1, <1>3, <1>5, <1>6 DEF HookOK
    <3> QED
      BY <2>1, <1>1, <3>1, <3>2, <3>3 DEF HookOK
<1>9. DOMAIN hook' = Calls /\ \A d \in Calls : HookOK(hook'[d])
  BY <1>2, <1>8, HookReplaced
<1>10. /\ DOMAIN manifest' = {"saved", "files"}
       /\ manifest'.saved \in BOOLEAN /\ MapTo(manifest'.files, Entry)
       /\ manifest'.files \in {manifest.files, files}
  <2>1. manifest' \in {manifest, [saved |-> TRUE, files |-> files]}
    BY DEF ReadFile
  <2>2. CASE manifest' = manifest
    BY <2>2 DEF TypeOK
  <2>3. CASE manifest' = [saved |-> TRUE, files |-> files]
    <3> HIDE DEF files
    <3> QED
      BY <2>3, <1>5
  <2> QED
    BY <2>1, <2>2, <2>3
<1>11. TypeOK'
  BY <1>9, <1>10 DEF TypeOK, ReadFile, history
<1>12. /\ hook'[c].files = files /\ hook'[c].drift = Without(hook[c].drift, {p})
       /\ \A d \in Calls \ {c} : hook'[d] = hook[d]
  <2> HIDE DEF e, files, found
  <2> QED
    BY <1>1, <1>2 DEF HookOK, TypeOK
<1> QED
  BY <1>3, <1>5, <1>9, <1>10, <1>11, <1>12

(* The final save keeps the types; what the hook and manifest then hold.    *)
LEMMA SaveTypes ==
  ASSUME TypeOK, NEW c \in Calls, SaveManifest(c)
  PROVE  /\ TypeOK'
         /\ LET files == Without(hook[c].files, DOMAIN hook[c].drift)
            IN  /\ MapTo(files, Entry)
                /\ hook'[c].files = files /\ hook'[c].drift = NoFiles
                /\ \A d \in Calls \ {c} : hook'[d] = hook[d]
                /\ manifest'.files \in {manifest.files, files}
<1> DEFINE files == Without(hook[c].files, DOMAIN hook[c].drift)
           observing == side[c] = "post" /\ ~hook[c].priming
           found == hook[c].found \cup
                      (IF observing THEN DeletesOf(hook[c].files, hook[c].drift) ELSE {})
           h == [hook[c] EXCEPT !.files = files, !.drift = NoFiles, !.found = found,
                                !.at = IF found = {} THEN "drain" ELSE "stash"]
<1>1. HookOK(hook[c])
  BY DEF TypeOK
<1>2. hook' = [hook EXCEPT ![c] = h]
  BY DEF SaveManifest
<1>3. MapTo(files, Entry)
  BY <1>1, WithoutTypes DEF HookOK
<1>4. found \in SUBSET Delta
  <2>1. CASE observing
    <3>1. \A p \in DOMAIN hook[c].drift :
            /\ p \in Paths /\ hook[c].drift[p] \in File
            /\ p \in DOMAIN hook[c].files /\ hook[c].files[p] \in Entry
      BY <1>1 DEF SaveManifest, HookOK, MapTo
    <3>2. DeletesOf(hook[c].files, hook[c].drift) \in SUBSET Delta
      <4>1. ASSUME NEW p \in DOMAIN hook[c].drift
            PROVE  [path |-> p, op |-> "delete", before |-> hook[c].files[p].ref,
                    after |-> NoRef, partial |-> hook[c].files[p].ref = NoRef,
                    stamp |-> hook[c].drift[p].stamp] \in Delta
        BY <3>1 DEF Delta, Entry, File, Ref
      <4> QED
        BY <4>1 DEF DeletesOf
    <3> QED
      BY <1>1, <2>1, <3>2 DEF HookOK
  <2>2. CASE ~observing
    BY <1>1, <2>2 DEF HookOK
  <2> QED
    BY <2>1, <2>2
<1>5. HookOK(h)
  <2>1. MapTo(NoFiles, File) /\ DOMAIN NoFiles = {}
    BY NoFilesTypes
  <2> HIDE DEF files, found
  <2> QED
    BY <2>1, <1>1, <1>3, <1>4 DEF HookOK, Phases
<1>6. DOMAIN hook' = Calls /\ \A d \in Calls : HookOK(hook'[d])
  BY <1>2, <1>5, HookReplaced
<1>7. /\ DOMAIN manifest' = {"saved", "files"}
      /\ manifest'.saved \in BOOLEAN /\ MapTo(manifest'.files, Entry)
      /\ manifest'.files \in {manifest.files, files}
  <2>1. manifest' \in {manifest, [saved |-> TRUE, files |-> files]}
    BY DEF SaveManifest
  <2>2. CASE manifest' = manifest
    BY <2>2 DEF TypeOK
  <2>3. CASE manifest' = [saved |-> TRUE, files |-> files]
    <3> HIDE DEF files
    <3> QED
      BY <2>3, <1>3
  <2> QED
    BY <2>1, <2>2, <2>3
<1>8. TypeOK'
  BY <1>6, <1>7 DEF TypeOK, SaveManifest, history
<1>9. /\ hook'[c].files = files /\ hook'[c].drift = NoFiles
      /\ \A d \in Calls \ {c} : hook'[d] = hook[d]
  <2> HIDE DEF files, found
  <2> QED
    BY <1>1, <1>2 DEF HookOK, TypeOK
<1> QED
  BY <1>3, <1>7, <1>8, <1>9

(* Every step keeps the types.                                              *)
LEMMA StepTypes == TypeOK /\ [Next]_vars => TypeOK'
<1> SUFFICES ASSUME TypeOK, [Next]_vars PROVE TypeOK'
  OBVIOUS
<1>1. CASE UNCHANGED vars
  BY <1>1 DEF TypeOK, vars
<1>2. ASSUME NEW c \in Calls, Hook(c) PROVE TypeOK'
  <2>1. CASE StashRecord(c)
    <3> DEFINE h == [hook[c] EXCEPT !.at = "drain"]
    <3>1. hook' = [hook EXCEPT ![c] = h]
      BY <2>1 DEF StashRecord
    <3>2. HookOK(h)
      BY DEF TypeOK, HookOK, Phases
    <3>3. DOMAIN hook' = Calls /\ \A d \in Calls : HookOK(hook'[d])
      BY <3>1, <3>2, HookReplaced
    <3>4. records' \in [Calls -> SUBSET Delta]
      BY <2>1 DEF StashRecord, TypeOK, HookOK
    <3> QED
      BY <2>1, <3>3, <3>4 DEF TypeOK, StashRecord, history
  <2>2. CASE EndHook(c)
    <3>1. LeaveHook(c)
      BY <2>2 DEF EndHook
    <3> QED
      BY <2>2, <3>1, LeaveTypes DEF TypeOK, EndHook
  <2> QED
    BY <1>2, <2>1, <2>2, LoadTypes, ScanTypes, ReadTypes, SaveTypes DEF Hook
<1>3. ASSUME NEW c \in Calls, KillHook(c) PROVE TypeOK'
  <2>1. LeaveHook(c)
    BY <1>3 DEF KillHook
  <2>2. kills' \in 0..MaxKills
    BY <1>3, HookConstants DEF KillHook, TypeOK
  <2>3. disturbed' \in [Calls -> SUBSET Disturbances]
    BY <1>3 DEF KillHook, TypeOK, Disturbances
  <2> QED
    BY <1>3, <2>1, <2>2, <2>3, LeaveTypes DEF TypeOK, KillHook
<1>4. ASSUME NEW c \in Calls, EndCommand(c) PROVE TypeOK'
  BY <1>4, ContentsTypes DEF TypeOK, EndCommand, Sides
<1>5. ASSUME NEW c \in Calls, NEW p \in Paths, NEW b \in Contents, CommandWrites(c, p, b)
      PROVE  TypeOK'
  <2>1. WriteFile(p, b)
    BY <1>5 DEF CommandWrites
  <2> QED
    BY <1>5, <2>1, WriteTypes DEF TypeOK, CommandWrites, history
<1>6. ASSUME NEW p \in Paths, NEW b \in Contents, AmbientWrite(p, b) PROVE TypeOK'
  <2>1. WriteFile(p, b)
    BY <1>6 DEF AmbientWrite
  <2>2. disturbed' \in [Calls -> SUBSET Disturbances]
    BY <1>6 DEF AmbientWrite, TypeOK, Disturbances
  <2> QED
    BY <1>6, <2>1, <2>2, WriteTypes DEF TypeOK, AmbientWrite
<1> QED
  BY <1>1, <1>2, <1>3, <1>4, <1>5, <1>6, StartTypes DEF Next

(***************************************************************************)
(* TypeCorrect: the manifest, every hook's memory and every stash record    *)
(* keep their types, whatever overlaps and is killed; a hook that reads     *)
(* reports a file gone only if its manifest had it (capturePre,             *)
(* capturePost).                                                            *)
(***************************************************************************)
THEOREM TypeCorrect == Spec => []TypeOK
BY InitTypes, StepTypes, PTL DEF Spec

(***************************************************************************)
(* What the skip of unchanged files needs of every copy of the entries, the *)
(* manifest file and each hook's memory of it: no entry is newer than the   *)
(* last write, and one with the file's stamp has its blob and size.  And of  *)
(* what a walk saw: unless the file was written since, it is the file.      *)
(***************************************************************************)
SkipSound(files, tree, n) ==
  \A p \in DOMAIN files :
    /\ files[p].stamp <= n
    /\ (files[p].stamp = tree[p].stamp /\ tree[p].bytes # Gone)
         => files[p].ref = RefOf(tree[p].bytes) /\ files[p].size = Size[tree[p].bytes]

WalkSound(drift, tree, n) ==
  \A p \in DOMAIN drift :
    /\ drift[p].stamp <= n
    /\ drift[p].stamp = tree[p].stamp => drift[p] = tree[p]

BaselineInv ==
  /\ SkipSound(manifest.files, fs, writes)
  /\ \A c \in Calls : /\ SkipSound(hook[c].files, fs, writes)
                      /\ WalkSound(hook[c].drift, fs, writes)

(* No files are sound.                                                      *)
LEMMA NoFilesSound ==
  ASSUME NEW tree, NEW n
  PROVE  SkipSound(NoFiles, tree, n) /\ WalkSound(NoFiles, tree, n)
BY NoFilesTypes DEF SkipSound, WalkSound

(* Fewer files are as sound.                                                *)
LEMMA WithoutSound ==
  ASSUME NEW f, NEW P, NEW tree, NEW n
  PROVE  /\ SkipSound(f, tree, n) => SkipSound(Without(f, P), tree, n)
         /\ WalkSound(f, tree, n) => WalkSound(Without(f, P), tree, n)
BY DEF SkipSound, WalkSound, Without

(* A write's stamp is newer than every entry and everything a walk saw.     *)
LEMMA WriteKeepsSound ==
  ASSUME TypeOK, NEW p \in Paths, NEW b \in Contents, WriteFile(p, b), NEW f
  PROVE  /\ MapTo(f, Entry) /\ SkipSound(f, fs, writes) => SkipSound(f, fs', writes')
         /\ MapTo(f, File) /\ WalkSound(f, fs, writes) => WalkSound(f, fs', writes')
<1>1. /\ writes \in Nat /\ writes' = writes + 1 /\ fs \in [Paths -> File]
      /\ \A q \in Paths : IF q = p THEN fs'[q].stamp = writes + 1 ELSE fs'[q] = fs[q]
  BY DEF TypeOK, WriteFile
<1>2. ASSUME MapTo(f, Entry), SkipSound(f, fs, writes) PROVE SkipSound(f, fs', writes')
  <2>1. ASSUME NEW q \in DOMAIN f
        PROVE  q \in Paths /\ f[q].stamp \in Nat /\ f[q].stamp <= writes
    BY <1>2 DEF MapTo, Entry, SkipSound
  <2> QED
    BY <1>1, <1>2, <2>1 DEF SkipSound
<1>3. ASSUME MapTo(f, File), WalkSound(f, fs, writes) PROVE WalkSound(f, fs', writes')
  <2>1. ASSUME NEW q \in DOMAIN f
        PROVE  q \in Paths /\ f[q].stamp \in Nat /\ f[q].stamp <= writes
    BY <1>3 DEF MapTo, File, WalkSound
  <2> QED
    BY <1>1, <1>3, <2>1 DEF WalkSound
<1> QED
  BY <1>2, <1>3

(* readEntry keeps the walk's stat and the later bytes: an entry it makes   *)
(* has the file's blob or an outdated stamp.                                *)
LEMMA EntrySound ==
  ASSUME NEW seen \in File, NEW now \in File, seen.bytes # Gone,
         seen.stamp = now.stamp => seen = now
  PROVE  LET e == ReadEntry(seen, now)
         IN  /\ e.stamp = seen.stamp
             /\ (e.stamp = now.stamp /\ now.bytes # Gone)
                  => e.ref = RefOf(now.bytes) /\ e.size = Size[now.bytes]
BY DEF ReadEntry, RefOf

(* A sound entry put into sound entries.                                    *)
LEMMA PutSound ==
  ASSUME NEW f, NEW p, NEW e, NEW tree, NEW n, SkipSound(f, tree, n), e.stamp <= n,
         (e.stamp = tree[p].stamp /\ tree[p].bytes # Gone)
           => e.ref = RefOf(tree[p].bytes) /\ e.size = Size[tree[p].bytes]
  PROVE  SkipSound(Put(f, p, e), tree, n)
BY DEF SkipSound, Put

(* What a walk sees is the tree.                                            *)
LEMMA DriftSound ==
  ASSUME TypeOK, NEW files PROVE WalkSound(Drift(files), fs, writes)
<1>1. \A p \in DOMAIN Drift(files) : p \in Paths /\ Drift(files)[p] = fs[p]
  BY DriftTypes DEF TypeOK
<1> QED
  BY <1>1 DEF TypeOK, WalkSound

(* A step that writes no file: what one hook and the manifest now hold.     *)
LEMMA HookKeepsBaseline ==
  ASSUME BaselineInv, fs' = fs, writes' = writes, NEW c \in Calls,
         \A d \in Calls \ {c} : hook'[d] = hook[d],
         SkipSound(hook'[c].files, fs, writes), WalkSound(hook'[c].drift, fs, writes),
         SkipSound(manifest'.files, fs, writes)
  PROVE  BaselineInv'
BY DEF BaselineInv

(* A hook that ends or is killed leaves the invariant.                      *)
LEMMA LeaveKeepsBaseline ==
  ASSUME TypeOK, BaselineInv, NEW c \in Calls, LeaveHook(c),
         fs' = fs, writes' = writes, manifest' = manifest
  PROVE  BaselineInv'
<1>1. hook'[c].files = NoFiles /\ hook'[c].drift = NoFiles
  BY DEF TypeOK, LeaveHook, IdleHook
<1>2. \A d \in Calls \ {c} : hook'[d] = hook[d]
  BY DEF TypeOK, LeaveHook
<1>3. SkipSound(hook'[c].files, fs, writes) /\ WalkSound(hook'[c].drift, fs, writes)
  BY <1>1, NoFilesSound
<1> QED
  BY <1>2, <1>3, HookKeepsBaseline DEF BaselineInv

(* A write leaves it in every copy of the entries.                          *)
LEMMA WriteKeepsBaseline ==
  ASSUME TypeOK, BaselineInv, NEW p \in Paths, NEW b \in Contents, WriteFile(p, b),
         hook' = hook, manifest' = manifest
  PROVE  BaselineInv'
<1>1. SkipSound(manifest'.files, fs', writes')
  <2>1. MapTo(manifest.files, Entry) /\ SkipSound(manifest.files, fs, writes)
    BY DEF TypeOK, BaselineInv
  <2> QED
    BY <2>1, WriteKeepsSound
<1>2. ASSUME NEW d \in Calls
      PROVE  /\ SkipSound(hook'[d].files, fs', writes')
             /\ WalkSound(hook'[d].drift, fs', writes')
  <2>1. /\ MapTo(hook[d].files, Entry) /\ SkipSound(hook[d].files, fs, writes)
        /\ MapTo(hook[d].drift, File) /\ WalkSound(hook[d].drift, fs, writes)
    BY DEF TypeOK, HookOK, BaselineInv
  <2> QED
    BY <2>1, WriteKeepsSound
<1> QED
  BY <1>1, <1>2 DEF BaselineInv

(* Reading a file leaves it, checkpoint included.                           *)
LEMMA ReadKeepsBaseline ==
  ASSUME TypeOK, BaselineInv, NEW c \in Calls, NEW p \in Paths, ReadFile(c, p)
  PROVE  BaselineInv'
<1> DEFINE seen == hook[c].drift[p]
           e == ReadEntry(seen, fs[p])
           files == Put(hook[c].files, p, e)
<1>1. /\ p \in DOMAIN hook[c].drift /\ seen.bytes # Gone
      /\ hook'[c].files = files
      /\ hook'[c].drift = Without(hook[c].drift, {p})
      /\ \A d \in Calls \ {c} : hook'[d] = hook[d]
      /\ manifest'.files \in {manifest.files, files}
  BY ReadTypes
<1>2. /\ seen \in File /\ fs[p] \in File
      /\ seen.stamp <= writes
      /\ seen.stamp = fs[p].stamp => seen = fs[p]
  BY <1>1 DEF TypeOK, HookOK, MapTo, BaselineInv, WalkSound
<1>3. e.stamp = seen.stamp
  BY <1>1, <1>2, EntrySound
<1>4. (e.stamp = fs[p].stamp /\ fs[p].bytes # Gone)
        => e.ref = RefOf(fs[p].bytes) /\ e.size = Size[fs[p].bytes]
  BY <1>1, <1>2, EntrySound
<1>5. SkipSound(files, fs, writes)
  <2>1. SkipSound(hook[c].files, fs, writes)
    BY DEF BaselineInv
  <2>2. e.stamp <= writes
    BY <1>2, <1>3
  <2> HIDE DEF e
  <2> QED
    BY <2>1, <2>2, <1>4, PutSound
<1>6. WalkSound(hook'[c].drift, fs, writes)
  BY <1>1, WithoutSound DEF BaselineInv
<1>7. SkipSound(hook'[c].files, fs, writes) /\ SkipSound(manifest'.files, fs, writes)
  <2> HIDE DEF files
  <2> QED
    BY <1>1, <1>5 DEF BaselineInv
<1>8. fs' = fs /\ writes' = writes
  BY DEF ReadFile
<1> QED
  BY <1>1, <1>6, <1>7, <1>8, HookKeepsBaseline

(* The final save leaves it.                                                *)
LEMMA SaveKeepsBaseline ==
  ASSUME TypeOK, BaselineInv, NEW c \in Calls, SaveManifest(c)
  PROVE  BaselineInv'
<1> DEFINE files == Without(hook[c].files, DOMAIN hook[c].drift)
<1>1. /\ hook'[c].files = files /\ hook'[c].drift = NoFiles
      /\ \A d \in Calls \ {c} : hook'[d] = hook[d]
      /\ manifest'.files \in {manifest.files, files}
  BY SaveTypes
<1>2. SkipSound(files, fs, writes)
  BY WithoutSound DEF BaselineInv
<1>3. SkipSound(hook'[c].files, fs, writes) /\ SkipSound(manifest'.files, fs, writes)
  <2> HIDE DEF files
  <2> QED
    BY <1>1, <1>2 DEF BaselineInv
<1>4. WalkSound(hook'[c].drift, fs, writes)
  BY <1>1, NoFilesSound
<1>5. fs' = fs /\ writes' = writes
  BY DEF SaveManifest
<1> QED
  BY <1>1, <1>3, <1>4, <1>5, HookKeepsBaseline

(* So does every other step of a hook.                                      *)
LEMMA HookKeepsBaselineInv ==
  ASSUME TypeOK, BaselineInv, NEW c \in Calls, Hook(c)
  PROVE  BaselineInv'
<1>1. CASE LoadManifest(c)
  <2>1. /\ hook'[c].files = manifest.files /\ hook'[c].drift = hook[c].drift
        /\ \A d \in Calls \ {c} : hook'[d] = hook[d]
    BY <1>1 DEF LoadManifest, TypeOK, HookOK
  <2>2. fs' = fs /\ writes' = writes /\ manifest' = manifest
    BY <1>1 DEF LoadManifest
  <2> QED
    BY <2>1, <2>2, HookKeepsBaseline DEF BaselineInv
<1>2. CASE ScanStats(c)
  <2>1. /\ hook'[c].files = hook[c].files /\ hook'[c].drift = Drift(hook[c].files)
        /\ \A d \in Calls \ {c} : hook'[d] = hook[d]
    BY <1>2 DEF ScanStats, TypeOK, HookOK
  <2>2. fs' = fs /\ writes' = writes /\ manifest' = manifest
    BY <1>2 DEF ScanStats
  <2>3. WalkSound(Drift(hook[c].files), fs, writes)
    BY DriftSound
  <2> QED
    BY <2>1, <2>2, <2>3, HookKeepsBaseline DEF BaselineInv
<1>3. CASE StashRecord(c)
  <2>1. /\ hook'[c].files = hook[c].files /\ hook'[c].drift = hook[c].drift
        /\ \A d \in Calls \ {c} : hook'[d] = hook[d]
    BY <1>3 DEF StashRecord, TypeOK, HookOK
  <2>2. fs' = fs /\ writes' = writes /\ manifest' = manifest
    BY <1>3 DEF StashRecord
  <2> QED
    BY <2>1, <2>2, HookKeepsBaseline DEF BaselineInv
<1>4. CASE EndHook(c)
  BY <1>4, LeaveKeepsBaseline DEF EndHook
<1> QED
  BY <1>1, <1>2, <1>3, <1>4, ReadKeepsBaseline, SaveKeepsBaseline DEF Hook

(* Every step leaves it.                                                    *)
LEMMA StepKeepsBaseline == TypeOK /\ BaselineInv /\ [Next]_vars => BaselineInv'
<1> SUFFICES ASSUME TypeOK, BaselineInv, [Next]_vars PROVE BaselineInv'
  OBVIOUS
<1>1. CASE UNCHANGED vars
  BY <1>1 DEF BaselineInv, vars
<1>2. ASSUME NEW c \in Calls, StartCall(c) PROVE BaselineInv'
  BY <1>2 DEF StartCall, BaselineInv
<1>3. ASSUME NEW c \in Calls, KillHook(c) PROVE BaselineInv'
  BY <1>3, LeaveKeepsBaseline DEF KillHook
<1>4. ASSUME NEW c \in Calls, EndCommand(c) PROVE BaselineInv'
  BY <1>4 DEF EndCommand, BaselineInv
<1>5. ASSUME NEW c \in Calls, NEW p \in Paths, NEW b \in Contents, CommandWrites(c, p, b)
      PROVE  BaselineInv'
  BY <1>5, WriteKeepsBaseline DEF CommandWrites
<1>6. ASSUME NEW p \in Paths, NEW b \in Contents, AmbientWrite(p, b) PROVE BaselineInv'
  BY <1>6, WriteKeepsBaseline DEF AmbientWrite
<1> QED
  BY <1>1, <1>2, <1>3, <1>4, <1>5, <1>6, HookKeepsBaselineInv DEF Next

(* It holds at first.                                                       *)
LEMMA InitBaseline == Init => BaselineInv
BY NoFilesSound DEF Init, BaselineInv, IdleHook

(* It implies the skip's soundness.                                         *)
LEMMA BaselineGivesSkip == BaselineInv => NoStaleBaseline
BY DEF BaselineInv, SkipSound, NoStaleBaseline, RefOf

(***************************************************************************)
(* SkipIsSound: the stat-only skip of capturePre and capturePost never      *)
(* passes over a file whose blob the manifest does not have, for any number *)
(* of overlapping hooks, racing writers and kills.                          *)
(***************************************************************************)
THEOREM SkipIsSound == Spec => []NoStaleBaseline
<1>1. Init => TypeOK /\ BaselineInv
  BY InitTypes, InitBaseline
<1>2. TypeOK /\ BaselineInv /\ [Next]_vars => (TypeOK /\ BaselineInv)'
  BY StepTypes, StepKeepsBaseline
<1> QED
  BY <1>1, <1>2, BaselineGivesSkip, PTL DEF Spec


(***************************************************************************)
(* What each step of a hook does, field by field.                          *)
(***************************************************************************)
LEMMA HookLeavesOthers ==
  ASSUME TypeOK, NEW c \in Calls, Hook(c)
  PROVE  /\ InHook(c) /\ UNCHANGED <<fs, writes, disturbed, after, kills>>
         /\ \A d \in Calls \ {c} :
              /\ hook'[d] = hook[d] /\ side'[d] = side[d] /\ records'[d] = records[d]
              /\ began'[d] = began[d] /\ before'[d] = before[d]
BY DEF Hook, LoadManifest, ScanStats, ReadFile, SaveManifest, StashRecord, EndHook, LeaveHook,
       TypeOK, history

LEMMA LoadEffect ==
  ASSUME TypeOK, NEW c \in Calls, LoadManifest(c)
  PROVE  /\ hook[c].at = "load" /\ hook'[c].at = "scan" /\ hook'[c].priming = ~manifest.saved
         /\ hook'[c].files = manifest.files
         /\ hook'[c].drift = hook[c].drift /\ hook'[c].touched = hook[c].touched
         /\ hook'[c].found = hook[c].found
         /\ began'[c] = IF side[c] = "pre" THEN writes ELSE began[c]
         /\ UNCHANGED <<manifest, side, records, before>>
BY DEF LoadManifest, TypeOK, HookOK

LEMMA ScanEffect ==
  ASSUME TypeOK, NEW c \in Calls, ScanStats(c)
  PROVE  /\ hook[c].at = "scan" /\ hook'[c].at = "read" /\ hook'[c].priming = hook[c].priming
         /\ hook'[c].files = hook[c].files /\ hook'[c].drift = Drift(hook[c].files)
         /\ hook'[c].touched = hook[c].touched /\ hook'[c].found = hook[c].found
         /\ UNCHANGED <<manifest, side, records, began, before>>
BY DEF ScanStats, TypeOK, HookOK, history

Observing(c) == side[c] = "post" /\ ~hook[c].priming

LEMMA ReadEffect ==
  ASSUME TypeOK, NEW c \in Calls, NEW p \in Paths, ReadFile(c, p)
  PROVE  LET h == hook[c]
             e == ReadEntry(h.drift[p], fs[p])
             files == Put(h.files, p, e)
         IN  /\ h.at = "read" /\ hook'[c].at = "read" /\ hook'[c].priming = h.priming
             /\ p \in DOMAIN h.drift /\ h.drift[p].bytes # Gone
             /\ hook'[c].files = files /\ hook'[c].drift = Without(h.drift, {p})
             /\ hook'[c].touched = h.touched + 1
             /\ hook'[c].found = h.found \cup (IF Observing(c) THEN DeltasOf(h.files, p, e) ELSE {})
             /\ manifest' = manifest \/ (~Observing(c) /\ manifest' = [saved |-> TRUE, files |-> files])
             /\ UNCHANGED <<side, records, began, before>>
<1> DEFINE h == hook[c]
           e == ReadEntry(h.drift[p], fs[p])
           files == Put(h.files, p, e)
           drift == Without(h.drift, {p})
           found == h.found \cup (IF Observing(c) THEN DeltasOf(h.files, p, e) ELSE {})
<1>1. hook' = [hook EXCEPT ![c] = [h EXCEPT !.files = files, !.drift = drift,
                                           !.touched = h.touched + 1, !.found = found]]
  BY DEF ReadFile, Observing
<1>2. HookOK(h) /\ DOMAIN hook = Calls
  BY DEF TypeOK
<1>3. /\ hook'[c].at = h.at /\ hook'[c].priming = h.priming
      /\ hook'[c].files = files /\ hook'[c].drift = drift /\ hook'[c].touched = h.touched + 1
      /\ hook'[c].found = found
  <2> HIDE DEF files, drift, found, h
  <2> QED
    BY <1>1, <1>2 DEF HookOK
<1>4. manifest' = manifest \/ (~Observing(c) /\ manifest' = [saved |-> TRUE, files |-> files])
  BY DEF ReadFile, Observing
<1>5. /\ h.at = "read" /\ p \in DOMAIN h.drift /\ h.drift[p].bytes # Gone
      /\ UNCHANGED <<side, records, began, before>>
  BY DEF ReadFile, history
<1> QED
  BY <1>3, <1>4, <1>5

LEMMA SaveEffect ==
  ASSUME TypeOK, NEW c \in Calls, SaveManifest(c)
  PROVE  LET h == hook[c]
             files == Without(h.files, DOMAIN h.drift)
         IN  /\ h.at = "read" /\ \A p \in DOMAIN h.drift : h.drift[p].bytes = Gone
             /\ hook'[c].files = files /\ hook'[c].drift = NoFiles
             /\ hook'[c].priming = h.priming /\ hook'[c].touched = h.touched
             /\ hook'[c].found =
                  h.found \cup (IF Observing(c) THEN DeletesOf(h.files, h.drift) ELSE {})
             /\ hook'[c].at = IF hook'[c].found = {} THEN "drain" ELSE "stash"
             /\ manifest' = IF h.priming \/ h.touched > 0 \/ DOMAIN h.drift # {}
                            THEN [saved |-> TRUE, files |-> files] ELSE manifest
             /\ UNCHANGED <<side, records, began, before>>
<1> DEFINE h == hook[c]
           files == Without(h.files, DOMAIN h.drift)
           found == h.found \cup (IF Observing(c) THEN DeletesOf(h.files, h.drift) ELSE {})
           at == IF found = {} THEN "drain" ELSE "stash"
<1>1. hook' = [hook EXCEPT ![c] = [h EXCEPT !.files = files, !.drift = NoFiles, !.found = found,
                                           !.at = at]]
  BY DEF SaveManifest, Observing
<1>2. HookOK(h) /\ DOMAIN hook = Calls
  BY DEF TypeOK
<1>3. /\ hook'[c].at = at /\ hook'[c].priming = h.priming /\ hook'[c].touched = h.touched
      /\ hook'[c].files = files /\ hook'[c].drift = NoFiles /\ hook'[c].found = found
  <2> HIDE DEF files, found, at, h
  <2> QED
    BY <1>1, <1>2 DEF HookOK
<1>4. /\ h.at = "read" /\ \A p \in DOMAIN h.drift : h.drift[p].bytes = Gone
      /\ manifest' = IF h.priming \/ h.touched > 0 \/ DOMAIN h.drift # {}
                     THEN [saved |-> TRUE, files |-> files] ELSE manifest
      /\ UNCHANGED <<side, records, began, before>>
  BY DEF SaveManifest, history
<1> QED
  BY <1>3, <1>4

LEMMA StashEffect ==
  ASSUME TypeOK, NEW c \in Calls, StashRecord(c)
  PROVE  /\ hook[c].at = "stash" /\ hook'[c].at = "drain" /\ records'[c] = hook[c].found
         /\ hook'[c].files = hook[c].files /\ hook'[c].drift = hook[c].drift
         /\ hook'[c].priming = hook[c].priming /\ hook'[c].touched = hook[c].touched
         /\ hook'[c].found = hook[c].found
         /\ UNCHANGED <<manifest, side, began, before>>
BY DEF StashRecord, TypeOK, HookOK, history

LEMMA LeaveEffect ==
  ASSUME TypeOK, NEW c \in Calls, LeaveHook(c)
  PROVE  /\ hook'[c] = IdleHook
         /\ side'[c] = IF side[c] = "pre" THEN "running" ELSE "done"
         /\ before'[c] = IF side[c] = "pre" THEN ContentsNow ELSE before[c]
         /\ \A d \in Calls \ {c} :
              hook'[d] = hook[d] /\ side'[d] = side[d] /\ before'[d] = before[d]
BY DEF LeaveHook, TypeOK

(***************************************************************************)
(* Who is charged with what                                                *)
(*                                                                         *)
(* First the shape of a hook: what it holds in each phase.  A call beside   *)
(* which no other ran is the only active one.                              *)
(***************************************************************************)
Alone(c) == "call" \notin disturbed[c]
Calm(c) == disturbed[c] \subseteq {"write"}
Quiet(c) == disturbed[c] = {}

HookShape(c) ==
  /\ ~InHook(c) \/ hook[c].at = "load" => hook[c] = IdleHook
  /\ hook[c].at = "scan" =>
       hook[c].drift = NoFiles /\ hook[c].found = {} /\ hook[c].touched = 0
  /\ hook[c].at = "read" =>
       \A p \in DOMAIN hook[c].drift : hook[c].drift[p].stamp <= fs[p].stamp
  /\ hook[c].at \in {"stash", "drain"} => hook[c].drift = NoFiles
  /\ \A x \in hook[c].found :
       x.path \notin DOMAIN hook[c].drift /\ x.stamp <= fs[x.path].stamp
  /\ \A x \in records[c] : x.stamp <= fs[x.path].stamp
  /\ hook[c].found # {} => side[c] = "post"
  /\ hook[c].found # {} /\ hook[c].at = "read" => hook[c].touched > 0
  /\ hook[c].at = "stash" => side[c] = "post"
  /\ side[c] = "done" \/ (side[c] = "post" /\ hook[c].at = "drain") \/ records[c] = {}

OnlyActive(c) ==
  /\ side[c] = "idle" => disturbed[c] = {}
  /\ c \in Active /\ Alone(c) => Active = {c}

(***************************************************************************)
(* A delta is settled with some entries when a walk that compares them with *)
(* the tree cannot find its write again.                                   *)
(***************************************************************************)
Agrees(files, p) ==
  IF fs[p].bytes = Gone THEN p \notin DOMAIN files
  ELSE p \in DOMAIN files /\ files[p].stamp = fs[p].stamp

Settled(files, x) == fs[x.path].stamp = x.stamp => Agrees(files, x.path)

(* The deltas of a call are settled with its own entries, and with the       *)
(* manifest once that is saved, if nobody else saves it.                     *)
OwnSettled(c) ==
  /\ \A x \in hook[c].found : Settled(hook[c].files, x)
  /\ hook[c].at = "stash" /\ Alone(c) => \A x \in hook[c].found : Settled(manifest.files, x)

(* From then on they are settled with every copy, and no walk has them.      *)
Same(x, y) == x.path = y.path /\ x.stamp = y.stamp

Tame(x, c) ==
  hook[c].at # "load" =>
    /\ Settled(hook[c].files, x)
    /\ x.path \in DOMAIN hook[c].drift => hook[c].drift[x.path].stamp > x.stamp

ChargedSettled(d) ==
  Alone(d) => \A x \in records[d] :
    /\ Settled(manifest.files, x)
    /\ \A c \in Calls : Tame(x, c) /\ (c # d => \A y \in hook[c].found : ~Same(x, y))

(***************************************************************************)
(* A call that ran alone and whose hooks were not killed: its pre hook folds *)
(* in every earlier write, so the manifest agrees with the tree but for      *)
(* writes since, and the post hook finds those only.                        *)
(***************************************************************************)
AgreesSince(files, n) == \A p \in Paths : fs[p].stamp <= n => Agrees(files, p)

Begun(c) ==
  \/ side[c] = "pre" /\ hook[c].at # "load"
  \/ side[c] \in {"running", "post"}

CalmPast(c) ==
  /\ began[c] \in Nat /\ began[c] <= writes
  /\ \A d \in Calls \ {c} : \A y \in records[d] : y.stamp <= began[c]

CalmPre(c) ==
  LET h == hook[c]
  IN  /\ h.at \in {"scan", "read"} => h.priming \/ manifest.saved
      /\ h.at = "scan" => h.files = manifest.files
      /\ h.at = "read" =>
           /\ \A p \in Paths : fs[p].stamp <= began[c] =>
                IF p \in DOMAIN h.drift THEN h.drift[p] = fs[p] ELSE Agrees(h.files, p)
           /\ h.touched = 0 => h.files = manifest.files
      /\ h.at = "drain" => manifest.saved /\ AgreesSince(manifest.files, began[c])

CalmPost(c) ==
  LET h == hook[c]
  IN  /\ h.at = "load" => manifest.saved /\ AgreesSince(manifest.files, began[c])
      /\ h.at = "scan" => ~h.priming /\ AgreesSince(h.files, began[c])
      /\ h.at = "read" => ~h.priming /\ \A p \in DOMAIN h.drift : h.drift[p].stamp > began[c]

CalmFound(c) == \A x \in hook[c].found \cup records[c] : x.stamp > began[c]

CalmInv(c) ==
  Calm(c) /\ Begun(c) =>
    /\ CalmPast(c) /\ CalmFound(c)
    /\ side[c] = "pre" => CalmPre(c)
    /\ side[c] = "running" => manifest.saved /\ AgreesSince(manifest.files, began[c])
    /\ side[c] = "post" => CalmPost(c)

CalmDone(c) ==
  Calm(c) /\ side[c] = "done" => \A x \in records[c] : x.stamp > began[c]

(* A delta is of the path and the write its hook saw.                       *)
LEMMA DeltaStamps ==
  ASSUME NEW files, NEW seen, NEW now, NEW p,
         NEW x \in DeltasOf(files, p, ReadEntry(seen, now))
  PROVE  x.path = p /\ x.stamp = seen.stamp
<1>1. ReadEntry(seen, now).stamp = seen.stamp
  BY DEF ReadEntry
<1>2. \A e : \A y \in DeltasOf(files, p, e) : y.path = p /\ y.stamp = e.stamp
  BY DEF DeltasOf
<1> QED
  BY <1>1, <1>2

LEMMA DeleteStamps ==
  ASSUME NEW files, NEW drift, NEW x \in DeletesOf(files, drift)
  PROVE  x.path \in DOMAIN drift /\ x.stamp = drift[x.path].stamp
BY DEF DeletesOf

LEMMA OwnShape ==
  ASSUME TypeOK, NEW c \in Calls, HookShape(c), Hook(c) PROVE HookShape(c)'
<1> DEFINE h == hook[c]
<1>s. /\ InHook(c) /\ fs' = fs
      /\ side \in [Calls -> Sides] /\ side[c] \in {"pre", "post"}
      /\ records \in [Calls -> SUBSET Delta]
  BY HookLeavesOthers DEF InHook, TypeOK
<1>1. CASE LoadManifest(c)
  <2>1. hook[c] = IdleHook /\ side' = side /\ records' = records /\ hook'[c].at = "scan"
        /\ hook'[c].drift = NoFiles /\ hook'[c].found = {} /\ hook'[c].touched = 0
    BY <1>1, LoadEffect DEF HookShape, IdleHook
  <2>2. records[c] = {}
    BY <1>1, <1>s, LoadEffect DEF HookShape
  <2> QED
    BY <1>s, <2>1, <2>2 DEF HookShape, InHook
<1>2. CASE ScanStats(c)
  <2>1. /\ h.at = "scan" /\ hook'[c].at = "read" /\ hook'[c].drift = Drift(h.files)
        /\ hook'[c].found = {} /\ side' = side /\ records' = records
    BY <1>2, ScanEffect DEF HookShape
  <2>2. \A p \in DOMAIN Drift(h.files) : p \in Paths /\ Drift(h.files)[p] = fs[p]
    BY DriftTypes DEF TypeOK
  <2>3. \A p \in DOMAIN hook'[c].drift : hook'[c].drift[p].stamp <= fs[p].stamp
    BY <2>1, <2>2 DEF TypeOK, File
  <2>4. hook'[c].at \notin {"load", "scan", "stash", "drain"}
    BY <2>1
  <2>5. records[c] = {}
    BY <1>s, <2>1 DEF HookShape
  <2> HIDE DEF h
  <2> QED
    BY <1>s, <2>1, <2>3, <2>4, <2>5 DEF HookShape, InHook
<1>3. ASSUME NEW p \in Paths, ReadFile(c, p) PROVE HookShape(c)'
  <2> DEFINE e == ReadEntry(h.drift[p], fs[p])
  <2>1. /\ h.at = "read" /\ hook'[c].at = "read" /\ p \in DOMAIN h.drift
        /\ hook'[c].drift = Without(h.drift, {p}) /\ hook'[c].touched = h.touched + 1
        /\ hook'[c].found = h.found \cup (IF Observing(c) THEN DeltasOf(h.files, p, e) ELSE {})
        /\ side' = side /\ records' = records
    BY <1>3, ReadEffect
  <2>2. /\ DOMAIN hook'[c].drift = DOMAIN h.drift \ {p}
        /\ \A q \in DOMAIN h.drift \ {p} : hook'[c].drift[q] = h.drift[q]
    <3>1. MapTo(h.drift, File)
      BY DEF TypeOK, HookOK
    <3>2. /\ DOMAIN Without(h.drift, {p}) = DOMAIN h.drift \ {p}
          /\ \A q \in DOMAIN h.drift \ {p} : Without(h.drift, {p})[q] = h.drift[q]
      BY <3>1, WithoutTypes
    <3> QED
      BY <2>1, <3>2
  <2>3. \A x \in DeltasOf(h.files, p, e) : x.path = p /\ x.stamp = h.drift[p].stamp
    BY DeltaStamps
  <2> HIDE DEF e
  <2>4. \A x \in hook'[c].found : \/ x \in h.found
                                  \/ Observing(c) /\ x.path = p /\ x.stamp = h.drift[p].stamp
    BY <2>1, <2>3
  <2>5. h.touched \in Nat
    BY DEF TypeOK, HookOK
  <2>6. \A x \in hook'[c].found : x.path \notin DOMAIN hook'[c].drift /\ x.stamp <= fs[x.path].stamp
    BY <2>1, <2>2, <2>4 DEF HookShape
  <2>7. hook'[c].found # {} => side[c] = "post"
    BY <2>4 DEF HookShape, Observing
  <2>8. \A q \in DOMAIN hook'[c].drift : hook'[c].drift[q].stamp <= fs[q].stamp
    BY <2>1, <2>2 DEF HookShape
  <2>9. records[c] = {} /\ hook'[c].touched > 0
    BY <1>s, <2>1, <2>5 DEF HookShape
  <2> QED
    BY <1>s, <2>1, <2>6, <2>7, <2>8, <2>9 DEF HookShape, InHook
<1>4. CASE SaveManifest(c)
  <2>1. /\ h.at = "read" /\ hook'[c].drift = NoFiles
        /\ hook'[c].found = h.found \cup (IF Observing(c) THEN DeletesOf(h.files, h.drift) ELSE {})
        /\ hook'[c].at = IF hook'[c].found = {} THEN "drain" ELSE "stash"
        /\ side' = side /\ records' = records
    BY <1>4, SaveEffect
  <2>2. \A x \in DeletesOf(h.files, h.drift) : x.path \in DOMAIN h.drift
                                               /\ x.stamp = h.drift[x.path].stamp
    BY DeleteStamps
  <2>3. \A x \in hook'[c].found : x.stamp <= fs[x.path].stamp
    BY <2>1, <2>2 DEF HookShape
  <2>4. hook'[c].found # {} => side[c] = "post"
    BY <2>1 DEF HookShape, Observing
  <2>5. DOMAIN NoFiles = {} /\ records[c] = {}
    BY <1>s, <2>1, NoFilesTypes DEF HookShape
  <2> QED
    BY <1>s, <2>1, <2>3, <2>4, <2>5 DEF HookShape, InHook
<1>5. CASE StashRecord(c)
  <2>1. /\ h.at = "stash" /\ hook'[c].at = "drain" /\ records'[c] = h.found
        /\ hook'[c].drift = h.drift /\ hook'[c].found = h.found /\ side' = side
    BY <1>5, StashEffect
  <2> QED
    BY <1>s, <2>1 DEF HookShape, InHook
<1>6. CASE EndHook(c)
  <2>1. hook'[c] = IdleHook /\ side'[c] = (IF side[c] = "pre" THEN "running" ELSE "done")
        /\ records' = records
    BY <1>6, LeaveEffect DEF EndHook
  <2>2. IdleHook.at = "load" /\ IdleHook.found = {}
    BY DEF IdleHook
  <2> QED
    BY <1>s, <2>1, <2>2 DEF HookShape
<1> QED
  BY <1>1, <1>2, <1>3, <1>4, <1>5, <1>6 DEF Hook

(* What any step is to a call: one of its own hook, or another that leaves   *)
(* its hook alone; stamps only grow.                                        *)
Mine(c) ==
  Hook(c) \/ StartCall(c) \/ KillHook(c) \/ EndCommand(c)
    \/ \E p \in Paths, b \in Contents : CommandWrites(c, p, b)

Spared(c) ==
  /\ hook'[c] = hook[c] /\ side'[c] = side[c] /\ records'[c] = records[c]
  /\ began'[c] = began[c] /\ before'[c] = before[c] /\ after'[c] = after[c]

TreeGrows ==
  /\ writes \in Nat /\ writes' \in Nat /\ writes <= writes'
  /\ \A p \in Paths :
       /\ fs[p].stamp \in Nat /\ fs'[p].stamp \in Nat
       /\ fs'[p] = fs[p] \/ (fs'[p].stamp > fs[p].stamp /\ fs'[p].stamp > writes)

LEMMA MineSparesOthers ==
  ASSUME TypeOK, NEW c \in Calls, NEW d \in Calls \ {c}, Mine(c)
  PROVE  Spared(d)
<1>1. CASE Hook(c)
  BY <1>1, HookLeavesOthers DEF Spared
<1>2. CASE StartCall(c)
  BY <1>2 DEF StartCall, Spared, TypeOK
<1>3. CASE KillHook(c)
  <2>1. LeaveHook(c)
    BY <1>3 DEF KillHook
  <2> QED
    BY <1>3, <2>1, LeaveEffect DEF KillHook, Spared
<1>4. CASE EndCommand(c)
  BY <1>4 DEF EndCommand, Spared, TypeOK
<1>5. ASSUME NEW p \in Paths, NEW b \in Contents, CommandWrites(c, p, b) PROVE Spared(d)
  BY <1>5 DEF CommandWrites, Spared, history
<1> QED
  BY <1>1, <1>2, <1>3, <1>4, <1>5 DEF Mine

LEMMA StepGrowsTree == ASSUME TypeOK, [Next]_vars PROVE TreeGrows
<1> USE HookConstants
<1>1. /\ writes \in Nat /\ fs \in [Paths -> File]
      /\ \A p \in Paths : fs[p].stamp \in Nat /\ fs[p].stamp <= writes
  BY DEF TypeOK, File
<1>2. ASSUME UNCHANGED <<fs, writes>> PROVE TreeGrows
  BY <1>1, <1>2 DEF TreeGrows
<1>3. ASSUME NEW p \in Paths, NEW b \in Contents, WriteFile(p, b) PROVE TreeGrows
  <2>1. writes' = writes + 1 /\ fs' = [fs EXCEPT ![p] = [bytes |-> b, stamp |-> writes + 1]]
    BY <1>3 DEF WriteFile
  <2>2. ASSUME NEW q \in Paths
        PROVE  IF q = p THEN fs'[q].stamp = writes + 1 ELSE fs'[q] = fs[q]
    BY <1>1, <2>1
  <2> QED
    BY <1>1, <2>1, <2>2 DEF TreeGrows
<1>4. ASSUME NEW c \in Calls, Hook(c) PROVE TreeGrows
  BY <1>2, <1>4, HookLeavesOthers
<1>5. ASSUME NEW c \in Calls, StartCall(c) \/ KillHook(c) \/ EndCommand(c) PROVE TreeGrows
  BY <1>2, <1>5 DEF StartCall, KillHook, EndCommand
<1>6. ASSUME NEW c \in Calls, NEW p \in Paths, NEW b \in Contents, CommandWrites(c, p, b)
      PROVE  TreeGrows
  BY <1>3, <1>6 DEF CommandWrites
<1>7. ASSUME NEW p \in Paths, NEW b \in Contents, AmbientWrite(p, b) PROVE TreeGrows
  BY <1>3, <1>7 DEF AmbientWrite
<1>8. CASE UNCHANGED vars
  BY <1>2, <1>8 DEF vars
<1> QED
  BY <1>4, <1>5, <1>6, <1>7, <1>8 DEF Next

(* A call that is spared keeps its shape in a tree that grows.              *)
LEMMA SparedShape ==
  ASSUME TypeOK, NEW c \in Calls, HookShape(c), Spared(c), TreeGrows
  PROVE  HookShape(c)'
<1>1. /\ hook'[c] = hook[c] /\ side'[c] = side[c] /\ records'[c] = records[c]
      /\ InHook(c)' = InHook(c)
  BY DEF Spared, InHook
<1>2. /\ \A x \in hook[c].found \cup records[c] : x.path \in Paths /\ x.stamp \in Nat
      /\ \A p \in DOMAIN hook[c].drift : p \in Paths /\ hook[c].drift[p].stamp \in Nat
  BY DEF TypeOK, HookOK, MapTo, File, Delta
<1>3. ASSUME NEW n \in Nat, NEW p \in Paths, n <= fs[p].stamp PROVE n <= fs'[p].stamp
  BY <1>3 DEF TreeGrows
<1>4. /\ \A x \in hook[c].found : x.stamp <= fs[x.path].stamp => x.stamp <= fs'[x.path].stamp
      /\ \A x \in records[c] : x.stamp <= fs[x.path].stamp => x.stamp <= fs'[x.path].stamp
      /\ \A p \in DOMAIN hook[c].drift :
           hook[c].drift[p].stamp <= fs[p].stamp => hook[c].drift[p].stamp <= fs'[p].stamp
  BY <1>2, <1>3
<1> QED
  BY <1>1, <1>4 DEF HookShape

LEMMA ShapeKept ==
  ASSUME TypeOK, \A c \in Calls : HookShape(c), [Next]_vars
  PROVE  \A c \in Calls : HookShape(c)'
<1>g. TreeGrows
  BY StepGrowsTree
<1>s. \A c \in Calls : Spared(c) => HookShape(c)'
  BY <1>g, SparedShape
<1>1. ASSUME NEW c \in Calls, Mine(c) PROVE HookShape(c)'
  <2>1. CASE Hook(c)
    BY <2>1, OwnShape
  <2>2. CASE StartCall(c) \/ EndCommand(c)
    <3>1. /\ hook' = hook /\ records' = records /\ fs' = fs
          /\ side'[c] = IF StartCall(c) THEN "pre" ELSE "post"
          /\ side[c] \in {"idle", "running"}
      BY <2>2 DEF StartCall, EndCommand, TypeOK
    <3>2. hook[c] = IdleHook /\ records[c] = {}
      BY <3>1 DEF HookShape, InHook
    <3>3. IdleHook.at = "load" /\ IdleHook.found = {}
      BY DEF IdleHook
    <3> QED
      BY <3>1, <3>2, <3>3 DEF HookShape, InHook
  <2>3. CASE KillHook(c)
    <3>1. /\ hook'[c] = IdleHook /\ records' = records /\ fs' = fs
          /\ side'[c] = IF side[c] = "pre" THEN "running" ELSE "done"
          /\ side[c] \in {"pre", "post"}
      BY <2>3, LeaveEffect DEF KillHook, InHook
    <3>2. IdleHook.at = "load" /\ IdleHook.found = {}
      BY DEF IdleHook
    <3> QED
      BY <3>1, <3>2 DEF HookShape
  <2>4. ASSUME NEW p \in Paths, NEW b \in Contents, CommandWrites(c, p, b) PROVE HookShape(c)'
    BY <1>s, <2>4 DEF CommandWrites, Spared, history
  <2> QED
    BY <1>1, <2>1, <2>2, <2>3, <2>4 DEF Mine
<1>2. ASSUME NEW c \in Calls, Mine(c) PROVE \A d \in Calls : HookShape(d)'
  BY <1>1, <1>2, <1>s, MineSparesOthers
<1>3. ASSUME NEW p \in Paths, NEW b \in Contents, AmbientWrite(p, b)
      PROVE  \A d \in Calls : HookShape(d)'
  BY <1>3, <1>s DEF AmbientWrite, Spared
<1>4. CASE UNCHANGED vars
  BY <1>4, <1>s DEF vars, Spared
<1> QED
  BY <1>2, <1>3, <1>4 DEF Next, Mine

(* A call beside which no other runs is the only active one.                *)
LEMMA OnlyActiveKept ==
  ASSUME TypeOK, \A c \in Calls : OnlyActive(c), [Next]_vars
  PROVE  \A c \in Calls : OnlyActive(c)'
<1>t. side \in [Calls -> Sides] /\ disturbed \in [Calls -> SUBSET Disturbances]
  BY DEF TypeOK
<1>1. ASSUME NEW c \in Calls, c \in Active, side'[c] \in Sides \ {"idle"},
             \A d \in Calls \ {c} : side'[d] = side[d],
             \A d \in Calls : disturbed[d] \subseteq disturbed'[d],
             \A d \in Calls \ {c} : disturbed'[d] = disturbed[d]
      PROVE  \A d \in Calls : OnlyActive(d)'
  <2>1. Active' \subseteq Active
    BY <1>1 DEF Active
  <2> QED
    BY <1>1, <2>1 DEF OnlyActive, Alone, Active
<1>2. ASSUME NEW c \in Calls, Hook(c) PROVE \A d \in Calls : OnlyActive(d)'
  <2>1. c \in Active /\ side'[c] \in Sides \ {"idle"}
    BY <1>2, <1>t, HookLeavesOthers, LoadEffect, ScanEffect, ReadEffect, SaveEffect, StashEffect,
       LeaveEffect
       DEF Hook, EndHook, InHook, Active, Sides
  <2> QED
    BY <1>1, <1>2, <2>1, HookLeavesOthers
<1>3. ASSUME NEW c \in Calls, KillHook(c) PROVE \A d \in Calls : OnlyActive(d)'
  <2>1. /\ c \in Active /\ side'[c] \in Sides \ {"idle"}
        /\ \A d \in Calls \ {c} : side'[d] = side[d]
    BY <1>3, LeaveEffect DEF KillHook, InHook, Active, Sides
  <2>2. disturbed' = [disturbed EXCEPT ![c] = @ \cup {"kill"}]
    BY <1>3 DEF KillHook
  <2> QED
    BY <1>1, <1>t, <2>1, <2>2
<1>4. ASSUME NEW c \in Calls, EndCommand(c) PROVE \A d \in Calls : OnlyActive(d)'
  <2>1. /\ c \in Active /\ side'[c] \in Sides \ {"idle"} /\ disturbed' = disturbed
        /\ \A d \in Calls \ {c} : side'[d] = side[d]
    BY <1>4, <1>t DEF EndCommand, Active, Sides
  <2> QED
    BY <1>1, <2>1
<1>5. ASSUME NEW c \in Calls, StartCall(c) PROVE \A d \in Calls : OnlyActive(d)'
  <2>1. /\ side[c] = "idle" /\ side' = [side EXCEPT ![c] = "pre"]
        /\ disturbed' = [d \in Calls |-> disturbed[d] \cup
                           {"call" : e \in IF d \in Active \cup {c} THEN Active ELSE {}}]
    BY <1>5 DEF StartCall
  <2>2. Active' = Active \cup {c} /\ c \notin Active
    BY <1>t, <2>1 DEF Active
  <2>3. CASE Active = {}
    <3>1. disturbed' = disturbed
      BY <1>t, <2>1, <2>3
    <3> QED
      BY <1>t, <2>1, <2>2, <2>3, <3>1 DEF OnlyActive, Alone
  <2>4. CASE Active # {}
    <3>1. \A d \in Active' : ~Alone(d)'
      BY <2>1, <2>2, <2>4 DEF Alone, Active
    <3>2. \A d \in Calls : side'[d] = "idle" => d \notin Active \cup {c} /\ side[d] = "idle"
      BY <1>t, <2>1 DEF Active
    <3>3. \A d \in Calls : side'[d] = "idle" => disturbed'[d] = disturbed[d]
      BY <1>t, <2>1, <3>2
    <3> QED
      BY <3>1, <3>2, <3>3 DEF OnlyActive
  <2> QED
    BY <2>3, <2>4
<1>6. ASSUME NEW c \in Calls, NEW p \in Paths, NEW b \in Contents, CommandWrites(c, p, b)
      PROVE  \A d \in Calls : OnlyActive(d)'
  BY <1>6 DEF CommandWrites, OnlyActive, Alone, Active, history
<1>7. ASSUME NEW p \in Paths, NEW b \in Contents, AmbientWrite(p, b)
      PROVE  \A d \in Calls : OnlyActive(d)'
  <2>1. /\ side' = side
        /\ disturbed' = [c \in Calls |-> disturbed[c] \cup (IF c \in Active THEN {"write"} ELSE {})]
    BY <1>7 DEF AmbientWrite
  <2>2. \A d \in Calls : /\ disturbed[d] \subseteq disturbed'[d]
                         /\ d \notin Active => disturbed'[d] = disturbed[d]
    BY <1>t, <2>1
  <2> QED
    BY <2>1, <2>2 DEF OnlyActive, Alone, Active
<1>8. CASE UNCHANGED vars
  BY <1>8 DEF vars, OnlyActive, Alone, Active
<1> QED
  BY <1>2, <1>3, <1>4, <1>5, <1>6, <1>7, <1>8 DEF Next

(* So while a call that is alone is active, the others do nothing.          *)
LEMMA AloneActs ==
  ASSUME TypeOK, \A c \in Calls : OnlyActive(c), NEW c \in Calls, NEW d \in Calls \ {c},
         c \in Active, Alone(c)', Mine(d)
  PROVE  FALSE
<1>1. Alone(c) /\ Active = {c}
  <2>1. disturbed[c] \subseteq disturbed'[c]
    BY HookLeavesOthers DEF Mine, StartCall, KillHook, EndCommand, CommandWrites, TypeOK, history
  <2> QED
    BY <2>1 DEF Alone, OnlyActive
<1>2. CASE StartCall(d)
  <2>1. "call" \in disturbed'[c]
    BY <1>1, <1>2 DEF StartCall
  <2> QED
    BY <2>1 DEF Alone
<1>3. CASE ~StartCall(d)
  <2>1. d \in Active
    BY <1>3, HookLeavesOthers DEF Mine, KillHook, EndCommand, CommandWrites, InHook, Active
  <2> QED
    BY <1>1, <2>1
<1> QED
  BY <1>2, <1>3

(* What is settled stays settled in a tree that grows.                      *)
LEMMA SettledGrows ==
  ASSUME TreeGrows, NEW files, NEW x, x.path \in Paths, x.stamp \in Nat,
         x.stamp <= fs[x.path].stamp, Settled(files, x)
  PROVE  Settled(files, x)'
BY DEF TreeGrows, Settled, Agrees

(* Entries that are the same at a path are settled alike.                   *)
LEMMA SettledAlike ==
  ASSUME NEW f, NEW g, NEW x, Settled(f, x),
         x.path \in DOMAIN f <=> x.path \in DOMAIN g, x.path \in DOMAIN f => f[x.path] = g[x.path]
  PROVE  Settled(g, x)
BY DEF Settled, Agrees

LEMMA PutElsewhere ==
  ASSUME NEW f, NEW p, NEW e, NEW q, q # p
  PROVE  /\ q \in DOMAIN f <=> q \in DOMAIN Put(f, p, e)
         /\ q \in DOMAIN f => f[q] = Put(f, p, e)[q]
BY DEF Put

LEMMA WithoutElsewhere ==
  ASSUME NEW f, NEW P, NEW q, q \notin P
  PROVE  /\ q \in DOMAIN f <=> q \in DOMAIN Without(f, P)
         /\ q \in DOMAIN f => f[q] = Without(f, P)[q]
BY DEF Without

(* A hook's step keeps the manifest and its own entries settled with a delta *)
(* it does not look at; what it finds is of later writes.                   *)
LEMMA TameKept ==
  ASSUME TypeOK, NEW c \in Calls, HookShape(c), Hook(c),
         NEW x, x.path \in Paths, x.stamp \in Nat, x.stamp <= fs[x.path].stamp,
         Settled(manifest.files, x), Tame(x, c)
  PROVE  /\ Settled(manifest'.files, x)
         /\ hook'[c].at # "load" => Settled(hook'[c].files, x)
         /\ hook'[c].at # "load" /\ x.path \in DOMAIN hook'[c].drift
              => hook'[c].drift[x.path].stamp > x.stamp
         /\ \A y \in hook'[c].found : y \in hook[c].found \/ ~Same(x, y)
<1> DEFINE files == hook[c].files
           drift == hook[c].drift
           p == x.path
<1>t. /\ fs[p].stamp \in Nat /\ MapTo(drift, File)
      /\ \A q \in DOMAIN drift : drift[q].stamp \in Nat
  BY DEF TypeOK, HookOK, File, MapTo
\* A walk that has the path saw a later write, and the tree has one.
<1>l. ASSUME hook[c].at = "read", p \in DOMAIN drift
      PROVE  drift[p].stamp > x.stamp /\ fs[p].stamp > x.stamp
  <2>1. drift[p].stamp <= fs[p].stamp
    BY <1>l DEF HookShape
  <2> QED
    BY <1>l, <1>t, <2>1 DEF Tame
<1>v. ASSUME NEW f, fs[p].stamp > x.stamp PROVE Settled(f, x)
  BY <1>t, <1>v DEF Settled
<1>1. CASE LoadManifest(c)
  <2>1. /\ hook'[c].files = manifest.files /\ manifest' = manifest
        /\ hook'[c].drift = NoFiles /\ hook'[c].found = {}
    BY <1>1, LoadEffect DEF HookShape, IdleHook
  <2> QED
    BY <2>1, NoFilesTypes
<1>2. CASE ScanStats(c)
  <2>1. /\ hook[c].at = "scan" /\ hook'[c].files = files /\ manifest' = manifest
        /\ hook'[c].drift = Drift(files) /\ hook'[c].found = {}
    BY <1>2, ScanEffect DEF HookShape
  <2>2. Settled(files, x)
    BY <2>1 DEF Tame
  <2>3. p \in DOMAIN Drift(files) => Drift(files)[p] = fs[p] /\ ~Agrees(files, p)
    BY DEF Drift, Agrees
  <2>4. p \in DOMAIN Drift(files) => Drift(files)[p].stamp > x.stamp
    BY <1>t, <2>2, <2>3 DEF Settled
  <2> QED
    BY <2>1, <2>2, <2>4
<1>3. ASSUME NEW q \in Paths, ReadFile(c, q)
      PROVE  /\ Settled(manifest'.files, x) /\ Settled(hook'[c].files, x)
             /\ p \in DOMAIN hook'[c].drift => hook'[c].drift[p].stamp > x.stamp
             /\ \A y \in hook'[c].found : y \in hook[c].found \/ ~Same(x, y)
  <2> DEFINE e == ReadEntry(drift[q], fs[q])
             new == Put(files, q, e)
  <2>1. /\ hook[c].at = "read" /\ q \in DOMAIN drift
        /\ hook'[c].files = new /\ hook'[c].drift = Without(drift, {q})
        /\ hook'[c].found = hook[c].found \cup (IF Observing(c) THEN DeltasOf(files, q, e) ELSE {})
        /\ manifest' = manifest \/ manifest' = [saved |-> TRUE, files |-> new]
    BY <1>3, ReadEffect
  <2>2. \A y \in DeltasOf(files, q, e) : y.path = q /\ y.stamp = drift[q].stamp
    BY DeltaStamps
  <2> HIDE DEF e
  <2>3. Settled(files, x)
    BY <2>1 DEF Tame
  <2>4. Settled(new, x)
    <3>1. CASE q = p
      BY <1>l, <1>v, <2>1, <3>1
    <3>2. CASE q # p
      BY <2>3, <3>2, PutElsewhere, SettledAlike
    <3> QED
      BY <3>1, <3>2
  <2> HIDE DEF new
  <2>5. Settled(manifest'.files, x)
    BY <2>1, <2>4
  <2>6. \A y \in DeltasOf(files, q, e) : ~Same(x, y)
    BY <1>l, <1>t, <2>1, <2>2 DEF Same
  <2>7. p \in DOMAIN Without(drift, {q}) => p \in DOMAIN drift /\ Without(drift, {q})[p] = drift[p]
    BY DEF Without
  <2> QED
    BY <1>l, <2>1, <2>4, <2>5, <2>6, <2>7
<1>4. CASE SaveManifest(c)
  <2> DEFINE new == Without(files, DOMAIN drift)
  <2>1. /\ hook[c].at = "read" /\ hook'[c].files = new /\ hook'[c].drift = NoFiles
        /\ hook'[c].found =
             hook[c].found \cup (IF Observing(c) THEN DeletesOf(files, drift) ELSE {})
        /\ manifest' = manifest \/ manifest' = [saved |-> TRUE, files |-> new]
    BY <1>4, SaveEffect
  <2>2. \A y \in DeletesOf(files, drift) : y.path \in DOMAIN drift /\ y.stamp = drift[y.path].stamp
    BY DeleteStamps
  <2>3. Settled(files, x)
    BY <2>1 DEF Tame
  <2>4. Settled(new, x)
    <3>1. CASE p \in DOMAIN drift
      BY <1>l, <1>v, <2>1, <3>1
    <3>2. CASE p \notin DOMAIN drift
      BY <2>3, <3>2, WithoutElsewhere, SettledAlike
    <3> QED
      BY <3>1, <3>2
  <2> HIDE DEF new
  <2>5. Settled(manifest'.files, x)
    BY <2>1, <2>4
  <2>6. \A y \in DeletesOf(files, drift) : ~Same(x, y)
    BY <1>l, <1>t, <2>1, <2>2 DEF Same
  <2> QED
    BY <2>1, <2>4, <2>5, <2>6, NoFilesTypes
<1>5. CASE StashRecord(c)
  BY <1>5, StashEffect DEF Tame
<1>6. CASE EndHook(c)
  <2>1. hook'[c] = IdleHook /\ manifest' = manifest
    BY <1>6, LeaveEffect DEF EndHook
  <2> QED
    BY <2>1 DEF IdleHook
<1> QED
  BY <1>1, <1>2, <1>3, <1>4, <1>5, <1>6 DEF Hook

(* The deltas of a call stay settled with what its own hook holds.          *)
LEMMA OwnStepSettled ==
  ASSUME TypeOK, BaselineInv, NEW c \in Calls, HookShape(c), OwnSettled(c), Hook(c)
  PROVE  /\ \A x \in hook'[c].found : Settled(hook'[c].files, x)
         /\ hook'[c].at = "stash" => \A x \in hook'[c].found : Settled(manifest'.files, x)
<1> DEFINE files == hook[c].files
           drift == hook[c].drift
<1>w. \A p \in DOMAIN drift : drift[p].stamp = fs[p].stamp => drift[p] = fs[p]
  BY DEF BaselineInv, WalkSound
<1>1. CASE LoadManifest(c)
  <2>1. hook'[c].found = {}
    BY <1>1, LoadEffect DEF HookShape, IdleHook
  <2> QED
    BY <2>1
<1>2. CASE ScanStats(c)
  <2>1. hook'[c].found = {}
    BY <1>2, ScanEffect DEF HookShape
  <2> QED
    BY <2>1
<1>3. ASSUME NEW q \in Paths, ReadFile(c, q)
      PROVE  hook'[c].at # "stash" /\ \A x \in hook'[c].found : Settled(hook'[c].files, x)
  <2> DEFINE e == ReadEntry(drift[q], fs[q])
             new == Put(files, q, e)
  <2>1. /\ hook'[c].at = "read" /\ q \in DOMAIN drift /\ drift[q].bytes # Gone
        /\ hook'[c].files = new
        /\ hook'[c].found = hook[c].found \cup (IF Observing(c) THEN DeltasOf(files, q, e) ELSE {})
    BY <1>3, ReadEffect
  <2>2. \A y \in DeltasOf(files, q, e) : y.path = q /\ y.stamp = drift[q].stamp
    BY DeltaStamps
  <2>3. e.stamp = drift[q].stamp
    BY DEF ReadEntry
  <2> HIDE DEF e
  <2>4. q \in DOMAIN new /\ new[q] = e
    BY DEF Put
  <2>5. ASSUME NEW x \in hook[c].found PROVE Settled(new, x)
    <3>1. x.path # q /\ Settled(files, x)
      BY <2>1 DEF HookShape, OwnSettled
    <3> QED
      BY <3>1, PutElsewhere, SettledAlike
  <2>6. ASSUME NEW x, x.path = q, x.stamp = drift[q].stamp PROVE Settled(new, x)
    BY <1>w, <2>1, <2>3, <2>4, <2>6 DEF Settled, Agrees
  <2> HIDE DEF new
  <2> QED
    BY <2>1, <2>2, <2>5, <2>6
<1>4. CASE SaveManifest(c)
  <2> DEFINE new == Without(files, DOMAIN drift)
  <2>1. /\ hook[c].at = "read" /\ \A p \in DOMAIN drift : drift[p].bytes = Gone
        /\ hook'[c].files = new
        /\ hook'[c].found =
             hook[c].found \cup (IF Observing(c) THEN DeletesOf(files, drift) ELSE {})
        /\ manifest' = IF hook[c].priming \/ hook[c].touched > 0 \/ DOMAIN drift # {}
                       THEN [saved |-> TRUE, files |-> new] ELSE manifest
    BY <1>4, SaveEffect
  <2>2. \A y \in DeletesOf(files, drift) : y.path \in DOMAIN drift /\ y.stamp = drift[y.path].stamp
    BY DeleteStamps
  <2>3. ASSUME NEW x \in hook[c].found PROVE Settled(new, x)
    <3>1. x.path \notin DOMAIN drift /\ Settled(files, x)
      BY DEF HookShape, OwnSettled
    <3> QED
      BY <3>1, WithoutElsewhere, SettledAlike
  <2>4. ASSUME NEW x, x.path \in DOMAIN drift, x.stamp = drift[x.path].stamp PROVE Settled(new, x)
    <3>1. x.path \notin DOMAIN new
      BY <2>4 DEF Without
    <3> HIDE DEF new
    <3> QED
      BY <1>w, <2>1, <2>4, <3>1 DEF Settled, Agrees
  <2> HIDE DEF new
  <2>5. \A x \in hook'[c].found : Settled(new, x)
    BY <2>1, <2>2, <2>3, <2>4
  <2>6. hook'[c].found # {} => manifest'.files = new
    <3>1. hook[c].found # {} => hook[c].touched > 0
      BY <2>1 DEF HookShape
    <3> QED
      BY <2>1, <2>2, <3>1
  <2> QED
    BY <2>1, <2>5, <2>6
<1>5. CASE StashRecord(c)
  BY <1>5, StashEffect DEF OwnSettled
<1>6. CASE EndHook(c)
  <2>1. hook'[c] = IdleHook
    BY <1>6, LeaveEffect DEF EndHook
  <2> QED
    BY <2>1 DEF IdleHook
<1> QED
  BY <1>1, <1>2, <1>3, <1>4, <1>5, <1>6 DEF Hook

BlameInv ==
  \A c \in Calls : HookShape(c) /\ OnlyActive(c) /\ OwnSettled(c) /\ ChargedSettled(c)

(* What a step that is no hook's, or is of another call's, leaves.          *)
LEMMA FoundTypes ==
  ASSUME TypeOK, NEW c \in Calls, HookShape(c), NEW x \in hook[c].found \cup records[c]
  PROVE  x.path \in Paths /\ x.stamp \in Nat /\ x.stamp <= fs[x.path].stamp
BY DEF TypeOK, HookOK, Delta, HookShape

(* No step unsettles the deltas a hook holds.                               *)
LEMMA OwnSettledKept ==
  ASSUME TypeOK, BaselineInv, BlameInv, [Next]_vars
  PROVE  \A c \in Calls : OwnSettled(c)'
<1>g. TreeGrows
  BY StepGrowsTree
<1>b. \A c \in Calls : HookShape(c) /\ OnlyActive(c) /\ OwnSettled(c)
  BY DEF BlameInv
\* A hook that is left alone, and whose manifest nobody saves.
<1>1. ASSUME NEW c \in Calls, hook'[c] = hook[c], Alone(c)' => Alone(c),
             hook[c].at = "stash" /\ Alone(c)' => manifest' = manifest
      PROVE  OwnSettled(c)'
  <2>1. ASSUME NEW x \in hook[c].found, NEW f, Settled(f, x) PROVE Settled(f, x)'
    BY <1>b, <1>g, <2>1, FoundTypes, SettledGrows
  <2> QED
    BY <1>1, <1>b, <2>1 DEF OwnSettled
<1>2. ASSUME NEW c \in Calls, Mine(c) PROVE \A d \in Calls : OwnSettled(d)'
  <2>1. ASSUME NEW d \in Calls \ {c} PROVE OwnSettled(d)'
    <3>1. Spared(d)
      BY <1>2, MineSparesOthers
    <3>2. disturbed[d] \subseteq disturbed'[d]
      BY <1>2, HookLeavesOthers DEF Mine, StartCall, KillHook, EndCommand, CommandWrites, TypeOK, history
    <3>3. hook[d].at = "stash" /\ Alone(d)' => FALSE
      <4>1. hook[d].at = "stash" => d \in Active
        BY <1>b DEF HookShape, Active
      <4> QED
        BY <1>2, <1>b, <4>1, AloneActs
    <3> QED
      BY <1>1, <3>1, <3>2, <3>3 DEF Spared, Alone
  <2>2. OwnSettled(c)'
    <3>1. CASE Hook(c)
      <4>1. fs' = fs
        BY <3>1, HookLeavesOthers
      <4>2. /\ \A x \in hook'[c].found : Settled(hook'[c].files, x)
            /\ hook'[c].at = "stash" => \A x \in hook'[c].found : Settled(manifest'.files, x)
        BY <1>b, <3>1, OwnStepSettled
      <4> QED
        BY <4>1, <4>2 DEF OwnSettled, Settled, Agrees
    <3>2. CASE StartCall(c) \/ EndCommand(c)
      <4>1. hook' = hook /\ manifest' = manifest /\ disturbed[c] \subseteq disturbed'[c]
        BY <3>2 DEF StartCall, EndCommand, TypeOK
      <4> QED
        BY <1>1, <4>1 DEF Alone
    <3>3. CASE KillHook(c)
      <4>1. hook'[c] = IdleHook
        BY <3>3, LeaveEffect DEF KillHook
      <4> QED
        BY <4>1 DEF OwnSettled, IdleHook
    <3>4. ASSUME NEW p \in Paths, NEW b \in Contents, CommandWrites(c, p, b) PROVE OwnSettled(c)'
      BY <1>1, <3>4 DEF CommandWrites, history, Alone
    <3> QED
      BY <1>2, <3>1, <3>2, <3>3, <3>4 DEF Mine
  <2> QED
    BY <2>1, <2>2
<1>3. ASSUME NEW p \in Paths, NEW b \in Contents, AmbientWrite(p, b)
      PROVE  \A d \in Calls : OwnSettled(d)'
  BY <1>1, <1>3 DEF AmbientWrite, Alone, TypeOK
<1>4. CASE UNCHANGED vars
  BY <1>1, <1>4 DEF vars, Alone
<1> QED
  BY <1>2, <1>3, <1>4 DEF Next, Mine

(* What a call that was alone has charged stays settled with every copy.    *)
LEMMA ChargedSettledKept ==
  ASSUME TypeOK, BlameInv, [Next]_vars
  PROVE  \A d \in Calls : ChargedSettled(d)'
<1>g. TreeGrows
  BY StepGrowsTree
<1>b. \A c \in Calls : HookShape(c) /\ OnlyActive(c) /\ OwnSettled(c) /\ ChargedSettled(c)
  BY DEF BlameInv
<1>h. \A c \in Calls : hook[c].at # "load" => InHook(c)
  <2>1. IdleHook.at = "load"
    BY DEF IdleHook
  <2> QED
    BY <1>b, <2>1 DEF HookShape
\* Two calls' hooks and the tree, one write on.
<1>f. ASSUME NEW d \in Calls, NEW x \in records[d], NEW c \in Calls, Tame(x, c),
             hook'[c] = hook[c]
      PROVE  Tame(x, c)'
  BY <1>b, <1>f, <1>g, FoundTypes, SettledGrows DEF Tame
<1>1. ASSUME UNCHANGED <<hook, manifest, records>>, \A d \in Calls : Alone(d)' => Alone(d)
      PROVE  \A d \in Calls : ChargedSettled(d)'
  <2> SUFFICES ASSUME NEW d \in Calls, Alone(d), NEW x \in records[d]
               PROVE  /\ Settled(manifest.files, x)'
                      /\ \A c \in Calls : /\ Tame(x, c)'
                                          /\ c # d => \A y \in hook[c].found : ~Same(x, y)
    BY <1>1 DEF ChargedSettled, Same
  <2>1. Settled(manifest.files, x)
    BY <1>b DEF ChargedSettled
  <2>2. Settled(manifest.files, x)'
    BY <1>1, <1>b, <1>g, <2>1, FoundTypes, SettledGrows
  <2>3. \A c \in Calls : Tame(x, c) /\ (c # d => \A y \in hook[c].found : ~Same(x, y))
    BY <1>b DEF ChargedSettled
  <2> QED
    BY <1>1, <1>f, <2>2, <2>3
<1>2. ASSUME NEW c \in Calls, Mine(c) PROVE \A d \in Calls : ChargedSettled(d)'
  <2>0. \A d \in Calls : Alone(d)' => Alone(d)
    BY <1>2, HookLeavesOthers DEF Mine, StartCall, KillHook, EndCommand, CommandWrites, TypeOK,
       history, Alone
  <2>o. \A e \in Calls \ {c} : Spared(e)
    BY <1>2, MineSparesOthers
  <2>1. CASE Hook(c)
    <3> SUFFICES ASSUME NEW d \in Calls, Alone(d), NEW x \in records'[d]
                 PROVE  /\ Settled(manifest.files, x)'
                        /\ \A e \in Calls :
                             Tame(x, e)' /\ (e # d => \A y \in hook'[e].found : ~Same(x, y))
      BY <2>0 DEF ChargedSettled, Same
    <3>0. fs' = fs
      BY <2>1, HookLeavesOthers
    <3>1. CASE x \in records[d]
      <4>1. /\ Settled(manifest.files, x) /\ x.path \in Paths /\ x.stamp \in Nat
            /\ x.stamp <= fs[x.path].stamp
            /\ \A e \in Calls : Tame(x, e) /\ (e # d => \A y \in hook[e].found : ~Same(x, y))
        BY <1>b, <3>1, FoundTypes DEF ChargedSettled
      <4>2. /\ Settled(manifest'.files, x)
            /\ hook'[c].at # "load" => Settled(hook'[c].files, x)
            /\ hook'[c].at # "load" /\ x.path \in DOMAIN hook'[c].drift
                 => hook'[c].drift[x.path].stamp > x.stamp
            /\ \A y \in hook'[c].found : y \in hook[c].found \/ ~Same(x, y)
        BY <1>b, <2>1, <4>1, TameKept
      <4>3. Settled(manifest.files, x)'
        BY <3>0, <4>2 DEF Settled, Agrees
      <4>4. Tame(x, c)' /\ (c # d => \A y \in hook'[c].found : ~Same(x, y))
        BY <3>0, <4>1, <4>2 DEF Tame, Settled, Agrees
      <4>5. ASSUME NEW e \in Calls \ {c}
            PROVE  Tame(x, e)' /\ (e # d => \A y \in hook'[e].found : ~Same(x, y))
        BY <1>f, <2>o, <3>1, <4>1 DEF Spared
      <4> QED
        BY <4>3, <4>4, <4>5
    <3>2. CASE x \notin records[d]
      <4>1. d = c /\ StashRecord(c)
        BY <2>1, <2>o, <3>2, LoadEffect, ScanEffect, ReadEffect, SaveEffect
           DEF Spared, Hook, EndHook
      <4>2. /\ hook[c].at = "stash" /\ x \in hook[c].found /\ manifest' = manifest
            /\ hook'[c].files = hook[c].files /\ hook'[c].drift = hook[c].drift
        BY <4>1, StashEffect
      <4>3. /\ Settled(manifest.files, x) /\ Settled(hook[c].files, x)
            /\ x.path \notin DOMAIN hook[c].drift
        BY <1>b, <4>1, <4>2 DEF OwnSettled, HookShape
      <4>4. \A e \in Calls \ {c} : hook[e] = IdleHook
        <5>1. c \in Active
          BY <2>1, HookLeavesOthers DEF InHook, Active
        <5>2. \A e \in Calls \ {c} : e \notin Active
          BY <1>b, <4>1, <5>1 DEF OnlyActive
        <5> QED
          BY <1>b, <5>2 DEF HookShape, InHook, Active
      <4>5. \A e \in Calls \ {c} : hook'[e].at = "load" /\ hook'[e].found = {}
        BY <2>o, <4>4 DEF Spared, IdleHook
      <4>6. Settled(manifest.files, x)' /\ Tame(x, c)'
        BY <3>0, <4>2, <4>3 DEF Tame, Settled, Agrees
      <4>7. \A e \in Calls \ {c} : Tame(x, e)'
        BY <4>5 DEF Tame
      <4> QED
        BY <4>1, <4>5, <4>6, <4>7
    <3> QED
      BY <3>1, <3>2
  <2>2. CASE StartCall(c) \/ EndCommand(c)
    BY <1>1, <2>0, <2>2 DEF StartCall, EndCommand
  <2>3. CASE KillHook(c)
    <3>1. /\ hook'[c] = IdleHook /\ manifest' = manifest /\ records' = records /\ fs' = fs
      BY <2>3, LeaveEffect DEF KillHook
    <3>2. ASSUME NEW d \in Calls, Alone(d), NEW x \in records[d]
          PROVE  /\ Settled(manifest.files, x)'
                 /\ \A e \in Calls : Tame(x, e)' /\ (e # d => \A y \in hook'[e].found : ~Same(x, y))
      <4>1. /\ Settled(manifest.files, x)
            /\ \A e \in Calls : Tame(x, e) /\ (e # d => \A y \in hook[e].found : ~Same(x, y))
        BY <1>b, <3>2 DEF ChargedSettled
      <4>2. Settled(manifest.files, x)'
        BY <3>1, <4>1 DEF Settled, Agrees
      <4>3. Tame(x, c)' /\ hook'[c].found = {}
        BY <3>1 DEF Tame, IdleHook
      <4>4. ASSUME NEW e \in Calls \ {c}
            PROVE  Tame(x, e)' /\ (e # d => \A y \in hook'[e].found : ~Same(x, y))
        BY <1>f, <2>o, <3>2, <4>1 DEF Spared
      <4> QED
        BY <4>2, <4>3, <4>4
    <3> QED
      BY <2>0, <3>1, <3>2 DEF ChargedSettled, Same
  <2>4. ASSUME NEW p \in Paths, NEW b \in Contents, CommandWrites(c, p, b)
        PROVE  \A d \in Calls : ChargedSettled(d)'
    BY <1>1, <2>0, <2>4 DEF CommandWrites
  <2> QED
    BY <1>2, <2>1, <2>2, <2>3, <2>4 DEF Mine
<1>3. ASSUME NEW p \in Paths, NEW b \in Contents, AmbientWrite(p, b)
      PROVE  \A d \in Calls : ChargedSettled(d)'
  <2>1. \A d \in Calls : Alone(d)' => Alone(d)
    BY <1>3 DEF AmbientWrite, TypeOK, Alone
  <2> QED
    BY <1>1, <1>3, <2>1 DEF AmbientWrite
<1>4. CASE UNCHANGED vars
  BY <1>1, <1>4 DEF vars, Alone
<1> QED
  BY <1>2, <1>3, <1>4 DEF Next, Mine

(***************************************************************************)
(* A calm call: how its hooks come to agree with the tree.                  *)
(***************************************************************************)

(* What has been agreed up to a write survives later writes.                *)
LEMMA AgreesKept ==
  ASSUME TreeGrows, NEW n \in Nat, n <= writes, NEW p \in Paths, fs'[p].stamp <= n
  PROVE  /\ fs'[p] = fs[p] /\ fs[p].stamp <= n
         /\ \A f : Agrees(f, p) => Agrees(f, p)'
<1>1. fs'[p] = fs[p]
  BY DEF TreeGrows
<1> QED
  BY <1>1 DEF Agrees

(* A write by anyone leaves what a calm call relies on.                     *)
LEMMA CalmWrite ==
  ASSUME TypeOK, TreeGrows, NEW c \in Calls, CalmInv(c), Calm(c)' => Calm(c),
         manifest' = manifest, \A d \in Calls : Spared(d)
  PROVE  CalmInv(c)'
<1> SUFFICES ASSUME Calm(c)', Begun(c)'
             PROVE  /\ (CalmPast(c) /\ CalmFound(c))'
                    /\ (side[c] = "pre" => CalmPre(c))'
                    /\ (side[c] = "running"
                          => manifest.saved /\ AgreesSince(manifest.files, began[c]))'
                    /\ (side[c] = "post" => CalmPost(c))'
  BY DEF CalmInv
<1>s. /\ hook'[c] = hook[c] /\ side'[c] = side[c] /\ began'[c] = began[c]
      /\ \A d \in Calls : records'[d] = records[d]
  BY DEF Spared
<1>1. /\ CalmPast(c) /\ CalmFound(c)
      /\ side[c] = "pre" => CalmPre(c)
      /\ side[c] = "running" => manifest.saved /\ AgreesSince(manifest.files, began[c])
      /\ side[c] = "post" => CalmPost(c)
  BY <1>s DEF CalmInv, Begun
<1>2. began[c] \in Nat /\ began[c] <= writes
  BY <1>1 DEF CalmPast
<1>3. \A p \in Paths : fs'[p].stamp <= began[c] =>
        /\ fs'[p] = fs[p] /\ fs[p].stamp <= began[c]
        /\ \A f : Agrees(f, p) => Agrees(f, p)'
  BY <1>2, AgreesKept
<1>4. ASSUME NEW f, AgreesSince(f, began[c])
      PROVE  \A p \in Paths : fs'[p].stamp <= began[c] => Agrees(f, p)'
  BY <1>3, <1>4 DEF AgreesSince
<1>5. (CalmPast(c) /\ CalmFound(c))'
  BY <1>s, <1>1 DEF CalmPast, CalmFound, TreeGrows
<1>6. (side[c] = "running" => manifest.saved /\ AgreesSince(manifest.files, began[c]))'
  BY <1>s, <1>1, <1>4 DEF AgreesSince
<1>7. (side[c] = "post" => CalmPost(c))'
  BY <1>s, <1>1, <1>4 DEF CalmPost, AgreesSince
<1>8. (side[c] = "pre" => CalmPre(c))'
  <2> SUFFICES ASSUME side[c] = "pre" PROVE CalmPre(c)'
    BY <1>s
  <2>1. CalmPre(c)
    BY <1>1
  <2>2. ASSUME hook[c].at = "read", NEW p \in Paths, fs'[p].stamp <= began[c]
        PROVE  IF p \in DOMAIN hook[c].drift THEN hook[c].drift[p] = fs'[p]
               ELSE Agrees(hook[c].files, p)'
    BY <1>s, <1>3, <2>1, <2>2 DEF CalmPre
  <2>3. (hook[c].at = "drain" => manifest.saved /\ AgreesSince(manifest.files, began[c]))'
    BY <1>s, <1>4, <2>1 DEF CalmPre, AgreesSince
  <2>4. (hook[c].at = "read" =>
           /\ \A p \in Paths : fs[p].stamp <= began[c] =>
                IF p \in DOMAIN hook[c].drift THEN hook[c].drift[p] = fs[p]
                ELSE Agrees(hook[c].files, p)
           /\ hook[c].touched = 0 => hook[c].files = manifest.files)'
    BY <1>s, <2>1, <2>2 DEF CalmPre
  <2> QED
    BY <1>s, <2>1, <2>3, <2>4 DEF CalmPre
<1> QED
  BY <1>5, <1>6, <1>7, <1>8

(* The steps of a calm call's own hooks.                                    *)
LEMMA CalmLoad ==
  ASSUME TypeOK, NEW c \in Calls, HookShape(c), \A d \in Calls : HookShape(d),
         CalmInv(c), Calm(c), LoadManifest(c)
  PROVE  CalmInv(c)'
<1>t. /\ writes \in Nat /\ began \in [Calls -> Nat] /\ side \in [Calls -> Sides]
      /\ \A p \in Paths : fs[p].stamp <= writes
  BY DEF TypeOK
<1>1. /\ hook[c].at = "load" /\ hook'[c].at = "scan" /\ hook'[c].priming = ~manifest.saved
      /\ hook'[c].files = manifest.files /\ hook'[c].found = {}
      /\ manifest' = manifest /\ side' = side /\ records' = records
      /\ fs' = fs /\ writes' = writes
      /\ began'[c] = IF side[c] = "pre" THEN writes ELSE began[c]
  <2>1. fs' = fs /\ writes' = writes
    BY DEF LoadManifest
  <2>2. hook[c].found = {}
    BY LoadEffect DEF HookShape, IdleHook
  <2> QED
    BY <2>1, <2>2, LoadEffect
<1>2. InHook(c) /\ records[c] = {}
  BY <1>1 DEF LoadManifest, HookShape, InHook
<1>3. CASE side[c] = "pre"
  <2>1. \A d \in Calls : \A y \in records[d] : y.stamp <= writes
    <3>1. \A d \in Calls : \A y \in records[d] :
            y.path \in Paths /\ y.stamp \in Nat /\ y.stamp <= fs[y.path].stamp
      BY FoundTypes
    <3>2. \A p \in Paths : fs[p].stamp \in Nat
      BY DEF TypeOK, File
    <3> QED
      BY <1>t, <3>1, <3>2
  <2>2. CalmPast(c)'
    BY <1>t, <1>1, <1>3, <2>1 DEF CalmPast
  <2>3. CalmFound(c)' /\ CalmPre(c)'
    BY <1>1, <1>2, <1>3 DEF CalmFound, CalmPre
  <2> QED
    BY <1>1, <1>3, <2>2, <2>3 DEF CalmInv
<1>4. CASE side[c] = "post"
  <2>1. CalmPast(c) /\ manifest.saved /\ AgreesSince(manifest.files, began[c])
    BY <1>1, <1>4 DEF CalmInv, Begun, CalmPost
  <2>2. began'[c] = began[c]
    BY <1>1, <1>4
  <2>3. CalmPast(c)'
    BY <1>1, <2>1, <2>2 DEF CalmPast
  <2>4. AgreesSince(hook[c].files, began[c])'
    BY <1>1, <2>1, <2>2 DEF AgreesSince, Agrees
  <2>5. CalmFound(c)' /\ CalmPost(c)'
    BY <1>1, <1>2, <2>1, <2>4 DEF CalmFound, CalmPost
  <2> QED
    BY <1>1, <1>4, <2>3, <2>5 DEF CalmInv
<1> QED
  BY <1>2, <1>3, <1>4 DEF InHook

(* A path the walk of some entries does not report agrees with them.        *)
LEMMA DriftOrAgrees ==
  ASSUME NEW files, NEW p \in Paths
  PROVE  /\ p \in DOMAIN Drift(files) => Drift(files)[p] = fs[p] /\ ~Agrees(files, p)
         /\ p \notin DOMAIN Drift(files) => Agrees(files, p)
BY DEF Drift, Agrees

LEMMA CalmScan ==
  ASSUME TypeOK, NEW c \in Calls, HookShape(c), CalmInv(c), Calm(c), ScanStats(c)
  PROVE  CalmInv(c)'
<1>1. /\ hook[c].at = "scan" /\ hook'[c].at = "read" /\ hook'[c].priming = hook[c].priming
      /\ hook'[c].files = hook[c].files /\ hook'[c].drift = Drift(hook[c].files)
      /\ hook'[c].found = {} /\ hook'[c].touched = 0
      /\ UNCHANGED <<fs, writes, manifest, side, records, began>>
  BY ScanEffect DEF HookShape, ScanStats
<1>2. InHook(c) /\ records[c] = {}
  BY <1>1 DEF ScanStats, HookShape, InHook
<1>3. CalmPast(c)
  BY <1>1, <1>2 DEF CalmInv, Begun, InHook
<1>4. CalmPast(c)' /\ CalmFound(c)'
  BY <1>1, <1>2, <1>3 DEF CalmPast, CalmFound
<1>5. \A p \in Paths :
        /\ p \in DOMAIN Drift(hook[c].files)
             => Drift(hook[c].files)[p] = fs[p] /\ ~Agrees(hook[c].files, p)
        /\ p \notin DOMAIN Drift(hook[c].files) => Agrees(hook[c].files, p)
  BY DriftOrAgrees
<1>6. CASE side[c] = "pre"
  <2>1. CalmPre(c)
    BY <1>1, <1>6 DEF CalmInv, Begun
  <2>2. \A p \in Paths : Agrees(hook[c].files, p)' <=> Agrees(hook[c].files, p)
    BY <1>1 DEF Agrees
  <2>3. CalmPre(c)'
    BY <1>1, <1>5, <2>1, <2>2 DEF CalmPre
  <2> QED
    BY <1>1, <1>4, <1>6, <2>3 DEF CalmInv
<1>7. CASE side[c] = "post"
  <2>1. CalmPost(c)
    BY <1>1, <1>7 DEF CalmInv, Begun
  <2>2. \A p \in DOMAIN Drift(hook[c].files) :
          p \in Paths /\ Drift(hook[c].files)[p].stamp > began[c]
    <3> SUFFICES ASSUME NEW p \in DOMAIN Drift(hook[c].files)
                 PROVE  p \in Paths /\ fs[p].stamp > began[c] /\ Drift(hook[c].files)[p] = fs[p]
      OBVIOUS
    <3>1. p \in Paths
      BY DEF Drift
    <3>2. ~(fs[p].stamp <= began[c]) /\ Drift(hook[c].files)[p] = fs[p]
      BY <1>1, <1>5, <2>1, <3>1 DEF CalmPost, AgreesSince
    <3>3. fs[p].stamp \in Nat /\ began[c] \in Nat
      BY <3>1 DEF TypeOK, File
    <3> QED
      BY <3>1, <3>2, <3>3
  <2>3. CalmPost(c)'
    BY <1>1, <2>1, <2>2 DEF CalmPost
  <2> QED
    BY <1>1, <1>4, <1>7, <2>3 DEF CalmInv
<1> QED
  BY <1>2, <1>6, <1>7 DEF InHook

LEMMA CalmRead ==
  ASSUME TypeOK, NEW c \in Calls, HookShape(c), CalmInv(c), Calm(c),
         NEW q \in Paths, ReadFile(c, q)
  PROVE  CalmInv(c)'
<1> DEFINE h == hook[c]
           e == ReadEntry(h.drift[q], fs[q])
           new == Put(h.files, q, e)
           drift == Without(h.drift, {q})
<1>1. /\ h.at = "read" /\ hook'[c].at = "read" /\ hook'[c].priming = h.priming
      /\ q \in DOMAIN h.drift /\ h.drift[q].bytes # Gone
      /\ hook'[c].files = new /\ hook'[c].drift = drift
      /\ hook'[c].touched = h.touched + 1
      /\ hook'[c].found = h.found \cup (IF Observing(c) THEN DeltasOf(h.files, q, e) ELSE {})
      /\ manifest' = manifest \/ (~Observing(c) /\ manifest' = [saved |-> TRUE, files |-> new])
      /\ UNCHANGED <<side, records, began>>
  BY ReadEffect
<1>2. InHook(c) /\ fs' = fs /\ writes' = writes
  BY DEF ReadFile
<1>3. CalmPast(c) /\ CalmFound(c)
  BY <1>1, <1>2 DEF CalmInv, Begun, InHook
<1>4. CalmPast(c)'
  BY <1>1, <1>2, <1>3 DEF CalmPast
<1>5. \A p \in DOMAIN drift : p \in DOMAIN h.drift /\ p # q /\ drift[p] = h.drift[p]
  BY DEF Without
<1>6. \A y \in DeltasOf(h.files, q, e) : y.stamp = h.drift[q].stamp
  BY DeltaStamps
<1>7. CASE side[c] = "pre"
  <2>1. CalmPre(c)
    BY <1>1, <1>7 DEF CalmInv, Begun
  <2>2. hook'[c].found = h.found
    BY <1>1, <1>7 DEF Observing
  <2>3. ASSUME NEW p \in Paths, fs[p].stamp <= began[c]
        PROVE  IF p \in DOMAIN drift THEN drift[p] = fs[p] ELSE Agrees(new, p)
    <3>1. IF p \in DOMAIN h.drift THEN h.drift[p] = fs[p] ELSE Agrees(h.files, p)
      BY <1>1, <2>1, <2>3 DEF CalmPre
    <3>2. CASE p = q
      <4>1. p \notin DOMAIN drift /\ fs[p] = h.drift[q] /\ fs[p].bytes # Gone
        BY <1>1, <3>1, <3>2 DEF Without
      <4>2. p \in DOMAIN new /\ new[p].stamp = h.drift[q].stamp
        BY <3>2 DEF Put, ReadEntry
      <4> QED
        BY <4>1, <4>2 DEF Agrees
    <3>3. CASE p # q
      <4>1. p \in DOMAIN drift <=> p \in DOMAIN h.drift
        BY <3>3 DEF Without
      <4>2. Agrees(h.files, p) => Agrees(new, p)
        <5> HIDE DEF e
        <5> QED
          BY <3>3, PutElsewhere DEF Agrees
      <4> QED
        BY <1>5, <3>1, <4>1, <4>2
    <3> QED
      BY <3>2, <3>3
  <2> HIDE DEF new, drift
  <2>5. h.touched + 1 # 0
    BY DEF TypeOK, HookOK
  <2>6. \A p \in Paths : fs[p].stamp <= began[c] =>
          IF p \in DOMAIN hook'[c].drift THEN hook'[c].drift[p] = fs[p]
          ELSE Agrees(hook'[c].files, p)
    BY <1>1, <2>3
  <2>7. (hook[c].priming \/ manifest.saved)'
    BY <1>1, <2>1 DEF CalmPre
  <2>8. \A f : \A p \in Paths : Agrees(f, p)' <=> Agrees(f, p)
    BY <1>2 DEF Agrees
  <2>9. CalmPre(c)'
    BY <1>1, <1>2, <2>5, <2>6, <2>7, <2>8 DEF CalmPre
  <2>10. CalmFound(c)'
    BY <1>1, <1>3, <2>2 DEF CalmFound
  <2> QED
    BY <1>1, <1>4, <1>7, <2>9, <2>10 DEF CalmInv
<1>8. CASE side[c] = "post"
  <2> HIDE DEF drift
  <2>1. ~h.priming /\ \A p \in DOMAIN h.drift : h.drift[p].stamp > began[c]
    BY <1>1, <1>8 DEF CalmInv, Begun, CalmPost
  <2>2. CalmPost(c)'
    BY <1>1, <1>5, <2>1 DEF CalmPost
  <2>3. CalmFound(c)'
    BY <1>1, <1>3, <1>6, <2>1 DEF CalmFound
  <2> QED
    BY <1>1, <1>4, <1>8, <2>2, <2>3 DEF CalmInv
<1> QED
  BY <1>2, <1>7, <1>8 DEF InHook

LEMMA CalmSave ==
  ASSUME TypeOK, NEW c \in Calls, HookShape(c), CalmInv(c), Calm(c), SaveManifest(c)
  PROVE  CalmInv(c)'
<1> DEFINE h == hook[c]
           new == Without(h.files, DOMAIN h.drift)
<1>1. /\ h.at = "read" /\ \A p \in DOMAIN h.drift : h.drift[p].bytes = Gone
      /\ hook'[c].found = h.found \cup (IF Observing(c) THEN DeletesOf(h.files, h.drift) ELSE {})
      /\ hook'[c].at = IF hook'[c].found = {} THEN "drain" ELSE "stash"
      /\ manifest' = IF h.priming \/ h.touched > 0 \/ DOMAIN h.drift # {}
                     THEN [saved |-> TRUE, files |-> new] ELSE manifest
      /\ UNCHANGED <<side, records, began>>
  BY SaveEffect
<1>2. InHook(c) /\ fs' = fs /\ writes' = writes
  BY DEF SaveManifest
<1>3. CalmPast(c) /\ CalmFound(c)
  BY <1>1, <1>2 DEF CalmInv, Begun, InHook
<1>4. CalmPast(c)'
  BY <1>1, <1>2, <1>3 DEF CalmPast
<1>6. \A y \in DeletesOf(h.files, h.drift) :
        y.path \in DOMAIN h.drift /\ y.stamp = h.drift[y.path].stamp
  BY DeleteStamps
<1>7. CASE side[c] = "pre"
  <2>1. CalmPre(c)
    BY <1>1, <1>7 DEF CalmInv, Begun
  <2>2. hook'[c].found = {} /\ h.found = {} /\ records[c] = {}
    BY <1>1, <1>7 DEF Observing, HookShape
  <2>3. ASSUME NEW p \in Paths, fs[p].stamp <= began[c] PROVE Agrees(new, p)
    <3>1. IF p \in DOMAIN h.drift THEN h.drift[p] = fs[p] ELSE Agrees(h.files, p)
      BY <1>1, <2>1, <2>3 DEF CalmPre
    <3>2. CASE p \in DOMAIN h.drift
      BY <1>1, <3>1, <3>2 DEF Agrees, Without
    <3>3. CASE p \notin DOMAIN h.drift
      BY <3>1, <3>3, WithoutElsewhere DEF Agrees
    <3> QED
      BY <3>2, <3>3
  <2>4. \A p \in Paths : DOMAIN h.drift = {} /\ Agrees(new, p) => Agrees(h.files, p)
    BY WithoutElsewhere DEF Agrees
  <2> HIDE DEF new
  <2>5. manifest'.saved /\ AgreesSince(manifest'.files, began[c])
    <3>1. CASE h.priming \/ h.touched > 0 \/ DOMAIN h.drift # {}
      BY <1>1, <2>3, <3>1 DEF AgreesSince
    <3>2. CASE ~(h.priming \/ h.touched > 0 \/ DOMAIN h.drift # {})
      <4>1. h.touched \in Nat
        BY DEF TypeOK, HookOK
      <4>2. h.files = manifest.files /\ manifest.saved /\ manifest' = manifest
        BY <1>1, <2>1, <3>2, <4>1 DEF CalmPre
      <4> QED
        BY <2>3, <2>4, <3>2, <4>2 DEF AgreesSince
    <3> QED
      BY <3>1, <3>2
  <2>6. AgreesSince(manifest.files, began[c])'
    BY <1>1, <1>2, <2>5 DEF AgreesSince, Agrees
  <2>7. CalmPre(c)' /\ CalmFound(c)'
    BY <1>1, <2>2, <2>5, <2>6 DEF CalmPre, CalmFound
  <2> QED
    BY <1>1, <1>4, <1>7, <2>7 DEF CalmInv
<1>8. CASE side[c] = "post"
  <2>1. ~h.priming /\ \A p \in DOMAIN h.drift : h.drift[p].stamp > began[c]
    BY <1>1, <1>8 DEF CalmInv, Begun, CalmPost
  <2>2. CalmPost(c)'
    BY <1>1 DEF CalmPost
  <2>3. CalmFound(c)'
    BY <1>1, <1>3, <1>6, <2>1 DEF CalmFound
  <2> QED
    BY <1>1, <1>4, <1>8, <2>2, <2>3 DEF CalmInv
<1> QED
  BY <1>2, <1>7, <1>8 DEF InHook

LEMMA CalmLeave ==
  ASSUME TypeOK, NEW c \in Calls, HookShape(c), CalmInv(c), Calm(c), StashRecord(c) \/ EndHook(c)
  PROVE  CalmInv(c)' /\ CalmDone(c)'
<1>1. InHook(c) /\ hook[c].at \in {"stash", "drain"}
  BY DEF StashRecord, EndHook
<1>2. CalmPast(c) /\ CalmFound(c)
  BY <1>1 DEF CalmInv, Begun, InHook
<1>3. CASE StashRecord(c)
  <2>1. /\ hook[c].at = "stash" /\ hook'[c].at = "drain" /\ records'[c] = hook[c].found
        /\ hook'[c].found = hook[c].found
        /\ UNCHANGED <<manifest, side, began, fs, writes>>
        /\ \A d \in Calls \ {c} : records'[d] = records[d]
    BY <1>3, StashEffect, HookLeavesOthers DEF Hook
  <2>2. side[c] = "post"
    BY <2>1 DEF HookShape
  <2>3. CalmPast(c)' /\ CalmFound(c)' /\ CalmPost(c)'
    BY <1>2, <2>1 DEF CalmPast, CalmFound, CalmPost
  <2> QED
    BY <2>1, <2>2, <2>3 DEF CalmInv, CalmDone
<1>4. CASE EndHook(c)
  <2>1. /\ hook[c].at = "drain" /\ hook'[c] = IdleHook
        /\ side'[c] = IF side[c] = "pre" THEN "running" ELSE "done"
        /\ UNCHANGED <<manifest, began, fs, writes, records>>
    BY <1>4, LeaveEffect DEF EndHook
  <2>2. IdleHook.found = {}
    BY DEF IdleHook
  <2>3. CalmPast(c)' /\ CalmFound(c)'
    BY <1>2, <2>1, <2>2 DEF CalmPast, CalmFound
  <2>4. CASE side[c] = "pre"
    <3>1. manifest.saved /\ AgreesSince(manifest.files, began[c])
      BY <2>1, <2>4 DEF CalmInv, Begun, CalmPre
    <3>2. (manifest.saved /\ AgreesSince(manifest.files, began[c]))'
      BY <2>1, <3>1 DEF AgreesSince, Agrees
    <3> QED
      BY <2>1, <2>3, <2>4, <3>2 DEF CalmInv, CalmDone
  <2>5. CASE side[c] = "post"
    BY <1>2, <2>1, <2>5 DEF CalmInv, CalmDone, Begun, CalmFound
  <2> QED
    BY <1>1, <2>4, <2>5 DEF InHook
<1> QED
  BY <1>3, <1>4

(* Nothing that went on beside a call is forgotten.                         *)
LEMMA DisturbedGrows ==
  ASSUME TypeOK, [Next]_vars
  PROVE  \A c \in Calls : disturbed[c] \subseteq disturbed'[c]
<1>t. disturbed \in [Calls -> SUBSET Disturbances]
  BY DEF TypeOK
<1>1. ASSUME NEW c \in Calls, Hook(c) PROVE disturbed' = disturbed
  BY <1>1, HookLeavesOthers
<1>2. ASSUME NEW c \in Calls, EndCommand(c) PROVE disturbed' = disturbed
  BY <1>2 DEF EndCommand
<1>3. ASSUME NEW c \in Calls, StartCall(c)
      PROVE  \A d \in Calls : disturbed[d] \subseteq disturbed'[d]
  BY <1>3 DEF StartCall
<1>4. ASSUME NEW c \in Calls, KillHook(c)
      PROVE  \A d \in Calls : disturbed[d] \subseteq disturbed'[d]
  BY <1>t, <1>4 DEF KillHook
<1>5. ASSUME NEW c \in Calls, NEW p \in Paths, NEW b \in Contents, CommandWrites(c, p, b)
      PROVE  disturbed' = disturbed
  BY <1>5 DEF CommandWrites, history
<1>6. ASSUME NEW p \in Paths, NEW b \in Contents, AmbientWrite(p, b)
      PROVE  \A d \in Calls : disturbed[d] \subseteq disturbed'[d]
  BY <1>6 DEF AmbientWrite
<1>7. CASE UNCHANGED vars
  BY <1>7 DEF vars
<1> QED
  BY <1>1, <1>2, <1>3, <1>4, <1>5, <1>6, <1>7 DEF Next

(* Only a post hook writes a record, and only its own.                      *)
LEMMA OnlyStashRecords ==
  ASSUME TypeOK, [Next]_vars
  PROVE  records' = records \/ \E c \in Calls : StashRecord(c)
<1>1. ASSUME NEW c \in Calls, Hook(c) PROVE records' = records \/ StashRecord(c)
  BY <1>1, LoadEffect, ScanEffect, ReadEffect, SaveEffect DEF Hook, EndHook
<1>2. ASSUME NEW c \in Calls, StartCall(c) \/ KillHook(c) \/ EndCommand(c)
      PROVE  records' = records
  BY <1>2 DEF StartCall, KillHook, EndCommand
<1>3. ASSUME NEW c \in Calls, NEW p \in Paths, NEW b \in Contents, CommandWrites(c, p, b)
      PROVE  records' = records
  BY <1>3 DEF CommandWrites
<1>4. ASSUME NEW p \in Paths, NEW b \in Contents, AmbientWrite(p, b) PROVE records' = records
  BY <1>4 DEF AmbientWrite
<1>5. CASE UNCHANGED vars
  BY <1>5 DEF vars
<1> QED
  BY <1>1, <1>2, <1>3, <1>4, <1>5 DEF Next

CalmAll == \A c \in Calls : CalmInv(c) /\ CalmDone(c)

LEMMA CalmKept ==
  ASSUME TypeOK, BlameInv, CalmAll, [Next]_vars
  PROVE  CalmAll'
<1>g. TreeGrows
  BY StepGrowsTree
<1>b. \A c \in Calls : HookShape(c) /\ OnlyActive(c) /\ CalmInv(c) /\ CalmDone(c)
  BY DEF BlameInv, CalmAll
<1>d. \A c \in Calls : (Calm(c)' => Calm(c)) /\ (Alone(c)' => Alone(c)) /\ (Calm(c) => Alone(c))
  BY DisturbedGrows DEF Calm, Alone
<1>e. \A c \in Calls : Spared(c) => CalmDone(c)'
  BY <1>b, <1>d DEF Spared, CalmDone
<1>1. ASSUME manifest' = manifest, \A c \in Calls : Spared(c) PROVE CalmAll'
  BY <1>1, <1>b, <1>d, <1>e, <1>g, CalmWrite DEF CalmAll
<1>2. ASSUME NEW c \in Calls, Mine(c), NEW d \in Calls \ {c} PROVE CalmInv(d)' /\ CalmDone(d)'
  <2>1. Spared(d)
    BY <1>2, MineSparesOthers
  <2>2. Calm(d)' /\ Begun(d)' => FALSE
    <3> SUFFICES ASSUME Calm(d)', Begun(d)' PROVE FALSE
      OBVIOUS
    <3>1. d \in Active /\ Alone(d)'
      <4>1. Begun(d) /\ Alone(d)'
        BY <2>1 DEF Begun, Spared, Calm, Alone
      <4> QED
        BY <4>1 DEF Begun, Active
    <3> QED
      BY <1>2, <1>b, <3>1, AloneActs
  <2> QED
    BY <1>e, <2>1, <2>2 DEF CalmInv
<1>3. ASSUME NEW c \in Calls, Hook(c) PROVE CalmInv(c)' /\ CalmDone(c)'
  <2>1. CASE ~Calm(c)'
    BY <2>1 DEF CalmInv, CalmDone
  <2>2. CASE Calm(c)' /\ (StashRecord(c) \/ EndHook(c))
    BY <1>b, <1>d, <2>2, CalmLeave
  <2>3. CASE Calm(c)' /\ ~(StashRecord(c) \/ EndHook(c))
    <3>1. CalmInv(c)'
      BY <1>3, <1>b, <1>d, <2>3, CalmLoad, CalmScan, CalmRead, CalmSave DEF Hook
    <3>2. side' = side /\ side[c] # "done"
      BY <1>3, <2>3, HookLeavesOthers, LoadEffect, ScanEffect, ReadEffect, SaveEffect
         DEF Hook, InHook
    <3> QED
      BY <3>1, <3>2 DEF CalmDone
  <2> QED
    BY <2>1, <2>2, <2>3
<1>4. ASSUME NEW c \in Calls, StartCall(c) PROVE CalmInv(c)' /\ CalmDone(c)'
  <2>1. hook' = hook /\ side'[c] = "pre" /\ side[c] = "idle"
    BY <1>4 DEF StartCall, TypeOK
  <2>2. hook[c].at = "load"
    BY <1>b, <2>1 DEF HookShape, InHook, IdleHook
  <2> QED
    BY <2>1, <2>2 DEF CalmInv, CalmDone, Begun
<1>5. ASSUME NEW c \in Calls, KillHook(c) PROVE CalmInv(c)' /\ CalmDone(c)'
  <2>1. "kill" \in disturbed'[c]
    BY <1>5 DEF KillHook, TypeOK
  <2> QED
    BY <2>1 DEF CalmInv, CalmDone, Calm
<1>6. ASSUME NEW c \in Calls, EndCommand(c) PROVE CalmInv(c)' /\ CalmDone(c)'
  <2>1. /\ side[c] = "running" /\ side'[c] = "post"
        /\ UNCHANGED <<hook, manifest, records, began, fs, writes>>
    BY <1>6 DEF EndCommand, TypeOK
  <2>2. hook[c].at = "load"
    BY <1>b, <2>1 DEF HookShape, InHook, IdleHook
  <2> SUFFICES ASSUME Calm(c) PROVE CalmInv(c)'
    BY <1>d, <2>1 DEF CalmInv, CalmDone
  <2>3. CalmPast(c) /\ CalmFound(c) /\ manifest.saved /\ AgreesSince(manifest.files, began[c])
    BY <1>b, <2>1 DEF CalmInv, Begun
  <2>4. (manifest.saved /\ AgreesSince(manifest.files, began[c]))'
    BY <2>1, <2>3 DEF AgreesSince, Agrees
  <2>5. CalmPast(c)' /\ CalmFound(c)' /\ CalmPost(c)'
    BY <2>1, <2>2, <2>3, <2>4 DEF CalmPast, CalmFound, CalmPost
  <2> QED
    BY <2>1, <2>5 DEF CalmInv
<1>7. ASSUME NEW c \in Calls, NEW p \in Paths, NEW b \in Contents, CommandWrites(c, p, b)
      PROVE  CalmAll'
  BY <1>1, <1>7 DEF CommandWrites, Spared, history
<1>8. ASSUME NEW p \in Paths, NEW b \in Contents, AmbientWrite(p, b) PROVE CalmAll'
  BY <1>1, <1>8 DEF AmbientWrite, Spared
<1>9. CASE UNCHANGED vars
  BY <1>1, <1>9 DEF vars, Spared
<1> QED
  <2>1. ASSUME NEW c \in Calls, Hook(c) \/ StartCall(c) \/ KillHook(c) \/ EndCommand(c)
        PROVE  CalmAll'
    BY <1>2, <1>3, <1>4, <1>5, <1>6, <2>1 DEF Mine, CalmAll
  <2> QED
    BY <1>7, <1>8, <1>9, <2>1 DEF Next

(* The step that writes a record repeats nobody's charge.                   *)
LEMMA BlamedStep ==
  ASSUME TypeOK, BlameInv, CalmAll, BlamedOnce, [Next]_vars
  PROVE  BlamedOnce'
<1>d. \A c \in Calls : disturbed[c] \subseteq disturbed'[c]
  BY DisturbedGrows
<1>1. CASE records' = records
  BY <1>1, <1>d DEF BlamedOnce
<1>2. ASSUME NEW c \in Calls, StashRecord(c) PROVE BlamedOnce'
  <2>1. /\ hook[c].at = "stash" /\ records'[c] = hook[c].found /\ InHook(c)
        /\ \A d \in Calls \ {c} : records'[d] = records[d]
    BY <1>2, StashEffect, HookLeavesOthers DEF Hook
  <2>2. ASSUME NEW d \in Calls \ {c}, NEW x \in hook[c].found, NEW y \in records[d], Same(x, y)
        PROVE  "call" \in disturbed[d] /\ ("call" \in disturbed[c] \/ "kill" \in disturbed[c])
    <3>1. ~Alone(d)
      BY <2>2 DEF BlameInv, ChargedSettled, Same
    <3>2. ~Calm(c)
      <4> SUFFICES ASSUME Calm(c) PROVE FALSE
        OBVIOUS
      <4>1. x.stamp > began[c] /\ y.stamp <= began[c] /\ began[c] \in Nat
        BY <2>1 DEF CalmAll, CalmInv, Begun, InHook, CalmPast, CalmFound
      <4>2. x.stamp = y.stamp /\ x.stamp \in Nat
        BY <2>2, FoundTypes DEF Same, BlameInv
      <4> QED
        BY <4>1, <4>2
    <3>3. disturbed[c] \subseteq {"call", "write", "kill"}
      BY DEF TypeOK, Disturbances
    <3> QED
      BY <3>1, <3>2, <3>3 DEF Alone, Calm
  <2> QED
    BY <1>d, <2>1, <2>2 DEF BlamedOnce, Same
<1> QED
  BY <1>1, <1>2, OnlyStashRecords

LEMMA InitBlame == Init => BlameInv /\ CalmAll /\ BlamedOnce
<1> SUFFICES ASSUME Init PROVE BlameInv /\ CalmAll /\ BlamedOnce
  OBVIOUS
<1>1. \A c \in Calls : /\ side[c] = "idle" /\ hook[c] = IdleHook
                       /\ records[c] = {} /\ disturbed[c] = {}
  BY DEF Init
<1>2. IdleHook.at = "load" /\ IdleHook.found = {}
  BY DEF IdleHook
<1>3. \A c \in Calls : HookShape(c) /\ OnlyActive(c) /\ OwnSettled(c) /\ ChargedSettled(c)
  BY <1>1, <1>2 DEF HookShape, OnlyActive, OwnSettled, ChargedSettled, Active, InHook
<1>4. \A c \in Calls : CalmInv(c) /\ CalmDone(c)
  BY <1>1, <1>2 DEF CalmInv, CalmDone, Begun
<1> QED
  BY <1>1, <1>3, <1>4 DEF BlameInv, CalmAll, BlamedOnce

(* The invariant under which a charge is of one call only.                  *)
ChargeInv == TypeOK /\ BaselineInv /\ BlameInv /\ CalmAll

LEMMA InitCharge == Init => ChargeInv
BY InitTypes, InitBaseline, InitBlame DEF ChargeInv

LEMMA StepCharge == ChargeInv /\ [Next]_vars => ChargeInv'
<1> SUFFICES ASSUME TypeOK, BaselineInv, BlameInv, CalmAll, [Next]_vars PROVE ChargeInv'
  BY DEF ChargeInv
<1>1. TypeOK' /\ BaselineInv' /\ CalmAll'
  BY StepTypes, StepKeepsBaseline, CalmKept
<1>2. \A c \in Calls : HookShape(c)' /\ OnlyActive(c)' /\ OwnSettled(c)' /\ ChargedSettled(c)'
  BY ShapeKept, OnlyActiveKept, OwnSettledKept, ChargedSettledKept DEF BlameInv
<1> QED
  BY <1>1, <1>2 DEF ChargeInv, BlameInv

(***************************************************************************)
(* ChargedOnce: a write is in the record of one call only, unless hooks of  *)
(* two calls overlapped, however many writers and kills there are: what a    *)
(* post hook charges it has saved to the manifest first, and while it was    *)
(* alone nobody can have put older entries over that.                       *)
(***************************************************************************)
THEOREM ChargedOnce == Spec => []BlamedOnce
<1>1. Init => ChargeInv /\ BlamedOnce
  BY InitCharge, InitBlame
<1>2. ChargeInv /\ BlamedOnce /\ [Next]_vars => (ChargeInv /\ BlamedOnce)'
  BY StepCharge, BlamedStep DEF ChargeInv
<1> QED
  BY <1>1, <1>2, PTL DEF Spec

(* And it keeps earlier writes out of a charge.                             *)
LEMMA ChargeGivesNoPrior == ChargeInv => NoPriorBlame
<1> SUFFICES ASSUME ChargeInv, NEW c \in Calls, Calm(c), NEW x \in records[c]
             PROVE  x.stamp > began[c]
  BY DEF NoPriorBlame, Calm
<1>1. side[c] = "done" \/ side[c] = "post"
  BY DEF ChargeInv, BlameInv, HookShape
<1> QED
  BY <1>1 DEF ChargeInv, CalmAll, CalmDone, CalmInv, Begun, CalmFound

(***************************************************************************)
(* PriorChangesFoldIn: a call whose hooks ran to their end, alone, is not    *)
(* charged with a write from before its pre hook loaded the manifest.       *)
(***************************************************************************)
THEOREM PriorChangesFoldIn == Spec => []NoPriorBlame
<1> QED
  BY InitCharge, StepCharge, ChargeGivesNoPrior, PTL DEF Spec

(***************************************************************************)
(* What a quiet call is charged with                                       *)
(*                                                                         *)
(* The tree stands still under its hooks, so the entries its post hook      *)
(* starts from describe the tree the command found, and what the walk has   *)
(* done of the drift at any time is charged in full.                       *)
(***************************************************************************)
Describes(files, old, n) ==
  \A p \in Paths :
    /\ p \in DOMAIN files <=> old[p] # Gone
    /\ p \in DOMAIN files =>
         files[p].stamp <= n /\ files[p].ref = RefOf(old[p]) /\ files[p].size = Size[old[p]]

ChangedSince(c) == \A p \in Paths : fs[p].stamp <= began[c] => fs[p].bytes = before[c][p]

Charge(deltas) == {<<d.path, d.op, d.before, d.after>> : d \in deltas}

NetOf(old, new, P) ==
  {<<p, OpOf(old[p], new[p]), RefOf(old[p]), RefOf(new[p])>> :
     p \in {q \in P : ~Indistinct(old[q], new[q])}}

QuietPost(c) ==
  LET h == hook[c]
  IN  /\ after[c] = ContentsNow
      /\ h.at = "load" => Describes(manifest.files, before[c], began[c]) /\ ChangedSince(c)
      /\ h.at = "scan" => Describes(h.files, before[c], began[c]) /\ ChangedSince(c)
      /\ h.at = "read" =>
           /\ \A p \in DOMAIN h.drift :
                /\ h.drift[p] = fs[p]
                /\ p \in DOMAIN h.files <=> before[c][p] # Gone
                /\ p \in DOMAIN h.files =>
                     h.files[p].ref = RefOf(before[c][p]) /\ h.files[p].size = Size[before[c][p]]
           /\ Charge(h.found) = NetOf(before[c], after[c], Paths \ DOMAIN h.drift)
      /\ h.at = "stash" => Charge(h.found) = NetOf(before[c], after[c], Paths)
      /\ h.at = "drain" => Charge(records[c]) = NetOf(before[c], after[c], Paths)

QuietInv(c) ==
  Quiet(c) =>
    /\ side[c] = "pre" /\ hook[c].at # "load" => writes = began[c]
    /\ side[c] = "running" => Describes(manifest.files, before[c], began[c]) /\ ChangedSince(c)
    /\ side[c] = "post" => QuietPost(c)
    /\ side[c] = "done" => Charge(records[c]) = NetOf(before[c], after[c], Paths)

LEMMA NetParts ==
  ASSUME NEW old, NEW new, NEW P, NEW Q
  PROVE  NetOf(old, new, P \cup Q) = NetOf(old, new, P) \cup NetOf(old, new, Q)
BY DEF NetOf

LEMMA NetNone ==
  ASSUME NEW old, NEW new, NEW P, \A p \in P : Indistinct(old[p], new[p])
  PROVE  NetOf(old, new, P) = {}
BY DEF NetOf

LEMMA ChargeParts ==
  ASSUME NEW X, NEW Y PROVE Charge(X \cup Y) = Charge(X) \cup Charge(Y) /\ Charge({}) = {}
BY DEF Charge

(* A touch, by what the entries hold, is what cannot be told from no change. *)
LEMMA TouchIsIndistinct ==
  ASSUME NEW old, NEW new, NEW b \in Bytes, NEW d \in Bytes,
         old.ref = RefOf(b), old.size = Size[b], new.ref = RefOf(d), new.size = Size[d]
  PROVE  Touch(old, new) <=> Indistinct(b, d)
<1>1. b # Gone /\ d # Gone /\ b # NoRef /\ d # NoRef
  BY HookConstants
<1>2. /\ RefOf(b) = IF Size[b] > MaxFileBytes THEN NoRef ELSE b
      /\ RefOf(d) = IF Size[d] > MaxFileBytes THEN NoRef ELSE d
  BY <1>1 DEF RefOf
<1> QED
  BY <1>1, <1>2 DEF Touch, Indistinct

(* One file's delta is its part of the net change.                          *)
LEMMA FileCharge ==
  ASSUME NEW files, NEW p, NEW e, NEW old, NEW new,
         new[p] \in Bytes, old[p] \in Contents,
         p \in DOMAIN files <=> old[p] # Gone,
         p \in DOMAIN files => files[p].ref = RefOf(old[p]) /\ files[p].size = Size[old[p]],
         e.ref = RefOf(new[p]), e.size = Size[new[p]]
  PROVE  Charge(DeltasOf(files, p, e)) = NetOf(old, new, {p})
<1>g. new[p] # Gone
  BY HookConstants
<1>1. CASE p \notin DOMAIN files
  <2>1. Charge(DeltasOf(files, p, e)) = {<<p, "create", NoRef, RefOf(new[p])>>}
    BY <1>1 DEF Charge, DeltasOf
  <2>2. old[p] = Gone /\ RefOf(old[p]) = NoRef /\ OpOf(old[p], new[p]) = "create"
    BY <1>1 DEF RefOf, OpOf
  <2>3. ~Indistinct(old[p], new[p])
    BY <1>g, <2>2, HookConstants DEF Indistinct
  <2>4. NetOf(old, new, {p}) = {<<p, OpOf(old[p], new[p]), RefOf(old[p]), RefOf(new[p])>>}
    BY <2>3 DEF NetOf
  <2> QED
    BY <2>1, <2>2, <2>4
<1>2. CASE p \in DOMAIN files
  <2>1. old[p] \in Bytes /\ OpOf(old[p], new[p]) = "modify"
    BY <1>2, <1>g DEF Contents, OpOf
  <2>2. Touch(files[p], e) <=> Indistinct(old[p], new[p])
    BY <1>2, <2>1, TouchIsIndistinct
  <2>3. CASE Touch(files[p], e)
    <3>1. DeltasOf(files, p, e) = {}
      BY <1>2, <2>3 DEF DeltasOf
    <3>2. NetOf(old, new, {p}) = {}
      BY <2>2, <2>3 DEF NetOf
    <3> QED
      BY <3>1, <3>2 DEF Charge
  <2>4. CASE ~Touch(files[p], e)
    <3>1. Charge(DeltasOf(files, p, e)) = {<<p, "modify", files[p].ref, e.ref>>}
      BY <1>2, <2>4 DEF Charge, DeltasOf
    <3>2. NetOf(old, new, {p}) = {<<p, OpOf(old[p], new[p]), RefOf(old[p]), RefOf(new[p])>>}
      BY <2>2, <2>4 DEF NetOf
    <3> QED
      BY <1>2, <2>1, <3>1, <3>2
  <2> QED
    BY <2>3, <2>4
<1> QED
  BY <1>1, <1>2

(* And the deltas of what is gone are its part.                             *)
LEMMA GoneCharge ==
  ASSUME NEW files, NEW drift, NEW old, NEW new,
         \A p \in DOMAIN drift : /\ old[p] # Gone /\ new[p] = Gone
                                 /\ files[p].ref = RefOf(old[p])
  PROVE  Charge(DeletesOf(files, drift)) = NetOf(old, new, DOMAIN drift)
<1>1. Charge(DeletesOf(files, drift)) =
        {<<p, "delete", files[p].ref, NoRef>> : p \in DOMAIN drift}
  <2>1. ASSUME NEW d \in DeletesOf(files, drift)
        PROVE  \E p \in DOMAIN drift : <<d.path, d.op, d.before, d.after>>
                                        = <<p, "delete", files[p].ref, NoRef>>
    BY DEF DeletesOf
  <2>2. ASSUME NEW p \in DOMAIN drift
        PROVE  \E d \in DeletesOf(files, drift) : <<d.path, d.op, d.before, d.after>>
                                                   = <<p, "delete", files[p].ref, NoRef>>
    <3> DEFINE d == [path |-> p, op |-> "delete", before |-> files[p].ref, after |-> NoRef,
                     partial |-> files[p].ref = NoRef, stamp |-> drift[p].stamp]
    <3>1. d \in DeletesOf(files, drift)
      BY DEF DeletesOf
    <3>2. <<d.path, d.op, d.before, d.after>> = <<p, "delete", files[p].ref, NoRef>>
      OBVIOUS
    <3> QED
      BY <3>1, <3>2
  <2> QED
    BY <2>1, <2>2 DEF Charge
<1>2. \A p \in DOMAIN drift :
        /\ ~Indistinct(old[p], new[p])
        /\ OpOf(old[p], new[p]) = "delete" /\ RefOf(new[p]) = NoRef
        /\ RefOf(old[p]) = files[p].ref
  BY HookConstants DEF Indistinct, OpOf, RefOf
<1>3. {q \in DOMAIN drift : ~Indistinct(old[q], new[q])} = DOMAIN drift
  BY <1>2
<1>4. NetOf(old, new, DOMAIN drift) =
        {<<p, OpOf(old[p], new[p]), RefOf(old[p]), RefOf(new[p])>> : p \in DOMAIN drift}
  BY <1>3 DEF NetOf
<1> QED
  BY <1>1, <1>2, <1>4

(* The steps of a quiet call's own hooks.                                   *)
LEMMA QuietLoad ==
  ASSUME TypeOK, NEW c \in Calls, HookShape(c), QuietInv(c), Quiet(c), LoadManifest(c)
  PROVE  QuietInv(c)'
<1>1. /\ hook[c].at = "load" /\ hook'[c].at = "scan" /\ hook'[c].files = manifest.files
      /\ began'[c] = IF side[c] = "pre" THEN writes ELSE began[c]
      /\ UNCHANGED <<manifest, side, records, before>>
  BY LoadEffect
<1>2. InHook(c) /\ UNCHANGED <<fs, writes, after>>
  BY DEF LoadManifest
<1>3. CASE side[c] = "pre"
  BY <1>1, <1>2, <1>3, HookConstants DEF QuietInv, TypeOK
<1>4. CASE side[c] = "post"
  <2>1. QuietPost(c) /\ began'[c] = began[c]
    BY <1>1, <1>4 DEF QuietInv
  <2>2. QuietPost(c)'
    BY <1>1, <1>2, <2>1 DEF QuietPost, Describes, ChangedSince, ContentsNow
  <2> QED
    BY <1>1, <1>4, <2>2 DEF QuietInv
<1> QED
  BY <1>2, <1>3, <1>4 DEF InHook

LEMMA QuietScan ==
  ASSUME TypeOK, NEW c \in Calls, HookShape(c), QuietInv(c), Quiet(c), ScanStats(c)
  PROVE  QuietInv(c)'
<1>1. /\ hook[c].at = "scan" /\ hook'[c].at = "read" /\ hook'[c].files = hook[c].files
      /\ hook'[c].drift = Drift(hook[c].files) /\ hook'[c].found = {}
      /\ UNCHANGED <<fs, writes, after, manifest, side, records, began, before>>
  BY ScanEffect DEF HookShape, ScanStats, history
<1>2. InHook(c)
  BY DEF ScanStats
<1>3. CASE side[c] = "pre"
  BY <1>1, <1>3 DEF QuietInv
<1>4. CASE side[c] = "post"
  <2> DEFINE files == hook[c].files
             drift == Drift(files)
  <2>1. after[c] = ContentsNow /\ Describes(files, before[c], began[c]) /\ ChangedSince(c)
    BY <1>1, <1>4 DEF QuietInv, QuietPost
  <2>2. \A p \in Paths : /\ p \in DOMAIN drift => drift[p] = fs[p]
                         /\ p \notin DOMAIN drift => Agrees(files, p)
    BY DriftOrAgrees
  <2>3. DOMAIN drift \subseteq Paths
    BY DEF Drift
  <2> HIDE DEF drift
  <2>4. ASSUME NEW p \in Paths \ DOMAIN drift PROVE Indistinct(before[c][p], after[c][p])
    <3>1. after[c][p] = fs[p].bytes
      BY <2>1 DEF ContentsNow
    <3>2. before[c][p] = fs[p].bytes
      BY <2>1, <2>2 DEF Agrees, Describes, ChangedSince
    <3> QED
      BY <3>1, <3>2 DEF Indistinct
  <2>5. NetOf(before[c], after[c], Paths \ DOMAIN drift) = {}
    BY <2>4, NetNone
  <2>6. \A p \in DOMAIN drift :
          /\ drift[p] = fs[p]
          /\ p \in DOMAIN files <=> before[c][p] # Gone
          /\ p \in DOMAIN files =>
               files[p].ref = RefOf(before[c][p]) /\ files[p].size = Size[before[c][p]]
    BY <2>1, <2>2, <2>3 DEF Describes
  <2>7. Charge(hook'[c].found) = {}
    BY <1>1, ChargeParts
  <2>8. after'[c] = ContentsNow'
    BY <1>1, <2>1 DEF ContentsNow
  <2> HIDE DEF files
  <2>9. /\ hook'[c].drift = drift /\ hook'[c].files = files
    BY <1>1 DEF drift, files
  <2>10. QuietPost(c)'
    BY <1>1, <2>5, <2>6, <2>7, <2>8, <2>9 DEF QuietPost
  <2> QED
    BY <1>1, <1>4, <2>10 DEF QuietInv
<1> QED
  BY <1>2, <1>3, <1>4 DEF InHook

LEMMA QuietRead ==
  ASSUME TypeOK, NEW c \in Calls, CalmInv(c), QuietInv(c), Quiet(c), NEW q \in Paths, ReadFile(c, q)
  PROVE  QuietInv(c)'
<1> DEFINE h == hook[c]
           e == ReadEntry(h.drift[q], fs[q])
           deltas == DeltasOf(h.files, q, e)
<1>1. /\ h.at = "read" /\ hook'[c].at = "read" /\ q \in DOMAIN h.drift /\ h.drift[q].bytes # Gone
      /\ hook'[c].files = Put(h.files, q, e) /\ hook'[c].drift = Without(h.drift, {q})
      /\ hook'[c].found = h.found \cup (IF Observing(c) THEN deltas ELSE {})
      /\ UNCHANGED <<side, records, began, before>>
  BY ReadEffect
<1>2. InHook(c) /\ UNCHANGED <<fs, writes, after>>
  BY DEF ReadFile, history
<1>3. CASE side[c] = "pre"
  BY <1>1, <1>2, <1>3 DEF QuietInv
<1>4. CASE side[c] = "post"
  <2>1. /\ after[c] = ContentsNow
        /\ \A p \in DOMAIN h.drift :
             /\ h.drift[p] = fs[p]
             /\ p \in DOMAIN h.files <=> before[c][p] # Gone
             /\ p \in DOMAIN h.files =>
                  h.files[p].ref = RefOf(before[c][p]) /\ h.files[p].size = Size[before[c][p]]
        /\ Charge(h.found) = NetOf(before[c], after[c], Paths \ DOMAIN h.drift)
    BY <1>1, <1>4 DEF QuietInv, QuietPost
  <2>2. Observing(c)
    BY <1>1, <1>4 DEF CalmInv, Calm, Quiet, Begun, CalmPost, Observing
  <2>3. after[c][q] = fs[q].bytes /\ fs[q].bytes \in Bytes /\ before[c][q] \in Contents
    BY <1>1, <2>1 DEF ContentsNow, TypeOK, File, Contents
  <2>4. e.ref = RefOf(after[c][q]) /\ e.size = Size[after[c][q]]
    <3>1. fs[q].bytes # Gone /\ h.drift[q] = fs[q]
      BY <1>1, <2>1
    <3> QED
      BY <2>3, <3>1 DEF ReadEntry, RefOf
  <2> HIDE DEF e
  <2>5. Charge(deltas) = NetOf(before[c], after[c], {q})
    BY <1>1, <2>1, <2>3, <2>4, FileCharge
  <2> HIDE DEF deltas
  <2>6. Charge(hook'[c].found) = NetOf(before[c], after[c], (Paths \ DOMAIN h.drift) \cup {q})
    <3>1. hook'[c].found = h.found \cup deltas
      BY <1>1, <2>2
    <3>2. Charge(h.found \cup deltas) = Charge(h.found) \cup Charge(deltas)
      BY ChargeParts
    <3>3. NetOf(before[c], after[c], (Paths \ DOMAIN h.drift) \cup {q})
            = NetOf(before[c], after[c], Paths \ DOMAIN h.drift) \cup NetOf(before[c], after[c], {q})
      BY NetParts
    <3> QED
      BY <2>1, <2>5, <3>1, <3>2, <3>3
  <2>7. /\ DOMAIN hook'[c].drift = DOMAIN h.drift \ {q}
        /\ \A p \in DOMAIN hook'[c].drift : hook'[c].drift[p] = h.drift[p]
    BY <1>1 DEF Without
  <2>8. Paths \ DOMAIN hook'[c].drift = (Paths \ DOMAIN h.drift) \cup {q}
    BY <2>7
  <2>9. \A p \in DOMAIN hook'[c].drift :
          /\ p \in DOMAIN hook'[c].files <=> p \in DOMAIN h.files
          /\ p \in DOMAIN h.files => hook'[c].files[p] = h.files[p]
    BY <1>1, <2>7, PutElsewhere
  <2>10. after'[c] = ContentsNow'
    BY <1>2, <2>1 DEF ContentsNow
  <2>11. \A p \in DOMAIN hook'[c].drift :
           /\ hook'[c].drift[p] = fs[p]
           /\ p \in DOMAIN hook'[c].files <=> before[c][p] # Gone
           /\ p \in DOMAIN hook'[c].files =>
                /\ hook'[c].files[p].ref = RefOf(before[c][p])
                /\ hook'[c].files[p].size = Size[before[c][p]]
    BY <2>1, <2>7, <2>9
  <2>12. QuietPost(c)'
    BY <1>1, <1>2, <2>6, <2>8, <2>10, <2>11 DEF QuietPost
  <2> QED
    BY <1>1, <1>4, <2>12 DEF QuietInv
<1> QED
  BY <1>2, <1>3, <1>4 DEF InHook

LEMMA QuietSave ==
  ASSUME TypeOK, NEW c \in Calls, HookShape(c), CalmInv(c), QuietInv(c), Quiet(c), SaveManifest(c)
  PROVE  QuietInv(c)'
<1> DEFINE h == hook[c]
           deltas == DeletesOf(h.files, h.drift)
<1>1. /\ h.at = "read" /\ \A p \in DOMAIN h.drift : h.drift[p].bytes = Gone
      /\ hook'[c].found = h.found \cup (IF Observing(c) THEN deltas ELSE {})
      /\ hook'[c].at = IF hook'[c].found = {} THEN "drain" ELSE "stash"
      /\ UNCHANGED <<side, records, began, before>>
  BY SaveEffect
<1>2. InHook(c) /\ UNCHANGED <<fs, writes, after>>
  BY DEF SaveManifest, history
<1>3. CASE side[c] = "pre"
  BY <1>1, <1>2, <1>3 DEF QuietInv
<1>4. CASE side[c] = "post"
  <2>1. /\ after[c] = ContentsNow
        /\ \A p \in DOMAIN h.drift :
             /\ h.drift[p] = fs[p]
             /\ p \in DOMAIN h.files <=> before[c][p] # Gone
             /\ p \in DOMAIN h.files => h.files[p].ref = RefOf(before[c][p])
        /\ Charge(h.found) = NetOf(before[c], after[c], Paths \ DOMAIN h.drift)
    BY <1>1, <1>4 DEF QuietInv, QuietPost
  <2>2. Observing(c)
    BY <1>1, <1>4 DEF CalmInv, Calm, Quiet, Begun, CalmPost, Observing
  <2>3. DOMAIN h.drift \subseteq Paths /\ \A p \in DOMAIN h.drift : p \in DOMAIN h.files
    BY <1>1 DEF TypeOK, HookOK, MapTo
  <2>4. Charge(deltas) = NetOf(before[c], after[c], DOMAIN h.drift)
    <3>1. \A p \in DOMAIN h.drift : /\ before[c][p] # Gone /\ after[c][p] = Gone
                                    /\ h.files[p].ref = RefOf(before[c][p])
      BY <1>1, <2>1, <2>3 DEF ContentsNow
    <3> QED
      BY <3>1, GoneCharge
  <2> HIDE DEF deltas
  <2>5. Charge(hook'[c].found) = NetOf(before[c], after[c], Paths)
    <3>1. hook'[c].found = h.found \cup deltas
      BY <1>1, <2>2
    <3>2. Charge(h.found \cup deltas) = Charge(h.found) \cup Charge(deltas)
      BY ChargeParts
    <3>3. NetOf(before[c], after[c], (Paths \ DOMAIN h.drift) \cup DOMAIN h.drift)
            = NetOf(before[c], after[c], Paths \ DOMAIN h.drift)
                \cup NetOf(before[c], after[c], DOMAIN h.drift)
      BY NetParts
    <3>4. (Paths \ DOMAIN h.drift) \cup DOMAIN h.drift = Paths
      BY <2>3
    <3> QED
      BY <2>1, <2>4, <3>1, <3>2, <3>3, <3>4
  <2>6. hook'[c].found = {} => Charge(records[c]) = NetOf(before[c], after[c], Paths)
    <3>1. records[c] = {}
      BY <1>1, <1>4 DEF HookShape
    <3> QED
      BY <2>5, <3>1
  <2>7. after'[c] = ContentsNow'
    BY <1>2, <2>1 DEF ContentsNow
  <2>8. QuietPost(c)'
    BY <1>1, <1>2, <2>5, <2>6, <2>7 DEF QuietPost
  <2> QED
    BY <1>1, <1>4, <2>8 DEF QuietInv
<1> QED
  BY <1>2, <1>3, <1>4 DEF InHook

LEMMA QuietStash ==
  ASSUME TypeOK, NEW c \in Calls, HookShape(c), QuietInv(c), Quiet(c), StashRecord(c)
  PROVE  QuietInv(c)'
<1>1. /\ hook[c].at = "stash" /\ hook'[c].at = "drain" /\ records'[c] = hook[c].found
      /\ UNCHANGED <<fs, after, side, began, before>>
  BY StashEffect DEF StashRecord, history
<1>2. side[c] = "post" /\ QuietPost(c)
  BY <1>1 DEF HookShape, QuietInv
<1>3. QuietPost(c)'
  BY <1>1, <1>2 DEF QuietPost, ContentsNow
<1> QED
  BY <1>1, <1>2, <1>3 DEF QuietInv

(* When the pre hook is over the manifest describes the tree.               *)
LEMMA QuietEnd ==
  ASSUME TypeOK, BaselineInv, NEW c \in Calls, CalmInv(c), QuietInv(c), Quiet(c), EndHook(c)
  PROVE  QuietInv(c)'
<1>1. /\ hook[c].at = "drain" /\ InHook(c)
      /\ side'[c] = IF side[c] = "pre" THEN "running" ELSE "done"
      /\ before'[c] = IF side[c] = "pre" THEN ContentsNow ELSE before[c]
      /\ UNCHANGED <<fs, writes, manifest, records, began, after>>
  BY LeaveEffect DEF EndHook
<1>2. CASE side[c] = "pre"
  <2>1. writes = began[c] /\ AgreesSince(manifest.files, began[c])
    BY <1>1, <1>2 DEF QuietInv, CalmInv, Calm, Quiet, Begun, CalmPre
  <2>2. before'[c] = ContentsNow /\ \A p \in Paths : before'[c][p] = fs[p].bytes
    BY <1>1, <1>2 DEF ContentsNow
  <2>3. \A p \in Paths : fs[p].stamp <= began[c] /\ Agrees(manifest.files, p)
    BY <2>1 DEF TypeOK, AgreesSince
  <2>4. \A p \in Paths :
          /\ p \in DOMAIN manifest.files <=> fs[p].bytes # Gone
          /\ p \in DOMAIN manifest.files =>
               /\ manifest.files[p].stamp <= began[c]
               /\ manifest.files[p].ref = RefOf(fs[p].bytes)
               /\ manifest.files[p].size = Size[fs[p].bytes]
    BY <2>3 DEF Agrees, BaselineInv, SkipSound
  <2>5. Describes(manifest.files, before[c], began[c])'
    BY <1>1, <2>2, <2>4 DEF Describes
  <2>6. ChangedSince(c)'
    BY <1>1, <2>2 DEF ChangedSince
  <2> QED
    BY <1>1, <1>2, <2>5, <2>6 DEF QuietInv
<1>3. CASE side[c] = "post"
  BY <1>1, <1>3 DEF QuietInv, QuietPost
<1> QED
  BY <1>1, <1>2, <1>3 DEF InHook

QuietAll == \A c \in Calls : QuietInv(c)

LEMMA QuietKept ==
  ASSUME TypeOK, BaselineInv, BlameInv, CalmAll, QuietAll, [Next]_vars
  PROVE  QuietAll'
<1>g. TreeGrows
  BY StepGrowsTree
<1>b. \A c \in Calls : HookShape(c) /\ OnlyActive(c) /\ CalmInv(c) /\ QuietInv(c)
  BY DEF BlameInv, CalmAll, QuietAll
<1>d. \A c \in Calls : (Quiet(c)' => Quiet(c)) /\ (Quiet(c)' => Alone(c)')
  BY DisturbedGrows DEF Quiet, Alone
<1>i. ASSUME NEW c \in Calls, Spared(c), c \notin Active PROVE QuietInv(c)'
  BY <1>b, <1>d, <1>i DEF Spared, Active, QuietInv
<1>1. ASSUME NEW c \in Calls, Mine(c), NEW d \in Calls \ {c} PROVE QuietInv(d)'
  <2>1. Spared(d)
    BY <1>1, MineSparesOthers
  <2>2. CASE d \in Active
    BY <1>1, <1>b, <1>d, <2>2, AloneActs DEF QuietInv
  <2> QED
    BY <1>i, <2>1, <2>2
<1>2. ASSUME NEW c \in Calls, Hook(c) PROVE QuietInv(c)'
  <2>1. CASE ~Quiet(c)'
    BY <2>1 DEF QuietInv
  <2>2. CASE Quiet(c)'
    <3>1. Quiet(c) /\ Calm(c)
      BY <1>d, <2>2 DEF Quiet, Calm
    <3> QED
      BY <1>2, <1>b, <3>1, QuietLoad, QuietScan, QuietRead, QuietSave, QuietStash, QuietEnd DEF Hook
  <2> QED
    BY <2>1, <2>2
<1>3. ASSUME NEW c \in Calls, StartCall(c) PROVE QuietInv(c)'
  <2>1. hook' = hook /\ side'[c] = "pre" /\ side[c] = "idle"
    BY <1>3 DEF StartCall, TypeOK
  <2>2. hook[c].at = "load"
    BY <1>b, <2>1 DEF HookShape, InHook, IdleHook
  <2> QED
    BY <2>1, <2>2 DEF QuietInv
<1>4. ASSUME NEW c \in Calls, KillHook(c) PROVE QuietInv(c)'
  BY <1>4 DEF KillHook, TypeOK, QuietInv, Quiet
<1>5. ASSUME NEW c \in Calls, EndCommand(c) PROVE QuietInv(c)'
  <2>1. /\ side[c] = "running" /\ side'[c] = "post" /\ after'[c] = ContentsNow
        /\ UNCHANGED <<hook, manifest, records, began, before, fs, writes>>
    BY <1>5 DEF EndCommand, TypeOK
  <2>2. hook[c].at = "load"
    BY <1>b, <2>1 DEF HookShape, InHook, IdleHook
  <2> SUFFICES ASSUME Quiet(c) PROVE QuietInv(c)'
    BY <1>d DEF QuietInv
  <2>3. Describes(manifest.files, before[c], began[c]) /\ ChangedSince(c)
    BY <1>b, <2>1 DEF QuietInv
  <2>4. QuietPost(c)'
    BY <2>1, <2>2, <2>3 DEF QuietPost, Describes, ChangedSince, ContentsNow
  <2> QED
    BY <2>1, <2>4 DEF QuietInv
<1>6. ASSUME NEW c \in Calls, NEW p \in Paths, NEW b \in Contents, CommandWrites(c, p, b)
      PROVE  QuietInv(c)'
  <2>1. /\ side[c] = "running"
        /\ UNCHANGED <<hook, side, manifest, records, began, before, after, disturbed>>
    BY <1>6 DEF CommandWrites, history
  <2> SUFFICES ASSUME Quiet(c) PROVE QuietInv(c)'
    BY <1>d DEF QuietInv
  <2>2. Describes(manifest.files, before[c], began[c]) /\ ChangedSince(c)
    BY <1>b, <2>1 DEF QuietInv
  <2>3. began[c] \in Nat /\ began[c] <= writes
    BY <1>b, <2>1 DEF CalmInv, Calm, Quiet, Begun, CalmPast
  <2>4. ChangedSince(c)'
    BY <1>g, <2>1, <2>2, <2>3, AgreesKept DEF ChangedSince
  <2>5. Describes(manifest.files, before[c], began[c])'
    BY <2>1, <2>2 DEF Describes
  <2> QED
    BY <2>1, <2>4, <2>5 DEF QuietInv
<1>7. ASSUME NEW p \in Paths, NEW b \in Contents, AmbientWrite(p, b) PROVE QuietAll'
  <2>1. ASSUME NEW c \in Calls PROVE QuietInv(c)'
    <3>1. CASE c \in Active
      BY <1>7, <3>1 DEF AmbientWrite, QuietInv, Quiet
    <3>2. CASE c \notin Active
      BY <1>7, <1>i, <3>2 DEF AmbientWrite, Spared
    <3> QED
      BY <3>1, <3>2
  <2> QED
    BY <2>1 DEF QuietAll
<1>8. CASE UNCHANGED vars
  <2>1. ASSUME NEW c \in Calls PROVE QuietInv(c)'
    <3>1. QuietPost(c) => QuietPost(c)'
      BY <1>8 DEF vars, QuietPost, Describes, ChangedSince, ContentsNow
    <3>2. /\ Describes(manifest.files, before[c], began[c])
               => Describes(manifest.files, before[c], began[c])'
          /\ ChangedSince(c) => ChangedSince(c)'
      BY <1>8 DEF vars, Describes, ChangedSince
    <3> QED
      BY <1>8, <1>b, <3>1, <3>2 DEF vars, QuietInv, Quiet
  <2> QED
    BY <2>1 DEF QuietAll
<1>9. ASSUME NEW c \in Calls, Mine(c) PROVE QuietAll'
  <2>1. QuietInv(c)'
    BY <1>9, <1>2, <1>3, <1>4, <1>5, <1>6 DEF Mine
  <2> QED
    BY <1>1, <1>9, <2>1 DEF QuietAll
<1> QED
  BY <1>7, <1>8, <1>9 DEF Next, Mine

LEMMA InitQuiet == Init => QuietAll
BY DEF Init, QuietAll, QuietInv, IdleHook

(* The invariant gives the property: the reference is the part of all paths. *)
LEMMA QuietGivesExact == QuietAll => ExactWhenQuiet
<1> SUFFICES ASSUME QuietAll, NEW c \in Calls, side[c] = "done", disturbed[c] = {}
             PROVE  {<<d.path, d.op, d.before, d.after>> : d \in records[c]}
                      = NetChange(before[c], after[c])
  BY DEF ExactWhenQuiet
<1>1. Charge(records[c]) = NetOf(before[c], after[c], Paths)
  BY DEF QuietAll, QuietInv, Quiet
<1> QED
  BY <1>1 DEF Charge, NetOf, NetChange

(***************************************************************************)
(* QuietIsExact: a call whose hooks were not killed, and during which        *)
(* nobody else wrote or called, is charged with exactly the net change of    *)
(* its command, whatever happened to the calls before it.                   *)
(***************************************************************************)
THEOREM QuietIsExact == Spec => []ExactWhenQuiet
<1>1. Init => ChargeInv /\ QuietAll
  BY InitCharge, InitQuiet
<1>2. ChargeInv /\ QuietAll /\ [Next]_vars => (ChargeInv /\ QuietAll)'
  BY StepCharge, QuietKept DEF ChargeInv
<1> QED
  BY <1>1, <1>2, QuietGivesExact, PTL DEF Spec
=============================================================================
