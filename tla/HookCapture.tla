---------------------------- MODULE HookCapture ----------------------------
(***************************************************************************)
(* Hook-based file capture (packages/server/src/hook_capture.ts, entered   *)
(* through packages/cli/src/commands/capture.ts): the pre and the post     *)
(* hook around each Bash call of one watched root.                         *)
(*                                                                         *)
(* Every hook is a short-lived process.  The hooks share the manifest file *)
(* of the root and take no lock; one killed at Claude Code's timeout       *)
(* leaves what it had written, and the Bash call goes on without it.  A    *)
(* step below is the code between two file operations another process can  *)
(* get between.  The drain that ends every hook reads and unlinks stash    *)
(* records only, and is StashDrain's subject.                               *)
(*                                                                         *)
(* A file is [bytes, stamp]: its content and the number of its last write, *)
(* which stands for the (size, mtime) pair a manifest entry compares.      *)
(* Deleting a file is a write of Gone.                                     *)
(***************************************************************************)
EXTENDS Integers, FiniteSets

CONSTANTS
  Calls,           \* the Bash calls of the root, each with a pre and a post
  Paths,           \* files no ignore rule hides
  Bytes,           \* file contents
  Size,            \* [Bytes -> Nat]
  MaxFileBytes,    \* larger files are tracked without a blob ref
  CheckpointEvery, \* PRIME_CHECKPOINT_EVERY
  NoRef, Gone,     \* no blob ref; no file
  MaxParallel,     \* bound: Bash calls in flight at once
  MaxWrites,       \* bound: writes to the tree
  MaxKills         \* bound: hooks killed

ASSUME HookConstants ==
  /\ Size \in [Bytes -> Nat] /\ MaxFileBytes \in Nat
  /\ CheckpointEvery \in Nat \ {0}
  /\ NoRef \notin Bytes /\ Gone \notin Bytes
  /\ MaxParallel \in Nat /\ MaxWrites \in Nat /\ MaxKills \in Nat

VARIABLES
  fs,        \* the tree: [Paths -> File]
  writes,    \* writes so far; the next write's stamp is one more
  manifest,  \* manifest-<sha16(root)>.json: whether it exists, its entries
  side,      \* [Calls -> Sides]: how far each call has come
  hook,      \* [Calls -> the running hook's local state]
  records,   \* [Calls -> deltas in the stash record its post hook wrote]
  kills,
  began,     \* history: writes when the call's pre hook loaded the manifest
  before,    \* history: contents when the command started
  after,     \* history: contents when the command ended
  disturbed  \* history: what went on beside the call: another call, an ambient
             \* write, a kill of its own hook

vars == <<fs, writes, manifest, side, hook, records, kills, began, before, after,
          disturbed>>
history == <<began, before, after, disturbed>>

Sides == {"idle", "pre", "running", "post", "done"}
Disturbances == {"call", "write", "kill"}
Phases == {"load", "scan", "read", "stash", "drain"}
Contents == Bytes \cup {Gone}
File == [bytes : Contents, stamp : Nat]
Ref == Bytes \cup {NoRef}
Entry == [stamp : Nat, ref : Ref, size : Nat]
MapTo(f, S) == DOMAIN f \subseteq Paths /\ f \in [DOMAIN f -> S]
Delta == [path : Paths, op : {"create", "modify", "delete"}, before : Ref, after : Ref,
          partial : BOOLEAN, stamp : Nat]

NoFiles == [p \in {} |-> NoRef]
IdleHook == [at |-> "load", priming |-> FALSE, files |-> NoFiles, drift |-> NoFiles,
             touched |-> 0, found |-> {}]
InHook(c) == side[c] \in {"pre", "post"}
Active == {c \in Calls : side[c] \in {"pre", "running", "post"}}
ContentsNow == [p \in Paths |-> fs[p].bytes]

Put(f, p, e) == [q \in DOMAIN f \cup {p} |-> IF q = p THEN e ELSE f[q]]
Without(f, P) == [q \in DOMAIN f \ P |-> f[q]]

-----------------------------------------------------------------------------
(* What a hook computes.                                                   *)

(* Mutant of Drift: vanished files are not looked for.                      *)
DriftOfPresent(files) ==
  [p \in {q \in Paths : /\ fs[q].bytes # Gone
                        /\ q \in DOMAIN files => fs[q].stamp # files[q].stamp} |-> fs[p]]

(* The files whose stat differs from their entry, and the entries whose file *)
(* is gone: path -> what the walk saw.  Only Goneness, stamp and size of what *)
(* the walk saw are used.                                                   *)
Drift(files) ==
  [p \in {q \in Paths : \/ fs[q].bytes # Gone /\ q \notin DOMAIN files
                        \/ /\ q \in DOMAIN files
                           /\ fs[q].bytes = Gone \/ fs[q].stamp # files[q].stamp}
     |-> fs[p]]

(* Mutant of ReadEntry: the stat is taken after the read.                    *)
ReadThenStat(seen, now) ==
  [stamp |-> now.stamp, size |-> Size[seen.bytes],
   ref |-> IF Size[seen.bytes] > MaxFileBytes THEN NoRef ELSE seen.bytes]

(* readEntry: the stat is the walk's, the bytes are what the file holds when *)
(* it is read; a file that vanished in between, and an oversize one, has no  *)
(* ref.                                                                      *)
ReadEntry(seen, now) ==
  [stamp |-> seen.stamp, size |-> Size[seen.bytes],
   ref |-> IF Size[seen.bytes] > MaxFileBytes \/ now.bytes = Gone THEN NoRef ELSE now.bytes]

(* Mutant of Touch: oversize files are never recognised as touched.         *)
TouchByRef(old, new) == old.ref = new.ref /\ old.ref # NoRef

(* A touch: the same blob, or no blob on either side and the same size.     *)
Touch(old, new) == old.ref = new.ref /\ (old.ref # NoRef \/ old.size = new.size)

(* The delta capturePost pushes for a path whose entry becomes `entry`.     *)
DeltasOf(files, p, entry) ==
  IF p \notin DOMAIN files
  THEN {[path |-> p, op |-> "create", before |-> NoRef, after |-> entry.ref,
         partial |-> entry.ref = NoRef, stamp |-> entry.stamp]}
  ELSE IF Touch(files[p], entry) THEN {}
  ELSE {[path |-> p, op |-> "modify", before |-> files[p].ref, after |-> entry.ref,
         partial |-> entry.ref = NoRef \/ files[p].ref = NoRef, stamp |-> entry.stamp]}

DeletesOf(files, drift) ==
  {[path |-> p, op |-> "delete", before |-> files[p].ref, after |-> NoRef,
    partial |-> files[p].ref = NoRef, stamp |-> drift[p].stamp] : p \in DOMAIN drift}

-----------------------------------------------------------------------------
Init ==
  /\ fs \in [Paths -> {[bytes |-> b, stamp |-> 0] : b \in Contents}]
  /\ writes = 0
  /\ manifest = [saved |-> FALSE, files |-> NoFiles]
  /\ side = [c \in Calls |-> "idle"]
  /\ hook = [c \in Calls |-> IdleHook]
  /\ records = [c \in Calls |-> {}]
  /\ kills = 0
  /\ began = [c \in Calls |-> 0]
  /\ before = [c \in Calls |-> ContentsNow]
  /\ after = [c \in Calls |-> ContentsNow]
  /\ disturbed = [c \in Calls |-> {}]

(* Claude Code starts a Bash call: the PreToolUse hook runs first.          *)
StartCall(c) ==
  /\ side[c] = "idle" /\ Cardinality(Active) < MaxParallel
  /\ side' = [side EXCEPT ![c] = "pre"]
  /\ disturbed' = [d \in Calls |-> disturbed[d] \cup
                     {"call" : e \in IF d \in Active \cup {c} THEN Active ELSE {}}]
  /\ UNCHANGED <<fs, writes, manifest, hook, records, kills, began, before, after>>

(* loadManifest: absent means this hook primes.                             *)
LoadManifest(c) ==
  /\ InHook(c) /\ hook[c].at = "load"
  /\ hook' = [hook EXCEPT ![c].at = "scan", ![c].priming = ~manifest.saved,
                          ![c].files = manifest.files]
  /\ began' = IF side[c] = "pre" THEN [began EXCEPT ![c] = writes] ELSE began
  /\ UNCHANGED <<fs, writes, manifest, side, records, kills, before, after, disturbed>>

(* scanStats, compared with the loaded entries.                             *)
ScanStats(c) ==
  /\ InHook(c) /\ hook[c].at = "scan"
  /\ hook' = [hook EXCEPT ![c].at = "read", ![c].drift = Drift(hook[c].files)]
  /\ UNCHANGED <<fs, writes, manifest, side, records, kills, history>>

(* One file of the walk is read into the in-memory manifest.  Only a post    *)
(* that found a manifest observes deltas; every other pass saves its         *)
(* progress each CheckpointEvery files.                                      *)
ReadFile(c, p) ==
  LET h == hook[c]
      entry == ReadEntry(h.drift[p], fs[p])
      files == Put(h.files, p, entry)
      observing == side[c] = "post" /\ ~h.priming
  IN /\ InHook(c) /\ h.at = "read"
     /\ p \in DOMAIN h.drift /\ h.drift[p].bytes # Gone
     /\ hook' = [hook EXCEPT ![c] =
          [h EXCEPT !.files = files, !.drift = Without(h.drift, {p}), !.touched = h.touched + 1,
                    !.found = h.found \cup (IF observing THEN DeltasOf(h.files, p, entry) ELSE {})]]
     /\ manifest' = IF ~observing /\ (h.touched + 1) % CheckpointEvery = 0
                    THEN [saved |-> TRUE, files |-> files] ELSE manifest
     /\ UNCHANGED <<fs, writes, side, records, kills, history>>

(* Mutant of SaveManifest: a post hook leaves the manifest as it was.       *)
SaveManifestInPre(c) ==
  LET h == hook[c]
      files == Without(h.files, DOMAIN h.drift)
      observing == side[c] = "post" /\ ~h.priming
      found == h.found \cup (IF observing THEN DeletesOf(h.files, h.drift) ELSE {})
  IN /\ InHook(c) /\ h.at = "read"
     /\ \A p \in DOMAIN h.drift : h.drift[p].bytes = Gone
     /\ manifest' = IF side[c] = "pre" THEN [saved |-> TRUE, files |-> files] ELSE manifest
     /\ hook' = [hook EXCEPT ![c] = [h EXCEPT !.files = files, !.drift = NoFiles, !.found = found,
                                              !.at = IF found = {} THEN "drain" ELSE "stash"]]
     /\ UNCHANGED <<fs, writes, side, records, kills, history>>

(* The walk is over: entries of vanished files go, and the manifest is       *)
(* rewritten unless nothing changed since it was loaded.                     *)
SaveManifest(c) ==
  LET h == hook[c]
      files == Without(h.files, DOMAIN h.drift)
      observing == side[c] = "post" /\ ~h.priming
      found == h.found \cup (IF observing THEN DeletesOf(h.files, h.drift) ELSE {})
  IN /\ InHook(c) /\ h.at = "read"
     /\ \A p \in DOMAIN h.drift : h.drift[p].bytes = Gone
     /\ manifest' = IF h.priming \/ h.touched > 0 \/ DOMAIN h.drift # {}
                    THEN [saved |-> TRUE, files |-> files] ELSE manifest
     /\ hook' = [hook EXCEPT ![c] = [h EXCEPT !.files = files, !.drift = NoFiles, !.found = found,
                                              !.at = IF found = {} THEN "drain" ELSE "stash"]]
     /\ UNCHANGED <<fs, writes, side, records, kills, history>>

(* writeStashRecord.                                                        *)
StashRecord(c) ==
  /\ InHook(c) /\ hook[c].at = "stash"
  /\ records' = [records EXCEPT ![c] = hook[c].found]
  /\ hook' = [hook EXCEPT ![c].at = "drain"]
  /\ UNCHANGED <<fs, writes, manifest, side, kills, history>>

(* The hook process is gone: the command runs, or the call is over.         *)
LeaveHook(c) ==
  /\ side' = [side EXCEPT ![c] = IF @ = "pre" THEN "running" ELSE "done"]
  /\ hook' = [hook EXCEPT ![c] = IdleHook]
  /\ before' = IF side[c] = "pre" THEN [before EXCEPT ![c] = ContentsNow] ELSE before

(* drainStash returns and the hook with it.                                 *)
EndHook(c) ==
  /\ InHook(c) /\ hook[c].at = "drain"
  /\ LeaveHook(c)
  /\ UNCHANGED <<fs, writes, manifest, records, kills, began, after, disturbed>>

(* Claude Code kills the hook at its timeout.                               *)
KillHook(c) ==
  /\ InHook(c) /\ kills < MaxKills
  /\ kills' = kills + 1
  /\ LeaveHook(c)
  /\ disturbed' = [disturbed EXCEPT ![c] = @ \cup {"kill"}]
  /\ UNCHANGED <<fs, writes, manifest, records, began, after>>

WriteFile(p, b) ==
  /\ writes < MaxWrites
  /\ b = Gone => fs[p].bytes # Gone
  /\ writes' = writes + 1
  /\ fs' = [fs EXCEPT ![p] = [bytes |-> b, stamp |-> writes + 1]]

(* The Bash command writes.                                                 *)
CommandWrites(c, p, b) ==
  /\ side[c] = "running"
  /\ WriteFile(p, b)
  /\ UNCHANGED <<manifest, side, hook, records, kills, history>>

(* The user, or the agent's own Edit tool, writes.                          *)
AmbientWrite(p, b) ==
  /\ WriteFile(p, b)
  /\ disturbed' = [c \in Calls |-> disturbed[c] \cup (IF c \in Active THEN {"write"} ELSE {})]
  /\ UNCHANGED <<manifest, side, hook, records, kills, began, before, after>>

(* The command ends and the PostToolUse hook starts.                        *)
EndCommand(c) ==
  /\ side[c] = "running"
  /\ side' = [side EXCEPT ![c] = "post"]
  /\ after' = [after EXCEPT ![c] = ContentsNow]
  /\ UNCHANGED <<fs, writes, manifest, hook, records, kills, began, before, disturbed>>

Hook(c) ==
  \/ LoadManifest(c) \/ ScanStats(c) \/ (\E p \in Paths : ReadFile(c, p))
  \/ SaveManifest(c) \/ StashRecord(c) \/ EndHook(c)

Next ==
  \/ \E c \in Calls : Hook(c) \/ StartCall(c) \/ KillHook(c) \/ EndCommand(c)
  \/ \E c \in Calls, p \in Paths, b \in Contents : CommandWrites(c, p, b)
  \/ \E p \in Paths, b \in Contents : AmbientWrite(p, b)

Spec == Init /\ [][Next]_vars

-----------------------------------------------------------------------------
HookOK(h) ==
  /\ DOMAIN h = {"at", "priming", "files", "drift", "touched", "found"}
  /\ h.at \in Phases /\ h.priming \in BOOLEAN
  /\ MapTo(h.files, Entry) /\ MapTo(h.drift, File)
  /\ h.touched \in Nat /\ h.found \in SUBSET Delta
  /\ h.at = "read" => \A p \in DOMAIN h.drift : h.drift[p].bytes = Gone => p \in DOMAIN h.files

(* The state stays within its types, the stamps are those of writes, and a   *)
(* walk reports a vanished file only of an entry.                            *)
TypeOK ==
  /\ fs \in [Paths -> File] /\ \A p \in Paths : fs[p].stamp <= writes
  /\ writes \in 0..MaxWrites /\ kills \in 0..MaxKills
  /\ DOMAIN manifest = {"saved", "files"}
  /\ manifest.saved \in BOOLEAN /\ MapTo(manifest.files, Entry)
  /\ side \in [Calls -> Sides]
  /\ DOMAIN hook = Calls /\ \A c \in Calls : HookOK(hook[c])
  /\ records \in [Calls -> SUBSET Delta]
  /\ began \in [Calls -> Nat] /\ disturbed \in [Calls -> SUBSET Disturbances]
  /\ before \in [Calls -> [Paths -> Contents]] /\ after \in [Calls -> [Paths -> Contents]]

(* The stat-only skip of both scans is sound: an entry whose stamp is the    *)
(* file's current one holds the file's current blob, however hooks overlap,  *)
(* race with writers and die, because readEntry keeps the earlier stat and   *)
(* the later bytes.                                                          *)
NoStaleBaseline ==
  \A p \in DOMAIN manifest.files :
    (manifest.files[p].stamp = fs[p].stamp /\ fs[p].bytes # Gone)
      => manifest.files[p].ref =
           IF Size[fs[p].bytes] > MaxFileBytes THEN NoRef ELSE fs[p].bytes

(* The reference: what a command that found the tree as `old` and left it as *)
(* `new` should be charged with.  A replacement of an oversize file by one of *)
(* the same size cannot be told from a touch.                                *)
RefOf(b) == IF b = Gone THEN NoRef ELSE IF Size[b] > MaxFileBytes THEN NoRef ELSE b
Indistinct(b, d) ==
  b = d \/ (b \in Bytes /\ d \in Bytes /\ RefOf(b) = NoRef /\ RefOf(d) = NoRef /\ Size[b] = Size[d])
OpOf(b, d) == IF b = Gone THEN "create" ELSE IF d = Gone THEN "delete" ELSE "modify"
NetChange(old, new) ==
  {<<p, OpOf(old[p], new[p]), RefOf(old[p]), RefOf(new[p])>> :
     p \in {q \in Paths : ~Indistinct(old[q], new[q])}}

(* "ephemeral and exact": a call whose own hooks were not killed, and during *)
(* which nobody else wrote or called, is charged with exactly the net change *)
(* of its command: each path once, the right op, both blobs.  What happened  *)
(* to earlier calls, kills in their hooks included, makes no difference.     *)
ExactWhenQuiet ==
  \A c \in Calls : (side[c] = "done" /\ disturbed[c] = {}) =>
    {<<d.path, d.op, d.before, d.after>> : d \in records[c]} = NetChange(before[c], after[c])

(* "None vanish, none duplicate": one write is charged to one call, unless   *)
(* that call ran beside another.  A call that did not can still repeat an    *)
(* earlier one's charge, if its pre hook was killed and the earlier call was *)
(* not alone: a third hook's stale manifest may have gone over the earlier's. *)
BlamedOnce ==
  \A c, d \in Calls : \A x \in records[c], y \in records[d] :
    (x.path = y.path /\ x.stamp = y.stamp)
      => \/ c = d \/ "call" \in disturbed[c]
         \/ "kill" \in disturbed[c] /\ "call" \in disturbed[d]

(* "`pre` silently folds in anything that changed since the last capture ... *)
(* so those are never blamed on the upcoming Bash step": a call whose hooks   *)
(* ran to their end, alone, is charged with no write from before its pre     *)
(* hook read the manifest.                                                  *)
NoPriorBlame ==
  \A c \in Calls : disturbed[c] \subseteq {"write"} =>
    \A d \in records[c] : d.stamp > began[c]
=============================================================================
