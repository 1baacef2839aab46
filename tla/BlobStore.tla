------------------------------ MODULE BlobStore ------------------------------
(***************************************************************************)
(* The blob store (packages/collector/src/blobs.ts): contents in files     *)
(* that are named by their hash.  Every process that records anything puts *)
(* blobs, several puts of one content may be under way at once, and a file *)
(* that is there is taken for stored.  Text is redacted before it is       *)
(* hashed; a content is a model value and its own name, since no two have  *)
(* one hash.  A file is what has been written to it, piece by piece.       *)
(***************************************************************************)
EXTENDS Integers, FiniteSets

CONSTANTS
  Contents,        \* what callers put, and what redaction makes of it
  TextContents,    \* the Contents that isProbablyText takes for text
  Redacted,        \* [Contents -> what redactBuffer makes of a text]
  RulesHit,        \* [Contents -> the redaction rules that fire on it]
  RenderKeys,      \* keys of cached renders, names that are no hash of the content
  RenderOf,        \* [RenderKeys -> the render]
  Putters,         \* puts that may be under way at once
  BlPieces,        \* the pieces in which a file is written
  MaxPuts,         \* bound on the puts
  MaxAborts        \* bound on the puts that are killed or fail

ASSUME BlobConstants ==
  /\ BlPieces \in Nat \ {0}
  /\ Redacted \in [Contents -> Contents]
  /\ Contents \intersect RenderKeys = {}

VARIABLES
  blFile,          \* [BlobNames -> what the file of that name holds]
  blPut,           \* [Putters -> the put]
  blLog,           \* the redaction_log rows, as pairs of name and rule
  blPast           \* the puts begun so far, what they returned, where one aborted

blobVars == <<blFile, blPut, blLog, blPast>>

BlobNames == Contents \union RenderKeys
NoFile == {<<0, "absent">>}
NoPut == [pc |-> "idle", name |-> "none", bytes |-> "none", piece |-> 0, rules |-> {}]

-----------------------------------------------------------------------------
Skipped(content, skipRedact) == skipRedact \/ content \notin TextContents
Scrubbed(content, skipRedact) ==
  IF Skipped(content, skipRedact) THEN content ELSE Redacted[content]
Redactions(content, skipRedact) ==
  IF Skipped(content, skipRedact) THEN {} ELSE RulesHit[content]

\* Mutant of BlobName: the name is taken before the redaction.
BlobNameOfRaw(content, skipRedact) == content

\* sha256 and blobPath
BlobName(content, skipRedact) == Scrubbed(content, skipRedact)

BytesOf(name) == IF name \in RenderKeys THEN RenderOf[name] ELSE name
WholeFile(name) == {<<i, BytesOf(name)>> : i \in 1..BlPieces}

-----------------------------------------------------------------------------
BlobInit ==
  /\ blFile = [name \in BlobNames |-> NoFile]
  /\ blPut = [p \in Putters |-> NoPut]
  /\ blLog = {}
  /\ blPast = [begun |-> 0, puts |-> {}, returned |-> {}, aborted |-> {}]

Begin(p, name, bytes, rules) ==
  /\ blPut[p].pc = "idle" /\ blPast.begun < MaxPuts
  /\ blPut' = [blPut EXCEPT ![p] =
       [pc |-> "stat", name |-> name, bytes |-> bytes, piece |-> 0, rules |-> rules]]
  /\ UNCHANGED <<blFile, blLog>>

PutBuffer(p, content, skipRedact) ==
  /\ Begin(p, BlobName(content, skipRedact), Scrubbed(content, skipRedact),
           Redactions(content, skipRedact))
  /\ blPast' = [blPast EXCEPT !.begun = @ + 1, !.puts = @ \union {<<content, skipRedact>>}]

\* A cached render: no redaction, and so no rows.
PutWithKey(p, key) ==
  /\ Begin(p, key, RenderOf[key], {})
  /\ blPast' = [blPast EXCEPT !.begun = @ + 1]

\* The put resolves with the name.
Returns(p) ==
  /\ blPut' = [blPut EXCEPT ![p] = NoPut]
  /\ blPast' = [blPast EXCEPT !.returned = @ \union {blPut[p].name}]

\* await stat(path): a file that is there ends the put.
StatBlob(p) ==
  /\ blPut[p].pc = "stat"
  /\ \/ blFile[blPut[p].name] # NoFile /\ Returns(p)
     \/ blFile[blPut[p].name] = NoFile /\ blPut' = [blPut EXCEPT ![p].pc = "open"] /\ UNCHANGED blPast
  /\ UNCHANGED <<blFile, blLog>>

\* writeFile opens the file, creating or emptying it ...
OpenBlob(p) ==
  /\ blPut[p].pc = "open"
  /\ blFile' = [blFile EXCEPT ![blPut[p].name] = {}]
  /\ blPut' = [blPut EXCEPT ![p].pc = "write"]
  /\ UNCHANGED <<blLog, blPast>>

\* ... and writes the bytes at its own position.
WritePiece(p) ==
  LET next == blPut[p].piece + 1
      name == blPut[p].name
  IN  /\ blPut[p].pc = "write"
      /\ blFile' = [blFile EXCEPT ![name] = {b \in @ : b[1] # next} \union {<<next, blPut[p].bytes>>}]
      /\ blPut' = [blPut EXCEPT ![p].piece = next, ![p].pc = IF next = BlPieces THEN "log" ELSE "write"]
      /\ UNCHANGED <<blLog, blPast>>

\* A row for each rule that fired; each INSERT is a transaction of its own.
LogRedaction(p) ==
  /\ blPut[p].pc = "log"
  /\ \/ \E rule \in blPut[p].rules :
          /\ blLog' = blLog \union {<<blPut[p].name, rule>>}
          /\ blPut' = [blPut EXCEPT ![p].rules = @ \ {rule}]
          /\ UNCHANGED blPast
     \/ blPut[p].rules = {} /\ Returns(p) /\ UNCHANGED blLog
  /\ UNCHANGED blFile

\* The process is killed, the disk is full, the database is locked.
AbortPut(p) ==
  /\ blPut[p].pc # "idle" /\ Cardinality(blPast.aborted) < MaxAborts
  /\ blPut' = [blPut EXCEPT ![p] = NoPut]
  /\ blPast' = [blPast EXCEPT !.aborted = @ \union {blPut[p].name}]
  /\ UNCHANGED <<blFile, blLog>>

BlobNext ==
  \E p \in Putters :
    \/ \E content \in Contents, skipRedact \in BOOLEAN : PutBuffer(p, content, skipRedact)
    \/ \E key \in RenderKeys : PutWithKey(p, key)
    \/ StatBlob(p) \/ OpenBlob(p) \/ WritePiece(p) \/ LogRedaction(p) \/ AbortPut(p)

BlobSpec == BlobInit /\ [][BlobNext]_blobVars

-----------------------------------------------------------------------------
AtWorkOn(name) == \E p \in Putters : blPut[p].pc # "idle" /\ blPut[p].name = name
Undisturbed(name) == name \notin blPast.aborted /\ ~AtWorkOn(name)

\* A name that a put returned stands for a file with the bytes it is the hash of,
\* whatever puts of the same content raced, unless one of them is still at work or
\* was cut off (blobs.ts:99-118).
BlobsAreWhole ==
  \A name \in blPast.returned : Undisturbed(name) => blFile[name] = WholeFile(name)

Makers(name) == {put \in blPast.puts : Scrubbed(put[1], put[2]) = name}
OnlyRedacted(name) == \A put \in Makers(name) : Redactions(put[1], put[2]) # {}
Logged(name) == \E rule \in UNION {RulesHit[c] : c \in Contents} : <<name, rule>> \in blLog

\* A blob that only redacted puts made has a redaction_log row: the put that wrote
\* the file logs, those that found it need not (blobs.ts:102-117).
ScrubsAreLogged ==
  \A name \in blPast.returned \ RenderKeys :
    Undisturbed(name) /\ OnlyRedacted(name) => Logged(name)

\* Puts that race leave what their callers and the audit rely on (putBuffer).
BlobsHold == BlobsAreWhole /\ ScrubsAreLogged
=============================================================================
