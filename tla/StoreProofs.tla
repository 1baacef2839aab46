----------------------------- MODULE StoreProofs -----------------------------
(***************************************************************************)
(* Proofs about the stores.  BlobStore: for any contents, redaction rules    *)
(* and keys, any number of puts at once, and any that are cut off.           *)
(* StoreSchema: for any databases that a build may have left and any         *)
(* processes, in TypeScript and Python, that open the store at once and are  *)
(* killed.  PostgresSync: for any window, any local changes and any number   *)
(* of syncs that are cut off anywhere.                                      *)
(***************************************************************************)
EXTENDS BlobStore, StoreSchema, PostgresSync, SequenceTheorems, TLAPS

(***************************************************************************)
(* What is in a file                                                       *)
(*                                                                         *)
(* A put at work has the bytes of its name, and nothing else is ever        *)
(* written; a file that a put has opened stays.                            *)
(***************************************************************************)
BlobPhases == {"idle", "stat", "open", "write", "log"}

PutOK(p) ==
  LET put == blPut[p]
  IN  /\ DOMAIN put = {"pc", "name", "bytes", "piece", "rules"}
      /\ put.pc \in BlobPhases
      /\ put.pc # "idle" => put.name \in BlobNames /\ put.bytes = BytesOf(put.name)
      /\ put.piece \in 0..BlPieces
      /\ put.pc = "write" => put.piece < BlPieces
      /\ put.pc \in {"stat", "open"} => put.piece = 0
      /\ put.pc \in {"write", "log"} => blFile[put.name] # NoFile

FileOK(name) == blFile[name] = NoFile \/ blFile[name] \subseteq WholeFile(name)

(* What a file lacks a put will write that has it still before it, unless a  *)
(* put of that name was cut off.                                           *)
Comes(name, i) ==
  \E p \in Putters : blPut[p].pc = "write" /\ blPut[p].name = name /\ blPut[p].piece < i

Filled(name) ==
  blFile[name] # NoFile =>
    \A i \in 1..BlPieces : <<i, BytesOf(name)>> \in blFile[name] \/ Comes(name, i)

(* What a put has returned was there.                                      *)
WholeInv ==
  /\ DOMAIN blPut = Putters /\ DOMAIN blFile = BlobNames
  /\ \A p \in Putters : PutOK(p)
  /\ blPast.returned \subseteq BlobNames
  /\ \A name \in BlobNames : FileOK(name)
  /\ \A name \in BlobNames \ blPast.aborted :
       Filled(name) /\ (name \in blPast.returned => blFile[name] # NoFile)

(* What redaction makes of a content is a content.                          *)
LEMMA ScrubbedIsContent ==
  ASSUME NEW content \in Contents, NEW skipRedact \in BOOLEAN
  PROVE  /\ Scrubbed(content, skipRedact) \in Contents
         /\ BytesOf(Scrubbed(content, skipRedact)) = Scrubbed(content, skipRedact)
BY BlobConstants DEF Scrubbed, BytesOf

(* Nothing that is written looks like no file.                              *)
LEMMA WrittenIsThere ==
  ASSUME NEW name, NEW file \in SUBSET WholeFile(name)
  PROVE  file # NoFile
<1>1. \A i \in 1..BlPieces : <<i, BytesOf(name)>> # <<0, "absent">>
  BY BlobConstants
<1>2. <<0, "absent">> \notin WholeFile(name)
  BY <1>1 DEF WholeFile
<1> QED
  BY <1>2 DEF NoFile

(* A put that goes on replaces its own state and no other's.                *)
LEMMA PutGoesOn ==
  ASSUME WholeInv, NEW p \in Putters, NEW put, blPut' = [blPut EXCEPT ![p] = put]
  PROVE  /\ DOMAIN blPut' = Putters /\ blPut'[p] = put
         /\ \A q \in Putters \ {p} : blPut'[q] = blPut[q]
BY DEF WholeInv

(* A put that is over.                                                      *)
LEMMA NoneOK ==
  ASSUME WholeInv, NEW p \in Putters, blPut' = [blPut EXCEPT ![p] = NoPut]
  PROVE  PutOK(p)'
<1>1. blPut'[p] = NoPut
  BY PutGoesOn
<1> QED
  BY <1>1, BlobConstants DEF PutOK, NoPut, BlobPhases

(* While the files stay, the other puts are as right as before.             *)
LEMMA OthersOK ==
  ASSUME NEW p, NEW q \in Putters \ {p}, PutOK(q), blPut'[q] = blPut[q],
         blFile[blPut[q].name] # NoFile => blFile'[blPut[q].name] # NoFile
  PROVE  PutOK(q)'
BY DEF PutOK

(* A put that is neither in its write nor enters it, while the files stay,  *)
(* leaves them as full as they were.                                       *)
LEMMA FilesStay ==
  ASSUME WholeInv, NEW p \in Putters, NEW put, blPut' = [blPut EXCEPT ![p] = put],
         blFile' = blFile, PutOK(p)',
         blPast.aborted \subseteq blPast'.aborted,
         blPut[p].pc = "write" => blPut[p].name \in blPast'.aborted,
         blPast'.returned \subseteq BlobNames,
         \A name \in blPast'.returned : name \in blPast.returned \/ blFile[name] # NoFile
  PROVE  WholeInv'
<1>1. /\ DOMAIN blPut' = Putters
      /\ \A q \in Putters \ {p} : blPut'[q] = blPut[q]
  BY PutGoesOn
<1>2. \A q \in Putters : PutOK(q)'
  BY <1>1, OthersOK DEF WholeInv
<1>3. \A name \in BlobNames : FileOK(name)'
  BY DEF WholeInv, FileOK
<1>4. ASSUME NEW name \in BlobNames \ blPast'.aborted PROVE Filled(name)'
  <2>1. Filled(name) /\ name \notin blPast.aborted
    BY <1>4 DEF WholeInv
  <2>2. \A i \in 1..BlPieces : Comes(name, i) => Comes(name, i)'
    BY <1>1, <1>4 DEF Comes
  <2> QED
    BY <2>1, <2>2 DEF Filled
<1>5. \A name \in BlobNames \ blPast'.aborted : name \in blPast'.returned => blFile'[name] # NoFile
  BY DEF WholeInv
<1> QED
  BY <1>1, <1>2, <1>3, <1>4, <1>5 DEF WholeInv

LEMMA BeginKeeps ==
  ASSUME WholeInv, NEW p \in Putters, NEW name \in BlobNames, NEW rules,
         Begin(p, name, BytesOf(name), rules),
         blPast'.aborted = blPast.aborted, blPast'.returned = blPast.returned
  PROVE  WholeInv'
<1> DEFINE put == [pc |-> "stat", name |-> name, bytes |-> BytesOf(name), piece |-> 0, rules |-> rules]
<1>1. blPut' = [blPut EXCEPT ![p] = put] /\ blFile' = blFile /\ blPut[p].pc = "idle"
  BY DEF Begin
<1>2. blPut'[p] = put
  BY <1>1, PutGoesOn
<1>3. PutOK(p)'
  BY <1>2, BlobConstants DEF PutOK, BlobPhases
<1> HIDE DEF put
<1> QED
  BY <1>1, <1>3, FilesStay DEF WholeInv

LEMMA StatKeeps ==
  ASSUME WholeInv, NEW p \in Putters, StatBlob(p)
  PROVE  WholeInv'
<1>1. PutOK(p) /\ blPut[p].pc = "stat" /\ blFile' = blFile
  BY DEF WholeInv, StatBlob
<1>2. CASE blFile[blPut[p].name] # NoFile /\ Returns(p)
  <2>1. blPut' = [blPut EXCEPT ![p] = NoPut] /\ blPast'.aborted = blPast.aborted
        /\ blPast'.returned = blPast.returned \union {blPut[p].name}
    BY <1>2 DEF Returns
  <2>2. PutOK(p)'
    BY <2>1, NoneOK
  <2> QED
    BY <1>1, <1>2, <2>1, <2>2, FilesStay DEF WholeInv, PutOK
<1>3. CASE blPut' = [blPut EXCEPT ![p].pc = "open"] /\ UNCHANGED blPast
  <2>1. blPut' = [blPut EXCEPT ![p] = [blPut[p] EXCEPT !.pc = "open"]]
    BY <1>3
  <2>2. PutOK(p)'
    BY <1>1, <1>3, <2>1, PutGoesOn DEF PutOK, BlobPhases
  <2> QED
    BY <1>1, <1>3, <2>1, <2>2, FilesStay DEF WholeInv
<1> QED
  BY <1>2, <1>3 DEF StatBlob

(* Opening empties the file, and promises all of it.                        *)
LEMMA OpenKeeps ==
  ASSUME WholeInv, NEW p \in Putters, OpenBlob(p)
  PROVE  WholeInv'
<1> DEFINE opened == blPut[p].name
<1>1. PutOK(p) /\ blPut[p].pc = "open" /\ UNCHANGED blPast
  BY DEF WholeInv, OpenBlob
<1>2. opened \in BlobNames /\ blPut[p].piece = 0
  BY <1>1 DEF PutOK
<1>3. /\ DOMAIN blFile' = BlobNames /\ blFile'[opened] = {}
      /\ \A name \in BlobNames \ {opened} : blFile'[name] = blFile[name]
  BY <1>2 DEF WholeInv, OpenBlob
<1>4. {} # NoFile
  BY WrittenIsThere
<1>5. blPut' = [blPut EXCEPT ![p] = [blPut[p] EXCEPT !.pc = "write"]]
  BY DEF OpenBlob
<1>6. /\ DOMAIN blPut' = Putters
      /\ blPut'[p].pc = "write" /\ blPut'[p].name = opened /\ blPut'[p].piece = 0
      /\ blPut'[p].bytes = blPut[p].bytes /\ DOMAIN blPut'[p] = DOMAIN blPut[p]
      /\ \A q \in Putters \ {p} : blPut'[q] = blPut[q]
  <2> DEFINE put == [blPut[p] EXCEPT !.pc = "write"]
  <2>1. /\ put.pc = "write" /\ put.name = opened /\ put.piece = 0 /\ put.bytes = blPut[p].bytes
        /\ DOMAIN put = DOMAIN blPut[p]
    BY <1>1, <1>2 DEF PutOK
  <2>2. blPut' = [blPut EXCEPT ![p] = put]
    BY <1>5
  <2> HIDE DEF put
  <2> QED
    BY <2>1, <2>2, PutGoesOn
<1>7. PutOK(p)'
  BY <1>1, <1>2, <1>3, <1>4, <1>6, BlobConstants DEF PutOK, BlobPhases
<1>8. \A q \in Putters : PutOK(q)'
  BY <1>3, <1>4, <1>6, <1>7, OthersOK DEF WholeInv, PutOK
<1>9. \A name \in BlobNames : FileOK(name)'
  BY <1>3 DEF WholeInv, FileOK
<1>10. ASSUME NEW name \in BlobNames \ blPast'.aborted PROVE Filled(name)'
  <2>1. CASE name = opened
    BY <1>6, <2>1 DEF Filled, Comes
  <2>2. CASE name # opened
    <3>1. Filled(name) /\ blFile'[name] = blFile[name]
      BY <1>1, <1>3, <1>10, <2>2 DEF WholeInv
    <3>2. \A i \in 1..BlPieces : Comes(name, i) => Comes(name, i)'
      BY <1>1, <1>6 DEF Comes
    <3> QED
      BY <3>1, <3>2 DEF Filled
  <2> QED
    BY <2>1, <2>2
<1>11. \A name \in BlobNames \ blPast'.aborted : name \in blPast'.returned => blFile'[name] # NoFile
  BY <1>1, <1>3, <1>4 DEF WholeInv
<1> QED
  BY <1>1, <1>3, <1>6, <1>8, <1>9, <1>10, <1>11 DEF WholeInv

(* A piece is written; the next ones are still to come.                     *)
LEMMA WriteKeeps ==
  ASSUME WholeInv, NEW p \in Putters, WritePiece(p)
  PROVE  WholeInv'
<1> DEFINE written == blPut[p].name
           next == blPut[p].piece + 1
<1>1. PutOK(p) /\ blPut[p].pc = "write" /\ UNCHANGED blPast
  BY DEF WholeInv, WritePiece
<1>2. /\ written \in BlobNames /\ blPut[p].bytes = BytesOf(written)
      /\ next \in 1..BlPieces /\ blPut[p].piece \in 0..BlPieces
      /\ blFile[written] # NoFile
  BY <1>1, BlobConstants DEF PutOK
<1>3. /\ DOMAIN blFile' = BlobNames
      /\ blFile'[written] = {b \in blFile[written] : b[1] # next} \union {<<next, BytesOf(written)>>}
      /\ \A name \in BlobNames \ {written} : blFile'[name] = blFile[name]
  BY <1>2 DEF WholeInv, WritePiece
<1>4. blFile'[written] \subseteq WholeFile(written)
  <2>1. blFile[written] \subseteq WholeFile(written)
    BY <1>2 DEF WholeInv, FileOK
  <2> QED
    BY <1>2, <1>3, <2>1 DEF WholeFile
<1>5. blFile'[written] # NoFile
  BY <1>4, WrittenIsThere
<1>6. blPut' = [blPut EXCEPT ![p] = [blPut[p] EXCEPT !.piece = next,
                  !.pc = IF next = BlPieces THEN "log" ELSE "write"]]
  BY DEF WritePiece
<1>7. /\ DOMAIN blPut' = Putters
      /\ blPut'[p].pc = (IF next = BlPieces THEN "log" ELSE "write")
      /\ blPut'[p].name = written /\ blPut'[p].piece = next
      /\ blPut'[p].bytes = blPut[p].bytes
      /\ DOMAIN blPut'[p] = DOMAIN blPut[p]
      /\ \A q \in Putters \ {p} : blPut'[q] = blPut[q]
  <2> DEFINE put == [blPut[p] EXCEPT !.piece = next,
                       !.pc = IF next = BlPieces THEN "log" ELSE "write"]
  <2>1. /\ put.pc = (IF next = BlPieces THEN "log" ELSE "write") /\ put.piece = next
        /\ put.name = written /\ put.bytes = blPut[p].bytes /\ DOMAIN put = DOMAIN blPut[p]
    BY <1>1 DEF PutOK
  <2>2. blPut' = [blPut EXCEPT ![p] = put]
    BY <1>6
  <2> HIDE DEF put
  <2> QED
    BY <2>1, <2>2, PutGoesOn
<1>8. PutOK(p)'
  BY <1>1, <1>2, <1>5, <1>7, BlobConstants DEF PutOK, BlobPhases
<1>9. \A q \in Putters : PutOK(q)'
  BY <1>3, <1>5, <1>7, <1>8, OthersOK DEF WholeInv, PutOK
<1>10. \A name \in BlobNames : FileOK(name)'
  BY <1>3, <1>4 DEF WholeInv, FileOK
<1>11. ASSUME NEW name \in BlobNames \ blPast'.aborted PROVE Filled(name)'
  <2>1. Filled(name)
    BY <1>1, <1>11 DEF WholeInv
  <2>2. CASE name = written
    <3> SUFFICES ASSUME NEW i \in 1..BlPieces
                 PROVE  <<i, BytesOf(name)>> \in blFile'[name] \/ Comes(name, i)'
      BY DEF Filled
    <3>1. <<i, BytesOf(name)>> \in blFile[name] \/ Comes(name, i)
      BY <1>2, <2>1, <2>2 DEF Filled
    <3>2. CASE i = next
      BY <1>3, <2>2, <3>2
    <3>3. CASE i # next /\ <<i, BytesOf(name)>> \in blFile[name]
      BY <1>3, <2>2, <3>3
    <3>4. CASE i # next /\ Comes(name, i)
      <4>1. PICK q \in Putters : blPut[q].pc = "write" /\ blPut[q].name = name /\ blPut[q].piece < i
        BY <3>4 DEF Comes
      <4>2. CASE q # p
        BY <1>7, <4>1, <4>2 DEF Comes
      <4>3. CASE q = p
        <5>1. next < i /\ next # BlPieces
          BY <1>2, <3>4, <4>1, <4>3, BlobConstants
        <5> QED
          BY <1>7, <2>2, <5>1 DEF Comes
      <4> QED
        BY <4>2, <4>3
    <3> QED
      BY <3>1, <3>2, <3>3, <3>4
  <2>3. CASE name # written
    <3>1. blFile'[name] = blFile[name]
      BY <1>3, <1>11, <2>3
    <3>2. \A i \in 1..BlPieces : Comes(name, i) => Comes(name, i)'
      BY <1>7, <2>3 DEF Comes
    <3> QED
      BY <2>1, <3>1, <3>2 DEF Filled
  <2> QED
    BY <2>2, <2>3
<1>12. \A name \in BlobNames \ blPast'.aborted : name \in blPast'.returned => blFile'[name] # NoFile
  BY <1>1, <1>3, <1>5 DEF WholeInv
<1> QED
  BY <1>1, <1>3, <1>7, <1>9, <1>10, <1>11, <1>12 DEF WholeInv

LEMMA LogKeeps ==
  ASSUME WholeInv, NEW p \in Putters, LogRedaction(p)
  PROVE  WholeInv'
<1>1. PutOK(p) /\ blPut[p].pc = "log" /\ blFile' = blFile
  BY DEF WholeInv, LogRedaction
<1>2. CASE Returns(p)
  <2>1. blPut' = [blPut EXCEPT ![p] = NoPut] /\ blPast'.aborted = blPast.aborted
        /\ blPast'.returned = blPast.returned \union {blPut[p].name}
    BY <1>2 DEF Returns
  <2>2. PutOK(p)'
    BY <2>1, NoneOK
  <2> QED
    BY <1>1, <2>1, <2>2, FilesStay DEF WholeInv, PutOK
<1>3. ASSUME NEW rule, blPut' = [blPut EXCEPT ![p].rules = @ \ {rule}], UNCHANGED blPast
      PROVE  WholeInv'
  <2>1. blPut' = [blPut EXCEPT ![p] = [blPut[p] EXCEPT !.rules = @ \ {rule}]]
    BY <1>3
  <2>2. PutOK(p)'
    BY <1>1, <2>1, PutGoesOn DEF PutOK
  <2> QED
    BY <1>1, <1>3, <2>1, <2>2, FilesStay DEF WholeInv
<1> QED
  BY <1>2, <1>3 DEF LogRedaction

LEMMA AbortKeeps ==
  ASSUME WholeInv, NEW p \in Putters, AbortPut(p)
  PROVE  WholeInv'
<1>1. /\ blPut' = [blPut EXCEPT ![p] = NoPut] /\ blFile' = blFile
      /\ blPast'.returned = blPast.returned
      /\ blPast'.aborted = blPast.aborted \union {blPut[p].name}
  BY DEF AbortPut
<1>2. PutOK(p)'
  BY <1>1, NoneOK
<1> QED
  BY <1>1, <1>2, FilesStay DEF WholeInv

LEMMA WholeInvKept == WholeInv /\ [BlobNext]_blobVars => WholeInv'
<1> SUFFICES ASSUME WholeInv, [BlobNext]_blobVars PROVE WholeInv'
  OBVIOUS
<1>1. ASSUME NEW p \in Putters, NEW content \in Contents, NEW skipRedact \in BOOLEAN,
             PutBuffer(p, content, skipRedact)
      PROVE  WholeInv'
  <2> DEFINE name == Scrubbed(content, skipRedact)
  <2>1. name \in BlobNames /\ BytesOf(name) = name
    BY ScrubbedIsContent DEF BlobNames
  <2>2. Begin(p, name, name, Redactions(content, skipRedact))
        /\ blPast'.aborted = blPast.aborted /\ blPast'.returned = blPast.returned
    BY <1>1 DEF PutBuffer, BlobName
  <2> QED
    BY <2>1, <2>2, BeginKeeps
<1>2. ASSUME NEW p \in Putters, NEW key \in RenderKeys, PutWithKey(p, key) PROVE WholeInv'
  <2>1. Begin(p, key, BytesOf(key), {}) /\ key \in BlobNames
        /\ blPast'.aborted = blPast.aborted /\ blPast'.returned = blPast.returned
    BY <1>2 DEF PutWithKey, BytesOf, BlobNames
  <2> QED
    BY <2>1, BeginKeeps
<1>3. CASE UNCHANGED blobVars
  BY <1>3 DEF blobVars, WholeInv, PutOK, FileOK, Filled, Comes
<1> QED
  BY <1>1, <1>2, <1>3, StatKeeps, OpenKeeps, WriteKeeps, LogKeeps, AbortKeeps DEF BlobNext

LEMMA WholeInvGives == WholeInv => BlobsAreWhole
<1> SUFFICES ASSUME WholeInv, NEW name \in blPast.returned, Undisturbed(name)
             PROVE  blFile[name] = WholeFile(name)
  BY DEF BlobsAreWhole
<1>1. /\ name \in BlobNames \ blPast.aborted
      /\ blFile[name] # NoFile /\ FileOK(name) /\ Filled(name)
  BY DEF WholeInv, Undisturbed
<1>2. \A i \in 1..BlPieces : ~ Comes(name, i)
  BY DEF Undisturbed, AtWorkOn, Comes
<1> QED
  BY <1>1, <1>2 DEF FileOK, Filled, WholeFile

(***************************************************************************)
(* What is in the log                                                      *)
(*                                                                         *)
(* A put that has not logged yet has the rules that fired on what it was    *)
(* given, and a file that only redacted puts made was logged, or the put    *)
(* that wrote it has a rule left to log.                                   *)
(***************************************************************************)
Begun(p) == blPut[p].pc \in {"stat", "open", "write"}

Given(p) ==
  Begun(p) /\ blPut[p].name \notin RenderKeys =>
    \E put \in Makers(blPut[p].name) : blPut[p].rules = Redactions(put[1], put[2])

Fired == UNION {RulesHit[c] : c \in Contents}

Logs(name) ==
  \E p \in Putters :
    blPut[p].pc \in {"write", "log"} /\ blPut[p].name = name /\ blPut[p].rules # {}

LoggedInv ==
  /\ blPast.puts \subseteq Contents \X BOOLEAN
  /\ \A p \in Putters : Given(p) /\ blPut[p].rules \subseteq Fired
  /\ \A name \in Contents \ blPast.aborted :
       OnlyRedacted(name) /\ blFile[name] # NoFile => Logged(name) \/ Logs(name)

(* What was put and logged stays so, and so does what is left to log, but    *)
(* for what the step itself ends.                                          *)
LEMMA LogsKept ==
  ASSUME WholeInv, NEW p \in Putters, NEW put, blPut' = [blPut EXCEPT ![p] = put],
         NEW name, Logs(name),
         \/ blPut[p].pc \notin {"write", "log"} \/ blPut[p].name # name \/ blPut[p].rules = {}
         \/ /\ put.pc \in {"write", "log"} /\ put.name = blPut[p].name
            /\ put.rules = blPut[p].rules
  PROVE  Logs(name)'
<1>1. /\ blPut'[p] = put
      /\ \A q \in Putters \ {p} : blPut'[q] = blPut[q]
  BY PutGoesOn
<1>2. PICK q \in Putters :
        blPut[q].pc \in {"write", "log"} /\ blPut[q].name = name /\ blPut[q].rules # {}
  BY DEF Logs
<1>3. CASE q = p
  BY <1>1, <1>2, <1>3 DEF Logs
<1>4. CASE q # p
  BY <1>1, <1>2, <1>4 DEF Logs
<1> QED
  BY <1>3, <1>4

LEMMA MakersStay ==
  ASSUME blPast.puts \subseteq blPast'.puts, NEW name
  PROVE  /\ Makers(name) \subseteq Makers(name)'
         /\ OnlyRedacted(name)' => OnlyRedacted(name)
BY DEF Makers, OnlyRedacted

LEMMA OthersGiven ==
  ASSUME blPast.puts \subseteq blPast'.puts, NEW q \in Putters, Given(q), blPut'[q] = blPut[q]
  PROVE  Given(q)'
<1>1. Makers(blPut[q].name) \subseteq Makers(blPut[q].name)'
  BY MakersStay
<1> QED
  BY <1>1 DEF Given, Begun, Makers

(* A step that opens and logs nothing, and ends no put with rules to log.    *)
LEMMA LogStays ==
  ASSUME WholeInv, LoggedInv, NEW p \in Putters, NEW put, blPut' = [blPut EXCEPT ![p] = put],
         blPast.puts \subseteq blPast'.puts, blPast'.puts \subseteq Contents \X BOOLEAN,
         blPast.aborted \subseteq blPast'.aborted,
         blLog' = blLog, Given(p)', put.rules \subseteq Fired,
         \A name \in Contents : blFile'[name] # NoFile => blFile[name] # NoFile,
         \A name \in Contents \ blPast'.aborted :
           \/ blPut[p].pc \notin {"write", "log"} \/ blPut[p].name # name \/ blPut[p].rules = {}
           \/ /\ put.pc \in {"write", "log"} /\ put.name = blPut[p].name
              /\ put.rules = blPut[p].rules
  PROVE  LoggedInv'
<1>1. /\ blPut'[p] = put
      /\ \A q \in Putters \ {p} : blPut'[q] = blPut[q]
  BY PutGoesOn
<1>2. \A q \in Putters : Given(q)'
  BY <1>1, OthersGiven DEF LoggedInv
<1>3. \A q \in Putters : blPut'[q].rules \subseteq Fired
  BY <1>1 DEF LoggedInv
<1>4. ASSUME NEW name \in Contents \ blPast'.aborted, OnlyRedacted(name)', blFile'[name] # NoFile
      PROVE  Logged(name)' \/ Logs(name)'
  <2>1. Logged(name) \/ Logs(name)
    BY <1>4, MakersStay DEF LoggedInv
  <2>2. Logged(name) => Logged(name)'
    BY DEF Logged
  <2>3. Logs(name) => Logs(name)'
    BY <1>4, LogsKept
  <2> QED
    BY <2>1, <2>2, <2>3
<1> QED
  BY <1>2, <1>3, <1>4 DEF LoggedInv, Fired

LEMMA BeginLogs ==
  ASSUME WholeInv, LoggedInv, NEW p \in Putters, NEW name, NEW bytes, NEW rules \in SUBSET Fired,
         Begin(p, name, bytes, rules),
         blPast.puts \subseteq blPast'.puts, blPast'.puts \subseteq Contents \X BOOLEAN,
         blPast'.aborted = blPast.aborted,
         \/ name \in RenderKeys
         \/ \E put \in Makers(name)' : rules = Redactions(put[1], put[2])
  PROVE  LoggedInv'
<1> DEFINE begun == [pc |-> "stat", name |-> name, bytes |-> bytes, piece |-> 0, rules |-> rules]
<1>1. /\ blPut' = [blPut EXCEPT ![p] = begun] /\ blPut[p].pc = "idle"
      /\ blFile' = blFile /\ blLog' = blLog
  BY DEF Begin
<1>2. begun.name = name /\ begun.rules = rules
  OBVIOUS
<1> HIDE DEF begun
<1>3. blPut'[p] = begun
  BY <1>1, PutGoesOn
<1>4. Given(p)'
  BY <1>2, <1>3 DEF Given, Makers
<1> QED
  BY <1>1, <1>2, <1>4, LogStays

(* The put that opens a file has rules to log, if the makers of it all had.  *)
LEMMA OpenLogs ==
  ASSUME WholeInv, LoggedInv, NEW p \in Putters, OpenBlob(p)
  PROVE  LoggedInv'
<1> DEFINE opened == blPut[p].name
           put == [blPut[p] EXCEPT !.pc = "write"]
<1>1. /\ blPut' = [blPut EXCEPT ![p] = put] /\ blPut[p].pc = "open"
      /\ blFile' = [blFile EXCEPT ![opened] = {}]
      /\ UNCHANGED <<blLog, blPast>>
  BY DEF OpenBlob
<1>2. put.pc = "write" /\ put.name = opened /\ put.rules = blPut[p].rules
  BY DEF WholeInv, PutOK
<1> HIDE DEF put
<1>3. /\ blPut'[p] = put
      /\ \A q \in Putters \ {p} : blPut'[q] = blPut[q]
  BY <1>1, PutGoesOn
<1>4. Given(p)'
  BY <1>1, <1>2, <1>3 DEF LoggedInv, Given, Begun, Makers
<1>5. \A q \in Putters : Given(q)'
  BY <1>1, <1>3, <1>4, OthersGiven DEF LoggedInv
<1>6. \A q \in Putters : blPut'[q].rules \subseteq Fired
  BY <1>2, <1>3 DEF LoggedInv
<1>7. ASSUME NEW name \in Contents \ blPast'.aborted, OnlyRedacted(name)', blFile'[name] # NoFile
      PROVE  Logged(name)' \/ Logs(name)'
  <2>1. OnlyRedacted(name)
    BY <1>1, <1>7 DEF OnlyRedacted, Makers
  <2>2. CASE name = opened
    <3>1. name \notin RenderKeys
      BY BlobConstants
    <3>2. PICK maker \in Makers(name) : blPut[p].rules = Redactions(maker[1], maker[2])
      BY <1>1, <2>2, <3>1 DEF LoggedInv, Given, Begun
    <3>3. blPut[p].rules # {}
      BY <2>1, <3>2 DEF OnlyRedacted
    <3> QED
      BY <1>2, <1>3, <2>2, <3>3 DEF Logs
  <2>3. CASE name # opened
    <3>1. blFile[name] # NoFile
      BY <1>1, <1>7, <2>3 DEF WholeInv, BlobNames
    <3>2. Logged(name) \/ Logs(name)
      BY <1>1, <1>7, <2>1, <3>1 DEF LoggedInv
    <3>3. Logs(name) => Logs(name)'
      BY <1>1, LogsKept
    <3> QED
      BY <1>1, <3>2, <3>3 DEF Logged
  <2> QED
    BY <2>2, <2>3
<1> QED
  BY <1>1, <1>5, <1>6, <1>7 DEF LoggedInv, Fired

LEMMA WriteLogs ==
  ASSUME WholeInv, LoggedInv, NEW p \in Putters, WritePiece(p)
  PROVE  LoggedInv'
<1> DEFINE next == blPut[p].piece + 1
           put == [blPut[p] EXCEPT !.piece = next,
                     !.pc = IF next = BlPieces THEN "log" ELSE "write"]
<1>1. /\ blPut' = [blPut EXCEPT ![p] = put] /\ blPut[p].pc = "write"
      /\ UNCHANGED <<blLog, blPast>>
  BY DEF WritePiece
<1>2. /\ put.pc \in {"write", "log"} /\ put.name = blPut[p].name /\ put.rules = blPut[p].rules
  BY DEF WholeInv, PutOK
<1>3. \A name \in Contents : blFile'[name] # NoFile => blFile[name] # NoFile
  <2>1. blFile[blPut[p].name] # NoFile
    BY <1>1 DEF WholeInv, PutOK
  <2>2. \A name \in BlobNames \ {blPut[p].name} : blFile'[name] = blFile[name]
    BY DEF WholeInv, WritePiece
  <2> QED
    BY <2>1, <2>2 DEF BlobNames
<1> HIDE DEF put
<1>4. blPut'[p] = put
  BY <1>1, PutGoesOn
<1>5. Given(p)'
  BY <1>1, <1>2, <1>4 DEF LoggedInv, Given, Begun, Makers
<1> QED
  BY <1>1, <1>2, <1>3, <1>5, LogStays DEF LoggedInv

(* A put that is over leaves nothing to log, unless it was cut off.         *)
LEMMA EndLogs ==
  ASSUME WholeInv, LoggedInv, NEW p \in Putters, blPut' = [blPut EXCEPT ![p] = NoPut],
         UNCHANGED <<blFile, blLog>>, blPast'.puts = blPast.puts,
         blPast.aborted \subseteq blPast'.aborted,
         \/ blPut[p].pc = "stat" \/ blPut[p].rules = {} \/ blPut[p].name \in blPast'.aborted
  PROVE  LoggedInv'
<1>1. blPut'[p] = NoPut
  BY PutGoesOn
<1>2. Given(p)'
  BY <1>1 DEF Given, Begun, NoPut
<1>3. NoPut.rules = {}
  BY DEF NoPut
<1> QED
  BY <1>2, <1>3, LogStays DEF LoggedInv

LEMMA LogLogs ==
  ASSUME WholeInv, LoggedInv, NEW p \in Putters, LogRedaction(p)
  PROVE  LoggedInv'
<1>1. blPut[p].pc = "log" /\ blFile' = blFile
  BY DEF LogRedaction
<1>2. CASE blPut[p].rules = {} /\ Returns(p) /\ UNCHANGED blLog
  <2>1. /\ blPut' = [blPut EXCEPT ![p] = NoPut]
        /\ blPast'.puts = blPast.puts /\ blPast'.aborted = blPast.aborted
    BY <1>2 DEF Returns
  <2> QED
    BY <1>1, <1>2, <2>1, EndLogs
<1>3. ASSUME NEW rule \in blPut[p].rules, blLog' = blLog \union {<<blPut[p].name, rule>>},
             blPut' = [blPut EXCEPT ![p].rules = @ \ {rule}], UNCHANGED blPast
      PROVE  LoggedInv'
  <2> DEFINE put == [blPut[p] EXCEPT !.rules = @ \ {rule}]
  <2>1. blPut' = [blPut EXCEPT ![p] = put]
    BY <1>3
  <2>2. put.pc = "log" /\ put.rules = blPut[p].rules \ {rule}
    BY <1>1 DEF WholeInv, PutOK
  <2> HIDE DEF put
  <2>3. /\ blPut'[p] = put
        /\ \A q \in Putters \ {p} : blPut'[q] = blPut[q]
    BY <2>1, PutGoesOn
  <2>4. \A q \in Putters : Given(q)'
    <3>1. Given(p)'
      BY <2>2, <2>3 DEF Given, Begun
    <3> QED
      BY <1>3, <2>3, <3>1, OthersGiven DEF LoggedInv
  <2>5. \A q \in Putters : blPut'[q].rules \subseteq Fired
    BY <2>2, <2>3 DEF LoggedInv
  <2>6. ASSUME NEW name \in Contents \ blPast'.aborted, OnlyRedacted(name)', blFile'[name] # NoFile
        PROVE  Logged(name)' \/ Logs(name)'
    <3>1. Logged(name) \/ Logs(name)
      BY <1>1, <1>3, <2>6 DEF LoggedInv, OnlyRedacted, Makers
    <3>2. CASE name = blPut[p].name
      <4>1. rule \in Fired
        BY <1>3 DEF LoggedInv
      <4> QED
        BY <1>3, <3>2, <4>1 DEF Logged, Fired
    <3>3. CASE name # blPut[p].name
      BY <1>3, <2>1, <3>1, <3>3, LogsKept DEF Logged
    <3> QED
      BY <3>2, <3>3
  <2> QED
    BY <1>3, <2>4, <2>5, <2>6 DEF LoggedInv, Fired
<1> QED
  BY <1>2, <1>3 DEF LogRedaction

LEMMA LoggedInvKept == WholeInv /\ LoggedInv /\ [BlobNext]_blobVars => LoggedInv'
<1> SUFFICES ASSUME WholeInv, LoggedInv, [BlobNext]_blobVars PROVE LoggedInv'
  OBVIOUS
<1>1. ASSUME NEW p \in Putters, NEW content \in Contents, NEW skipRedact \in BOOLEAN,
             PutBuffer(p, content, skipRedact)
      PROVE  LoggedInv'
  <2> DEFINE name == Scrubbed(content, skipRedact)
             rules == Redactions(content, skipRedact)
  <2>1. /\ Begin(p, name, name, rules)
        /\ blPast'.aborted = blPast.aborted
        /\ blPast'.puts = blPast.puts \union {<<content, skipRedact>>}
    BY <1>1 DEF PutBuffer, BlobName
  <2>2. rules \in SUBSET Fired
    BY DEF Redactions, Fired
  <2>3. \E put \in Makers(name)' : rules = Redactions(put[1], put[2])
    <3> DEFINE maker == <<content, skipRedact>>
    <3>1. maker \in blPast'.puts /\ maker[1] = content /\ maker[2] = skipRedact
      BY <2>1
    <3> HIDE DEF maker
    <3>2. maker \in Makers(name)'
      BY <3>1 DEF Makers
    <3> QED
      BY <3>1, <3>2
  <2>4. blPast'.puts \subseteq Contents \X BOOLEAN
    BY <2>1 DEF LoggedInv
  <2> QED
    BY <2>1, <2>2, <2>3, <2>4, BeginLogs
<1>2. ASSUME NEW p \in Putters, NEW key \in RenderKeys, PutWithKey(p, key) PROVE LoggedInv'
  <2>1. /\ Begin(p, key, RenderOf[key], {})
        /\ blPast'.aborted = blPast.aborted /\ blPast'.puts = blPast.puts
    BY <1>2 DEF PutWithKey
  <2> QED
    BY <2>1, BeginLogs DEF LoggedInv
<1>3. ASSUME NEW p \in Putters, StatBlob(p) PROVE LoggedInv'
  <2>1. blPut[p].pc = "stat" /\ UNCHANGED <<blFile, blLog>>
    BY <1>3 DEF StatBlob
  <2>2. CASE Returns(p)
    <3>1. /\ blPut' = [blPut EXCEPT ![p] = NoPut]
          /\ blPast'.puts = blPast.puts /\ blPast'.aborted = blPast.aborted
      BY <2>2 DEF Returns
    <3> QED
      BY <2>1, <3>1, EndLogs
  <2>3. CASE blPut' = [blPut EXCEPT ![p].pc = "open"] /\ UNCHANGED blPast
    <3> DEFINE put == [blPut[p] EXCEPT !.pc = "open"]
    <3>1. blPut' = [blPut EXCEPT ![p] = put]
      BY <2>3
    <3>2. put.pc = "open" /\ put.name = blPut[p].name /\ put.rules = blPut[p].rules
      BY DEF WholeInv, PutOK
    <3> HIDE DEF put
    <3>3. blPut'[p] = put
      BY <3>1, PutGoesOn
    <3>4. Given(p)'
      BY <2>1, <2>3, <3>2, <3>3 DEF LoggedInv, Given, Begun, Makers
    <3> QED
      BY <2>1, <2>3, <3>1, <3>2, <3>4, LogStays DEF LoggedInv
  <2> QED
    BY <1>3, <2>2, <2>3 DEF StatBlob
<1>4. ASSUME NEW p \in Putters, AbortPut(p) PROVE LoggedInv'
  <2>1. /\ blPut' = [blPut EXCEPT ![p] = NoPut] /\ UNCHANGED <<blFile, blLog>>
        /\ blPast'.puts = blPast.puts
        /\ blPast'.aborted = blPast.aborted \union {blPut[p].name}
    BY <1>4 DEF AbortPut
  <2> QED
    BY <2>1, EndLogs
<1>5. CASE UNCHANGED blobVars
  <2>1. UNCHANGED <<blPut, blFile, blLog, blPast>>
    BY <1>5 DEF blobVars
  <2>2. \A name : Makers(name)' = Makers(name) /\ Logged(name)' = Logged(name)
    BY <2>1 DEF Makers, Logged
  <2> QED
    BY <2>1, <2>2 DEF LoggedInv, Given, Begun, Logs, OnlyRedacted
<1> QED
  BY <1>1, <1>2, <1>3, <1>4, <1>5, OpenLogs, WriteLogs, LogLogs DEF BlobNext

LEMMA LoggedInvGives == WholeInv /\ LoggedInv => ScrubsAreLogged
<1> SUFFICES ASSUME WholeInv, LoggedInv, NEW name \in blPast.returned \ RenderKeys,
                    Undisturbed(name), OnlyRedacted(name)
             PROVE  Logged(name)
  BY DEF ScrubsAreLogged
<1>1. name \in Contents \ blPast.aborted /\ blFile[name] # NoFile
  BY DEF WholeInv, BlobNames, Undisturbed
<1>2. ~ Logs(name)
  BY DEF Undisturbed, AtWorkOn, Logs
<1> QED
  BY <1>1, <1>2 DEF LoggedInv

(***************************************************************************)
(* RacingPutsHold: a name that a put returned stands for the whole content, *)
(* and what only redacted puts made has a row of the log, for any number of *)
(* puts that overlap, unless one of that name is at work or was cut off     *)
(* (putBuffer, putWithKey).                                                *)
(***************************************************************************)
THEOREM RacingPutsHold == BlobSpec => []BlobsHold
<1>1. BlobInit => WholeInv /\ LoggedInv
  <2> SUFFICES ASSUME BlobInit PROVE WholeInv /\ LoggedInv
    OBVIOUS
  <2>1. \A p \in Putters : blPut[p] = NoPut
    BY DEF BlobInit
  <2>2. \A p \in Putters : PutOK(p)
    BY <2>1, BlobConstants DEF PutOK, NoPut, BlobPhases
  <2>3. /\ DOMAIN blPut = Putters /\ DOMAIN blFile = BlobNames
        /\ \A name \in BlobNames : blFile[name] = NoFile
        /\ blPast.returned = {} /\ blPast.puts = {}
    BY DEF BlobInit
  <2>4. WholeInv
    BY <2>2, <2>3 DEF WholeInv, FileOK, Filled, NoFile
  <2>5. \A p \in Putters : Given(p) /\ blPut[p].rules \subseteq Fired
    BY <2>1 DEF Given, Begun, NoPut
  <2> QED
    BY <2>3, <2>4, <2>5 DEF LoggedInv, BlobNames
<1>2. WholeInv /\ LoggedInv /\ [BlobNext]_blobVars => (WholeInv /\ LoggedInv)'
  BY WholeInvKept, LoggedInvKept
<1>3. WholeInv /\ LoggedInv => BlobsHold
  BY WholeInvGives, LoggedInvGives DEF BlobsHold
<1> QED
  BY <1>1, <1>2, <1>3, PTL DEF BlobSpec

(***************************************************************************)
(* The store's schema                                                      *)
(***************************************************************************)
IsStore(store) == DOMAIN store = {"tables", "columns", "check", "version", "notes"}

FoundWhat == {"unread", "missing", "old"}
OpenerStates == {"closed", "running", "open", "failed", "refused", "cannot write"}
OpenerType == [at : 1..13, found : FoundWhat, state : OpenerStates]

SchemaTypes ==
  /\ IsStore(scStore) /\ IsStore(scFirst)
  /\ scStore.version \in Nat /\ scFirst.version \in Nat
  /\ scOpener \in [Openers -> OpenerType]
  /\ \A p \in Openers : scOpener[p].at <= Len(Program(p))

(* What a statement of this build establishes, and what then stays.          *)
Wide(store) == "annotations" \in store.tables /\ store.check # "narrow"

Settles(statement, store) == Carries(store, statement) /\ (statement.op = "check" => Wide(store))

Grows(old, new) ==
  /\ old.tables \subseteq new.tables /\ old.columns \subseteq new.columns
  /\ old.notes \subseteq new.notes
  /\ Wide(old) => Wide(new)

(* An opener has established what it has gone past.                        *)
GoneFar(p) ==
  CASE scOpener[p].state = "running" ->
         \A i \in 1..13 : i < scOpener[p].at => Settles(Statements[i], scStore)
    [] scOpener[p].state = "open" -> Complete(scStore)
    [] OTHER -> scOpener[p].state # "cannot write"

(* A newer build's database: this build does not get past the guard, and the *)
(* Python port finds everything there.                                     *)
NewerKept ==
  scFirst.version > SCHEMA_VERSION =>
    /\ scStore = scFirst
    /\ \A p \in Openers \ Python : scOpener[p].state \in {"closed", "refused"}
    /\ \A p \in Python : scOpener[p].found = "unread"

OpenInv ==
  /\ scStore.version = SCHEMA_VERSION => Complete(scStore)
  /\ \A p \in Openers \ Python : GoneFar(p)
  /\ \A p \in Python : scOpener[p].state # "cannot write"
  /\ scFirst.notes \subseteq scStore.notes
  /\ scFirst.version > SCHEMA_VERSION =>
       \A i \in DOMAIN PythonStatements : Carries(scFirst, PythonStatements[i])
  /\ NewerKept

SchemaInv == SchemaTypes /\ OpenInv

(***************************************************************************)
(* The programs                                                            *)
(***************************************************************************)
LEMMA ProgramLengths ==
  /\ Len(Statements) = 13 /\ DOMAIN Statements = 1..13
  /\ Len(PythonStatements) = 7 /\ DOMAIN PythonStatements = 1..7
BY DEF Statements, PythonStatements

LEMMA StatementOps ==
  /\ Statements[1] = Creates("meta") /\ Statements[2] = Creates("runs")
  /\ Statements[3] = Creates("steps") /\ Statements[4] = Creates("annotations")
  /\ Statements[12].op = "check" /\ Statements[13].op = "version"
  /\ \A i \in 1..13 : Statements[i].op = "check" => i = 12
  /\ \A i \in 1..13 : Statements[i].op = "version" => i = 13
BY DEF Statements, Creates, Adds

LEMMA DeclaredTables == DOMAIN Declared = {"meta", "runs", "steps", "annotations"}
BY DEF Declared

(* One that has executed everything but the version has a complete database. *)
LEMMA AllSettled ==
  ASSUME NEW store, \A i \in 1..13 : i < 13 => Settles(Statements[i], store)
  PROVE  Complete(store)
<1>1. DOMAIN Declared \subseteq store.tables
  <2>1. \A i \in 1..4 : Settles(Statements[i], store)
    OBVIOUS
  <2>2. /\ Settles(Creates("meta"), store) /\ Settles(Creates("runs"), store)
        /\ Settles(Creates("steps"), store) /\ Settles(Creates("annotations"), store)
    BY <2>1, StatementOps
  <2> QED
    BY <2>2, DeclaredTables DEF Settles, Carries, Creates
<1>2. AllColumns \subseteq store.columns
  <2> SUFFICES ASSUME NEW i \in 1..13, Statements[i].op = "column"
               PROVE  Statements[i].name \in store.columns
    BY ProgramLengths DEF AllColumns
  <2>1. i # 13
    BY StatementOps
  <2> QED
    BY <2>1 DEF Settles, Carries
<1>3. Accepted(store, "context_compaction")
  <2>1. Settles(Statements[12], store)
    OBVIOUS
  <2> QED
    BY <2>1, StatementOps DEF Settles, Wide, Accepted
<1> QED
  BY <1>1, <1>2, <1>3 DEF Complete

(* A complete database stays complete, what is settled settled.             *)
LEMMA GrowsKeeps ==
  ASSUME NEW old, NEW new, Grows(old, new)
  PROVE  /\ Complete(old) => Complete(new)
         /\ \A s : Settles(s, old) => Settles(s, new)
<1>1. Complete(old) => Complete(new)
  <2> SUFFICES ASSUME Complete(old) PROVE Complete(new)
    OBVIOUS
  <2>1. Wide(old)
    BY DeclaredTables DEF Complete, Accepted, Wide
  <2> QED
    BY <2>1 DEF Grows, Complete, Accepted, Wide
<1>2. \A s : Settles(s, old) => Settles(s, new)
  BY DEF Grows, Settles, Carries
<1> QED
  BY <1>1, <1>2

(***************************************************************************)
(* What one step does to the database                                      *)
(***************************************************************************)
LEMMA Created ==
  ASSUME NEW store, IsStore(store), NEW table, NEW python
  PROVE  LET new == CreateTable(store, table, python)
         IN  /\ IsStore(new) /\ new.version = store.version /\ Grows(store, new)
             /\ table \in new.tables
             /\ table \in store.tables => new = store
<1>1. CASE table \in store.tables
  BY <1>1 DEF CreateTable, Grows
<1>2. CASE table \notin store.tables
  <2> DEFINE cols == store.columns \union IF python THEN PythonDeclared[table] ELSE Declared[table]
             chk == IF table # "annotations" THEN store.check ELSE IF python THEN "narrow" ELSE "wide"
             new == [store EXCEPT !.tables = store.tables \union {table}, !.columns = cols,
                                  !.check = chk]
  <2>1. CreateTable(store, table, python) = new
    BY <1>2 DEF CreateTable
  <2>2. Wide(store) => table # "annotations"
    BY <1>2 DEF Wide
  <2> HIDE DEF cols
  <2>3. /\ IsStore(new) /\ new.version = store.version /\ new.notes = store.notes
        /\ new.tables = store.tables \union {table} /\ new.columns = cols /\ new.check = chk
    BY DEF IsStore
  <2> HIDE DEF new
  <2>4. Grows(store, new)
    BY <2>2, <2>3 DEF Grows, Wide, cols
  <2> QED
    BY <1>2, <2>1, <2>3, <2>4
<1> QED
  BY <1>1, <1>2

LEMMA StoreStep ==
  ASSUME SchemaTypes, [SchemaNext]_schemaVars
  PROVE  /\ IsStore(scStore') /\ scStore'.version \in Nat /\ Grows(scStore, scStore')
         /\ scFirst' = scFirst
<1>0. CASE UNCHANGED scStore /\ UNCHANGED scFirst
  BY <1>0 DEF SchemaTypes, Grows
<1>1. ASSUME NEW p \in Openers, CreateIfMissing(p)
      PROVE  /\ IsStore(scStore') /\ scStore'.version \in Nat /\ Grows(scStore, scStore')
             /\ scFirst' = scFirst
  BY <1>1, Created DEF CreateIfMissing, SchemaTypes
<1>2. ASSUME NEW p \in Openers, AddColumn(p)
      PROVE  /\ IsStore(scStore') /\ scStore'.version \in Nat /\ Grows(scStore, scStore')
             /\ scFirst' = scFirst
  BY <1>2 DEF AddColumn, SchemaTypes, IsStore, Grows, Wide
<1>3. ASSUME NEW p \in Openers, RebuildAnnotations(p)
      PROVE  /\ IsStore(scStore') /\ scStore'.version \in Nat /\ Grows(scStore, scStore')
             /\ scFirst' = scFirst
  BY <1>3 DEF RebuildAnnotations, SchemaTypes, IsStore, Grows, Wide
<1>4. ASSUME NEW p \in Openers, WriteVersion(p)
      PROVE  /\ IsStore(scStore') /\ scStore'.version \in Nat /\ Grows(scStore, scStore')
             /\ scFirst' = scFirst
  BY <1>0, <1>4 DEF WriteVersion, SchemaTypes, IsStore, Grows, Wide, SCHEMA_VERSION,
     PYTHON_SCHEMA_VERSION
<1>5. ASSUME NEW p \in Openers, NEW kind, Annotate(p, kind)
      PROVE  /\ IsStore(scStore') /\ scStore'.version \in Nat /\ Grows(scStore, scStore')
             /\ scFirst' = scFirst
  BY <1>0, <1>5 DEF Annotate, SchemaTypes, IsStore, Grows, Wide
<1>6. ASSUME NEW p \in Openers,
             Open(p) \/ LookForColumn(p) \/ LookAtCheck(p) \/ LookAtVersion(p) \/ Killed(p)
      PROVE  UNCHANGED scStore /\ UNCHANGED scFirst
  BY <1>6 DEF Open, LookForColumn, LookAtCheck, LookAtVersion, Killed
<1>7. CASE UNCHANGED schemaVars
  BY <1>0, <1>7 DEF schemaVars
<1> QED
  BY <1>0, <1>1, <1>2, <1>3, <1>4, <1>5, <1>6, <1>7 DEF SchemaNext

(***************************************************************************)
(* What one step does to the openers                                       *)
(***************************************************************************)
LEMMA OpenerRecord ==
  ASSUME NEW at \in 1..13, NEW found \in FoundWhat, NEW state \in OpenerStates
  PROVE  [at |-> at, found |-> found, state |-> state]
           \in OpenerType
BY DEF OpenerType

LEMMA OpenerFields ==
  ASSUME SchemaTypes, NEW p \in Openers
  PROVE  /\ scOpener[p] \in OpenerType
         /\ scOpener[p].at \in 1..13 /\ scOpener[p].found \in FoundWhat
         /\ scOpener[p].state \in OpenerStates
         /\ Len(Program(p)) \in 1..13 /\ scOpener[p].at <= Len(Program(p))
<1>1. scOpener[p] \in OpenerType
  BY DEF SchemaTypes
<1>2. Len(Program(p)) \in 1..13
  BY ProgramLengths DEF Program
<1> QED
  BY <1>1, <1>2 DEF SchemaTypes, OpenerType

(* A step is one opener's; the others are where they were.                  *)
OpenerKept(p) ==
  /\ \A q \in Openers \ {p} : scOpener'[q] = scOpener[q]
  /\ scOpener' \in [Openers -> OpenerType]

LEMMA OpenerSet ==
  ASSUME SchemaTypes, NEW p \in Openers,
         NEW next \in OpenerType,
         scOpener' = [scOpener EXCEPT ![p] = next]
  PROVE  OpenerKept(p) /\ scOpener'[p] = next
BY DEF SchemaTypes, OpenerKept

LEMMA Advanced ==
  ASSUME SchemaTypes, NEW p \in Openers, Goes(p)
  PROVE  /\ OpenerKept(p) /\ scOpener'[p].found = "unread"
         /\ \/ scOpener[p].at = Len(Program(p)) /\ scOpener'[p].at = 1
               /\ scOpener'[p].state = "open"
            \/ scOpener[p].at < Len(Program(p)) /\ scOpener'[p].at = scOpener[p].at + 1
               /\ scOpener'[p].state = "running"
<1>1. CASE scOpener[p].at = Len(Program(p))
  <2>1. scOpener' = [scOpener EXCEPT ![p] = [at |-> 1, found |-> "unread", state |-> "open"]]
    BY <1>1 DEF Goes
  <2>2. [at |-> 1, found |-> "unread", state |-> "open"] \in OpenerType
    BY DEF OpenerType, FoundWhat, OpenerStates
  <2>3. OpenerKept(p) /\ scOpener'[p] = [at |-> 1, found |-> "unread", state |-> "open"]
    BY <2>1, <2>2, OpenerSet
  <2> QED
    BY <1>1, <2>3
<1>2. CASE scOpener[p].at # Len(Program(p))
  <2> DEFINE next == [at |-> scOpener[p].at + 1, found |-> "unread", state |-> "running"]
  <2>1. scOpener' = [scOpener EXCEPT ![p] = next]
    BY <1>2 DEF Goes
  <2>2. scOpener[p].at + 1 \in 1..13 /\ scOpener[p].at < Len(Program(p))
    <3>1. /\ scOpener[p].at \in 1..13 /\ Len(Program(p)) \in 1..13
          /\ scOpener[p].at <= Len(Program(p))
      BY OpenerFields
    <3>2. \A k \in 1..13, n \in 1..13 : k <= n /\ k # n => k + 1 \in 1..13 /\ k < n
      OBVIOUS
    <3> QED
      BY <1>2, <3>1, <3>2
  <2>3. next \in OpenerType
    BY <2>2, OpenerRecord DEF FoundWhat, OpenerStates
  <2>4. next.at = scOpener[p].at + 1 /\ next.found = "unread" /\ next.state = "running"
    OBVIOUS
  <2> HIDE DEF next
  <2>5. OpenerKept(p) /\ scOpener'[p] = next
    BY <2>1, <2>3, OpenerSet
  <2> QED
    BY <2>2, <2>4, <2>5
<1> QED
  BY <1>1, <1>2

LEMMA Marked ==
  ASSUME SchemaTypes, NEW p \in Openers, NEW found \in FoundWhat, NEW state \in OpenerStates,
         \/ scOpener' = [scOpener EXCEPT ![p].found = found] /\ state = scOpener[p].state
         \/ scOpener' = [scOpener EXCEPT ![p].state = state] /\ found = scOpener[p].found
  PROVE  /\ OpenerKept(p) /\ scOpener'[p].at = scOpener[p].at
         /\ scOpener'[p].found = found /\ scOpener'[p].state = state
<1> DEFINE old == scOpener[p]
<1>1. old \in OpenerType
  BY OpenerFields
<1>2. CASE scOpener' = [scOpener EXCEPT ![p].found = found] /\ state = old.state
  <2> DEFINE next == [old EXCEPT !.found = found]
  <2>1. scOpener' = [scOpener EXCEPT ![p] = next]
    BY <1>2 DEF SchemaTypes
  <2>2. /\ next \in OpenerType
        /\ next.at = old.at /\ next.found = found /\ next.state = state
    BY <1>1, <1>2 DEF OpenerType
  <2> QED
    BY <2>1, <2>2, OpenerSet
<1>3. CASE scOpener' = [scOpener EXCEPT ![p].state = state] /\ found = old.found
  <2> DEFINE next == [old EXCEPT !.state = state]
  <2>1. scOpener' = [scOpener EXCEPT ![p] = next]
    BY <1>3 DEF SchemaTypes
  <2>2. /\ next \in OpenerType
        /\ next.at = old.at /\ next.found = found /\ next.state = state
    BY <1>1, <1>3 DEF OpenerType
  <2> QED
    BY <2>1, <2>2, OpenerSet
<1> QED
  BY <1>2, <1>3

LEMMA OpenStep ==
  ASSUME SchemaTypes, NEW p \in Openers, Open(p)
  PROVE  /\ OpenerKept(p) /\ scOpener'[p].at = 1 /\ scOpener'[p].found = "unread"
         /\ scOpener'[p].state = IF p \notin Python /\ scStore.version > SCHEMA_VERSION
                                 THEN "refused" ELSE "running"
<1> DEFINE state == IF p \notin Python /\ scStore.version > SCHEMA_VERSION
                    THEN "refused" ELSE "running"
<1>1. scOpener' = [scOpener EXCEPT ![p] = [at |-> 1, found |-> "unread", state |-> state]]
  BY DEF Open
<1>2. state \in OpenerStates
  BY DEF OpenerStates
<1> HIDE DEF state
<1>3. OpenerKept(p) /\ scOpener'[p] = [at |-> 1, found |-> "unread", state |-> state]
  <2>1. 1 \in 1..13 /\ "unread" \in FoundWhat
    BY DEF FoundWhat
  <2> QED
    BY <1>1, <1>2, <2>1, OpenerSet, OpenerRecord
<1> QED
  BY <1>3 DEF state

LEMMA LookStep ==
  ASSUME SchemaTypes, NEW p \in Openers, NEW found \in FoundWhat, Finds(p, found)
  PROVE  /\ OpenerKept(p) /\ scOpener'[p].at = scOpener[p].at
         /\ scOpener'[p].state = scOpener[p].state /\ scOpener'[p].found = found
<1>1. scOpener' = [scOpener EXCEPT ![p].found = found]
  BY DEF Finds
<1>2. scOpener[p].state \in OpenerStates
  BY OpenerFields
<1>3. PICK state \in OpenerStates : state = scOpener[p].state
  BY <1>2
<1> QED
  BY <1>1, <1>3, Marked

LEMMA FailStep ==
  ASSUME SchemaTypes, NEW p \in Openers, Fails(p)
  PROVE  /\ OpenerKept(p) /\ scOpener'[p].at = scOpener[p].at
         /\ scOpener'[p].state = "failed" /\ scOpener'[p].found = scOpener[p].found
BY OpenerFields, Marked DEF Fails, OpenerStates

LEMMA AnnotateStep ==
  ASSUME SchemaTypes, NEW p \in Openers, NEW kind, Annotate(p, kind)
  PROVE  /\ OpenerKept(p) /\ scOpener'[p].at = scOpener[p].at
         /\ scOpener'[p].state = IF Accepted(scStore, kind) THEN "closed" ELSE "cannot write"
         /\ scOpener'[p].found = scOpener[p].found
<1>1. scOpener[p].found \in FoundWhat
  BY OpenerFields
<1>2. CASE Accepted(scStore, kind)
  <2>1. scOpener' = [scOpener EXCEPT ![p].state = "closed"]
    BY <1>2 DEF Annotate
  <2> QED
    BY <1>1, <1>2, <2>1, Marked DEF OpenerStates
<1>3. CASE ~Accepted(scStore, kind)
  <2>1. scOpener' = [scOpener EXCEPT ![p].state = "cannot write"]
    BY <1>3 DEF Annotate
  <2> QED
    BY <1>1, <1>3, <2>1, Marked DEF OpenerStates
<1> QED
  BY <1>2, <1>3

(* Whatever its step, an opener stays within its program.                   *)
LEMMA OpenerStep ==
  ASSUME SchemaTypes, NEW p \in Openers,
         \/ Open(p) \/ CreateIfMissing(p) \/ LookForColumn(p) \/ AddColumn(p)
         \/ LookAtCheck(p) \/ RebuildAnnotations(p) \/ LookAtVersion(p) \/ WriteVersion(p)
         \/ (\E kind \in {"comment", "context_compaction"} : Annotate(p, kind)) \/ Killed(p)
  PROVE  OpenerKept(p) /\ scOpener'[p].at <= Len(Program(p))
<1>0. Len(Program(p)) \in 1..13 /\ scOpener[p].at \in 1..13 /\ scOpener[p].at <= Len(Program(p))
  BY OpenerFields
<1>1. CASE Open(p)
  BY <1>0, <1>1, OpenStep
<1>2. CASE Goes(p)
  BY <1>0, <1>2, Advanced DEF OpenerKept
<1>3. CASE Fails(p)
  BY <1>0, <1>3, FailStep
<1>4. CASE Finds(p, "missing") \/ Finds(p, "old")
  BY <1>0, <1>4, LookStep DEF FoundWhat
<1>5. CASE \E kind \in {"comment", "context_compaction"} : Annotate(p, kind)
  BY <1>0, <1>5, AnnotateStep
<1> QED
  BY <1>1, <1>2, <1>3, <1>4, <1>5
  DEF CreateIfMissing, LookForColumn, AddColumn, LookAtCheck, RebuildAnnotations,
      LookAtVersion, WriteVersion, Killed

LEMMA SchemaTypesStep == SchemaTypes /\ [SchemaNext]_schemaVars => SchemaTypes'
<1> SUFFICES ASSUME SchemaTypes, [SchemaNext]_schemaVars PROVE SchemaTypes'
  OBVIOUS
<1>1. IsStore(scStore') /\ scStore'.version \in Nat /\ scFirst' = scFirst
  BY StoreStep
<1>2. CASE UNCHANGED schemaVars
  BY <1>2 DEF schemaVars, SchemaTypes, Program
<1>3. ASSUME NEW p \in Openers,
             \/ Open(p) \/ CreateIfMissing(p) \/ LookForColumn(p) \/ AddColumn(p)
             \/ LookAtCheck(p) \/ RebuildAnnotations(p) \/ LookAtVersion(p) \/ WriteVersion(p)
             \/ (\E kind \in {"comment", "context_compaction"} : Annotate(p, kind)) \/ Killed(p)
      PROVE  SchemaTypes'
  <2>1. OpenerKept(p) /\ scOpener'[p].at <= Len(Program(p))
    BY <1>3, OpenerStep
  <2>2. \A q \in Openers : scOpener'[q].at <= Len(Program(q))
    BY <2>1 DEF OpenerKept, SchemaTypes
  <2> QED
    BY <1>1, <2>1, <2>2 DEF SchemaTypes, OpenerKept, Program
<1> QED
  BY <1>2, <1>3 DEF SchemaNext

(***************************************************************************)
(* One step keeps the invariant                                            *)
(***************************************************************************)

(* An opener of this build that goes on has settled one statement more.      *)
LEMMA GoesFar ==
  ASSUME SchemaTypes, NEW p \in Openers \ Python, scOpener[p].state = "running", GoneFar(p),
         Goes(p), Grows(scStore, scStore'),
         scOpener[p].at < 13 => Settles(Statements[scOpener[p].at], scStore')
  PROVE  GoneFar(p)'
<1>0. Len(Program(p)) = 13 /\ scOpener[p].at \in 1..13
  BY ProgramLengths, OpenerFields DEF Program
<1>1. \A i \in 1..13 : i < scOpener[p].at => Settles(Statements[i], scStore')
  BY GrowsKeeps DEF GoneFar
<1>2. CASE scOpener[p].at = 13
  <2>1. Complete(scStore')
    BY <1>1, <1>2, AllSettled
  <2>2. scOpener'[p].state = "open"
    <3>1. ~(scOpener[p].at < Len(Program(p)))
      BY <1>0, <1>2
    <3> QED
      BY <3>1, Advanced
  <2> QED
    BY <2>1, <2>2 DEF GoneFar
<1>3. CASE scOpener[p].at # 13
  <2>1. scOpener'[p].state = "running" /\ scOpener'[p].at = scOpener[p].at + 1
    BY <1>0, <1>3, Advanced
  <2>2. \A i \in 1..13 : i < scOpener'[p].at => i < scOpener[p].at \/ i = scOpener[p].at
    BY <1>0, <2>1
  <2>3. scOpener[p].at < 13
    BY <1>0, <1>3
  <2>4. \A i \in 1..13 : i < scOpener'[p].at => Settles(Statements[i], scStore')
    BY <1>1, <2>2, <2>3
  <2> QED
    BY <2>1, <2>4 DEF GoneFar
<1> QED
  BY <1>2, <1>3

(* One that only looks has settled what it had.                             *)
LEMMA StaysFar ==
  ASSUME SchemaTypes, NEW p \in Openers, GoneFar(p), Grows(scStore, scStore'),
         scOpener'[p].at = scOpener[p].at, scOpener'[p].state = scOpener[p].state
  PROVE  GoneFar(p)'
<1>1. CASE scOpener[p].state = "running"
  <2>1. \A i \in 1..13 : i < scOpener'[p].at => Settles(Statements[i], scStore')
    BY <1>1, GrowsKeeps DEF GoneFar
  <2> QED
    BY <1>1, <2>1 DEF GoneFar
<1>2. CASE scOpener[p].state = "open"
  <2>1. Complete(scStore')
    BY <1>2, GrowsKeeps DEF GoneFar
  <2> QED
    BY <1>2, <2>1 DEF GoneFar
<1>3. CASE scOpener[p].state \notin {"running", "open"}
  BY <1>3 DEF GoneFar
<1> QED
  BY <1>1, <1>2, <1>3

(* The steps of an opener of this build, one by one.                        *)
LEMMA FarStep ==
  ASSUME SchemaTypes, NEW p \in Openers \ Python, GoneFar(p), Grows(scStore, scStore'),
         \/ Open(p) \/ CreateIfMissing(p) \/ LookForColumn(p) \/ AddColumn(p)
         \/ LookAtCheck(p) \/ RebuildAnnotations(p) \/ LookAtVersion(p) \/ WriteVersion(p)
         \/ (\E kind \in {"comment", "context_compaction"} : Annotate(p, kind)) \/ Killed(p)
  PROVE  GoneFar(p)'
<1>0. /\ Statement(p) = Statements[scOpener[p].at] /\ scOpener[p].at \in 1..13
  BY OpenerFields DEF Statement, Program
<1>a. CASE Open(p)
  <2>1. scOpener'[p].at = 1 /\ scOpener'[p].state \in {"refused", "running"}
    BY <1>a, OpenStep
  <2>2. \A i \in 1..13 : ~(i < scOpener'[p].at)
    BY <2>1
  <2> QED
    BY <2>1, <2>2 DEF GoneFar
<1>b. CASE Fails(p)
  <2>1. scOpener'[p].state = "failed"
    BY <1>b, FailStep
  <2> QED
    BY <2>1 DEF GoneFar
<1>c. ASSUME NEW found \in FoundWhat, Finds(p, found) PROVE GoneFar(p)'
  <2>1. scOpener'[p].at = scOpener[p].at /\ scOpener'[p].state = scOpener[p].state
    BY <1>c, LookStep
  <2> QED
    BY <2>1, StaysFar
<1>d. "missing" \in FoundWhat /\ "old" \in FoundWhat
  BY DEF FoundWhat
<1>1. CASE CreateIfMissing(p)
  <2>1. Running(p, "table") /\ scStore' = CreateTable(scStore, Statement(p).name, p \in Python)
    BY <1>1 DEF CreateIfMissing
  <2>2. Statement(p).name \in scStore'.tables
    BY <2>1, Created DEF SchemaTypes
  <2>3. Settles(Statements[scOpener[p].at], scStore')
    BY <1>0, <2>1, <2>2 DEF Settles, Carries, Running
  <2>4. Goes(p)
    BY <1>1 DEF CreateIfMissing
  <2>5. scOpener[p].state = "running"
    BY <2>1 DEF Running
  <2> QED
    BY <2>3, <2>4, <2>5, GoesFar
<1>2. CASE LookForColumn(p)
  <2>1. Running(p, "column") /\ scStore' = scStore
    BY <1>2 DEF LookForColumn
  <2>2. CASE Statement(p).name \in scStore.columns
    <3>1. Settles(Statements[scOpener[p].at], scStore')
      BY <1>0, <2>1, <2>2 DEF Settles, Carries, Running
    <3> QED
      BY <1>2, <2>1, <2>2, <3>1, GoesFar DEF LookForColumn, Running
  <2>3. CASE Statement(p).name \notin scStore.columns
    BY <1>2, <1>c, <1>d, <2>3 DEF LookForColumn
  <2> QED
    BY <2>2, <2>3
<1>3. CASE AddColumn(p)
  <2>1. /\ Running(p, "column")
        /\ scStore' = [scStore EXCEPT !.columns = scStore.columns \union {Statement(p).name}]
    BY <1>3 DEF AddColumn
  <2>2. Statement(p).name \in scStore'.columns
    BY <2>1 DEF SchemaTypes, IsStore
  <2>3. Settles(Statements[scOpener[p].at], scStore')
    BY <1>0, <2>1, <2>2 DEF Settles, Carries, Running
  <2> QED
    BY <1>3, <1>b, <2>1, <2>3, GoesFar DEF AddColumn, Running
<1>4. ASSUME Running(p, "check"), Goes(p), scStore'.check # "narrow" PROVE GoneFar(p)'
  <2>1. scOpener[p].at = 12
    BY <1>0, <1>4, StatementOps DEF Running
  <2>2. Settles(Statements[4], scStore')
    BY <1>4, <2>1, GrowsKeeps DEF GoneFar, Running
  <2>3. "annotations" \in scStore'.tables
    BY <2>2, StatementOps DEF Settles, Carries, Creates
  <2>4. Settles(Statements[scOpener[p].at], scStore')
    BY <1>0, <1>4, <2>3 DEF Settles, Carries, Wide, Running
  <2> QED
    BY <1>4, <2>4, GoesFar DEF Running
<1>5. CASE LookAtCheck(p)
  BY <1>4, <1>5, <1>c, <1>d DEF LookAtCheck
<1>6. CASE RebuildAnnotations(p)
  <2>1. scStore' = [scStore EXCEPT !.check = "wide"]
    BY <1>6 DEF RebuildAnnotations
  <2>2. scStore'.check # "narrow"
    BY <2>1 DEF SchemaTypes, IsStore
  <2> QED
    BY <1>4, <1>6, <2>2 DEF RebuildAnnotations
<1>7. ASSUME Running(p, "version"), Goes(p) PROVE GoneFar(p)'
  <2>1. scOpener[p].at = 13
    BY <1>0, <1>7, StatementOps DEF Running
  <2> QED
    BY <1>7, <2>1, GoesFar DEF Running
<1>8. CASE LookAtVersion(p)
  BY <1>7, <1>8, <1>c, <1>d DEF LookAtVersion
<1>9. CASE WriteVersion(p)
  BY <1>7, <1>9, <1>b DEF WriteVersion
<1>10. ASSUME NEW kind \in {"comment", "context_compaction"}, Annotate(p, kind) PROVE GoneFar(p)'
  <2>1. Complete(scStore)
    BY <1>10 DEF Annotate, GoneFar
  <2>2. Accepted(scStore, kind)
    BY <2>1 DEF Complete, Accepted
  <2>3. scOpener'[p].state = "closed"
    BY <1>10, <2>2, AnnotateStep
  <2> QED
    BY <2>3 DEF GoneFar
<1> QED
  BY <1>a, <1>b, <1>1, <1>2, <1>3, <1>5, <1>6, <1>8, <1>9, <1>10 DEF Killed

(* A database of a newer build stays, and its openers with it.              *)
LEMMA NewerStep ==
  ASSUME SchemaTypes, OpenInv, scFirst.version > SCHEMA_VERSION, NEW p \in Openers,
         \/ Open(p) \/ CreateIfMissing(p) \/ LookForColumn(p) \/ AddColumn(p)
         \/ LookAtCheck(p) \/ RebuildAnnotations(p) \/ LookAtVersion(p) \/ WriteVersion(p)
         \/ (\E kind \in {"comment", "context_compaction"} : Annotate(p, kind)) \/ Killed(p)
  PROVE  /\ scStore' = scStore
         /\ p \notin Python => scOpener'[p].state \in {"closed", "refused"}
         /\ p \in Python => scOpener'[p].found = "unread"
<1>0. /\ scStore = scFirst /\ scStore.version > SCHEMA_VERSION
      /\ p \notin Python => scOpener[p].state \in {"closed", "refused"}
      /\ p \in Python => scOpener[p].found = "unread"
  BY DEF OpenInv, NewerKept
<1>1. CASE Open(p)
  BY <1>0, <1>1, OpenStep DEF Open
<1>2. CASE p \notin Python /\ ~Open(p)
  BY <1>0, <1>2
  DEF CreateIfMissing, LookForColumn, AddColumn, LookAtCheck, RebuildAnnotations,
      LookAtVersion, WriteVersion, Annotate, Killed, Running
<1>3. CASE p \in Python /\ Killed(p)
  BY <1>0, <1>3, FailStep DEF Killed
<1>4. CASE p \in Python /\ ~Open(p) /\ ~Killed(p)
  <2>0. scOpener[p].at \in 1..7 /\ Statement(p) = PythonStatements[scOpener[p].at]
    <3>1. Program(p) = PythonStatements
      BY <1>4 DEF Program
    <3>2. scOpener[p].at \in 1..13 /\ scOpener[p].at <= 7
      BY <3>1, OpenerFields, ProgramLengths
    <3> QED
      BY <3>1, <3>2 DEF Statement
  <2>1. Carries(scStore, Statement(p))
    BY <1>0, <2>0, ProgramLengths DEF OpenInv
  <2>2. Goes(p) => scOpener'[p].found = "unread"
    BY Advanced
  <2>3. CASE CreateIfMissing(p)
    <3>1. Statement(p).name \in scStore.tables
      BY <2>1, <2>3 DEF CreateIfMissing, Running, Carries
    <3> QED
      BY <1>4, <2>2, <2>3, <3>1 DEF CreateIfMissing, CreateTable
  <2>4. CASE LookForColumn(p)
    <3>1. Statement(p).name \in scStore.columns
      BY <2>1, <2>4 DEF LookForColumn, Running, Carries
    <3> QED
      BY <1>4, <2>2, <2>4, <3>1 DEF LookForColumn
  <2>5. CASE LookAtVersion(p)
    BY <1>0, <1>4, <2>2, <2>5 DEF LookAtVersion, SCHEMA_VERSION, SchemaTypes
  <2>6. \A i \in 1..7 : PythonStatements[i].op # "check"
    BY DEF PythonStatements, Creates, Adds
  <2>7. Statement(p).op # "check"
    BY <2>0, <2>6
  <2> QED
    BY <1>0, <1>4, <2>3, <2>4, <2>5, <2>7
    DEF AddColumn, LookAtCheck, RebuildAnnotations, WriteVersion, Annotate, Running, Found
<1> QED
  BY <1>1, <1>2, <1>3, <1>4

LEMMA OpenInvStep == SchemaInv /\ [SchemaNext]_schemaVars => OpenInv'
<1> SUFFICES ASSUME SchemaTypes, OpenInv, [SchemaNext]_schemaVars PROVE OpenInv'
  BY DEF SchemaInv
<1>1. Grows(scStore, scStore') /\ scFirst' = scFirst
  BY StoreStep
<1>2. CASE UNCHANGED schemaVars
  <2>1. UNCHANGED <<scStore, scFirst, scOpener>>
    BY <1>2 DEF schemaVars
  <2>2. \A p \in Openers : GoneFar(p)' <=> GoneFar(p)
    BY <2>1 DEF GoneFar
  <2>3. NewerKept' <=> NewerKept
    BY <2>1 DEF NewerKept
  <2> QED
    BY <2>1, <2>2, <2>3 DEF OpenInv
<1>3. ASSUME NEW p \in Openers,
             \/ Open(p) \/ CreateIfMissing(p) \/ LookForColumn(p) \/ AddColumn(p)
             \/ LookAtCheck(p) \/ RebuildAnnotations(p) \/ LookAtVersion(p) \/ WriteVersion(p)
             \/ (\E kind \in {"comment", "context_compaction"} : Annotate(p, kind)) \/ Killed(p)
      PROVE  OpenInv'
  <2>0. \A q \in Openers \ {p} : scOpener'[q] = scOpener[q]
    BY <1>3, OpenerStep DEF OpenerKept
  <2>1. scStore'.version = SCHEMA_VERSION => Complete(scStore')
    <3> SUFFICES ASSUME scStore'.version = SCHEMA_VERSION PROVE Complete(scStore')
      OBVIOUS
    <3>1. CASE scStore.version = SCHEMA_VERSION
      BY <1>1, <3>1, GrowsKeeps DEF OpenInv
    <3>2. CASE scStore.version # SCHEMA_VERSION
      <4>a. scStore'.version # scStore.version
        BY <3>2
      <4>b. ~CreateIfMissing(p)
        BY <4>a, Created DEF CreateIfMissing, SchemaTypes
      <4>c. ~(AddColumn(p) \/ RebuildAnnotations(p))
        BY <4>a DEF AddColumn, RebuildAnnotations, SchemaTypes, IsStore
      <4>d. ~\E kind \in {"comment", "context_compaction"} : Annotate(p, kind)
        BY <4>a DEF Annotate, SchemaTypes, IsStore
      <4>1. WriteVersion(p)
        BY <1>3, <4>a, <4>b, <4>c, <4>d
        DEF Open, LookForColumn, LookAtCheck, LookAtVersion, Killed
      <4>2. scStore' = [scStore EXCEPT !.version = IF p \in Python THEN PYTHON_SCHEMA_VERSION
                                                   ELSE SCHEMA_VERSION]
        BY <3>2, <4>1 DEF WriteVersion
      <4>3. p \notin Python
        BY <4>2 DEF SchemaTypes, IsStore, PYTHON_SCHEMA_VERSION, SCHEMA_VERSION
      <4>4. scOpener[p].state = "running" /\ Statements[scOpener[p].at].op = "version"
        BY <4>1, <4>3 DEF WriteVersion, Running, Statement, Program
      <4>5. scOpener[p].at = 13
        BY <4>4, StatementOps, OpenerFields
      <4>6. GoneFar(p)
        BY <4>3 DEF OpenInv
      <4>7. Complete(scStore)
        BY <4>4, <4>5, <4>6, AllSettled DEF GoneFar
      <4> QED
        BY <1>1, <4>7, GrowsKeeps
    <3> QED
      BY <3>1, <3>2
  <2>2. ASSUME NEW q \in Openers \ Python PROVE GoneFar(q)'
    <3>1. GoneFar(q)
      BY DEF OpenInv
    <3>2. CASE q = p
      BY <1>1, <1>3, <3>1, <3>2, FarStep
    <3>3. CASE q # p
      BY <1>1, <2>0, <3>1, <3>3, StaysFar
    <3> QED
      BY <3>2, <3>3
  <2>3. ASSUME NEW q \in Python PROVE scOpener'[q].state # "cannot write"
    <3>0. q \in Openers
      BY SchemaConstants
    <3>1. CASE q # p
      BY <2>0, <3>0, <3>1 DEF OpenInv
    <3>2. CASE q = p
      <4>1. Open(p) => scOpener'[p].state # "cannot write"
        BY OpenStep
      <4>2. Goes(p) => scOpener'[p].state # "cannot write"
        BY Advanced
      <4>3. Fails(p) => scOpener'[p].state # "cannot write"
        BY FailStep
      <4>4. \A found \in FoundWhat : Finds(p, found) => scOpener'[p].state # "cannot write"
        BY <3>2, LookStep DEF OpenInv
      <4> QED
        BY <1>3, <3>2, <4>1, <4>2, <4>3, <4>4
        DEF CreateIfMissing, LookForColumn, AddColumn, LookAtCheck, RebuildAnnotations,
            LookAtVersion, WriteVersion, Annotate, Killed, FoundWhat
    <3> QED
      BY <3>1, <3>2
  <2>4. scFirst'.notes \subseteq scStore'.notes
    BY <1>1 DEF OpenInv, Grows
  <2>5. NewerKept'
    <3> SUFFICES ASSUME scFirst.version > SCHEMA_VERSION
                 PROVE  /\ scStore' = scFirst
                        /\ \A q \in Openers \ Python : scOpener'[q].state \in {"closed", "refused"}
                        /\ \A q \in Python : scOpener'[q].found = "unread"
      BY <1>1 DEF NewerKept
    <3>1. NewerKept /\ Python \subseteq Openers
      BY SchemaConstants DEF OpenInv
    <3> QED
      BY <1>3, <2>0, <3>1, NewerStep DEF NewerKept
  <2> QED
    BY <1>1, <2>1, <2>2, <2>3, <2>4, <2>5 DEF OpenInv
<1> QED
  BY <1>2, <1>3 DEF SchemaNext

LEMMA SchemaInitInv == SchemaInit => SchemaInv
<1> SUFFICES ASSUME SchemaInit PROVE SchemaInv
  OBVIOUS
<1>1. \A p \in Openers : scOpener[p] = [at |-> 1, found |-> "unread", state |-> "closed"]
  BY DEF SchemaInit
<1>a. \A p \in Openers :
        scOpener[p].at = 1 /\ scOpener[p].found = "unread" /\ scOpener[p].state = "closed"
  BY <1>1
<1>2. SchemaTypes
  <2>1. [at |-> 1, found |-> "unread", state |-> "closed"] \in OpenerType
    BY DEF OpenerType, FoundWhat, OpenerStates
  <2>2. \A p \in Openers : scOpener[p].at <= Len(Program(p))
    <3>1. \A p \in Openers : Len(Program(p)) \in {7, 13}
      BY ProgramLengths DEF Program
    <3> QED
      BY <1>a, <3>1
  <2> QED
    BY <2>1, <2>2, StoresOfBuilds DEF SchemaInit, SchemaTypes, IsStore
<1>3. \A p \in Openers : GoneFar(p)
  BY <1>a DEF GoneFar
<1>4. NewerKept
  BY <1>a, SchemaConstants DEF NewerKept, SchemaInit
<1> QED
  BY <1>1, <1>2, <1>3, <1>4, StoresOfBuilds, SchemaConstants
  DEF SchemaInv, OpenInv, SchemaInit

(***************************************************************************)
(* MigrationIsSafe: any number of processes that open the store at once, and *)
(* are killed or fail in it, leave a database that is complete as soon as it *)
(* says it is of this version, that every opener of this build can write,    *)
(* that has lost nothing, and that is untouched if a newer build left it     *)
(* (ensureSchema and its Python port).                                     *)
(***************************************************************************)
THEOREM MigrationIsSafe == SchemaSpec => []MigrationHolds
<1>1. SchemaInv => MigrationHolds
  BY DEF SchemaInv, OpenInv, NewerKept, GoneFar, MigrationHolds
<1>2. SchemaInv /\ [SchemaNext]_schemaVars => SchemaInv'
  BY SchemaTypesStep, OpenInvStep DEF SchemaInv
<1> QED
  BY <1>1, <1>2, SchemaInitInv, PTL DEF SchemaSpec

(***************************************************************************)
(* The sync to Postgres                                                    *)
(***************************************************************************)
StepOutcomes == {"pending", "ok"}
RunStatuses == {"none", "in_progress", "ok"}
LocalStep == [id : Nat, outcome : StepOutcomes]
LocalRun == [origin : Nat, status : RunStatuses, steps : Seq(LocalStep)]
RemoteStep == [id : Nat, run : Nat, seq : Int, outcome : StepOutcomes]
SyncStates ==
  {"idle", "next", "project", "agent", "run", "list", "step", "blobs", "refused", "done"}
RunToSync == [run : Nat, status : RunStatuses]
Sync ==
  [at : SyncStates, left : Seq(RunToSync), run : Nat, row : RunStatuses, steps : Seq(RemoteStep),
   refs : SUBSET (Nat \X {"decision", "result"}), calm : BOOLEAN]
Remote ==
  [known : SUBSET {"project", "agent"}, runs : SUBSET [id : Nat, origin : Nat, status : RunStatuses],
   steps : SUBSET RemoteStep, blobs : SUBSET (Nat \X {"decision", "result"})]

SyncTypes ==
  /\ pgLocal \in Seq(LocalRun) /\ pgWork \in Nat
  /\ pgRemote \in Remote /\ pgSync \in Sync

(* The name of a step is never another's: not in the store, not in Postgres, *)
(* not in the list of the sync.                                             *)
StepsOf(r) == pgLocal[r].steps
NameOf(id, run) ==
  /\ id < pgWork
  /\ \A r \in DOMAIN pgLocal : \A i \in DOMAIN StepsOf(r) : StepsOf(r)[i].id = id => r = run

Working == pgSync.at \in {"project", "agent", "run", "list", "step", "blobs", "refused"}
Listed == pgSync.at \in {"step", "blobs"}

LocalNames ==
  \A r \in DOMAIN pgLocal : \A i \in DOMAIN StepsOf(r) :
    /\ NameOf(StepsOf(r)[i].id, r)
    /\ \A j \in DOMAIN StepsOf(r) : StepsOf(r)[i].id = StepsOf(r)[j].id => i = j
RemoteNames == \A row \in pgRemote.steps : NameOf(row.id, row.run)
SyncNames ==
  /\ \A k \in DOMAIN pgSync.left : pgSync.left[k].run \in DOMAIN pgLocal
  /\ Working => pgSync.run \in DOMAIN pgLocal
  /\ Listed => \A i \in DOMAIN pgSync.steps :
                 pgSync.steps[i].run = pgSync.run /\ NameOf(pgSync.steps[i].id, pgSync.run)

(* How far a sync is that nothing local has overtaken.                       *)
RowIsThere(r) ==
  [id |-> r, origin |-> pgLocal[r].origin, status |-> pgLocal[r].status] \in pgRemote.runs
StepIsThere(r, step) ==
  \E row \in pgRemote.steps : row.id = step.id /\ row.run = r /\ row.outcome = step.outcome
RunIsThere(r) ==
  /\ RowIsThere(r)
  /\ \A step \in ToSet(StepsOf(r)) : StepIsThere(r, step) /\ StepRefs(step) \subseteq pgRemote.blobs

InWindow(r) == r > Len(pgLocal) - PgLimit
Awaits(r) == \E k \in DOMAIN pgSync.left : pgSync.left[k].run = r

SyncReads ==
  /\ \A k \in DOMAIN pgSync.left : pgSync.left[k].status = pgLocal[pgSync.left[k].run].status
  /\ Working => pgSync.row = pgLocal[pgSync.run].status
  /\ Listed => \A i \in DOMAIN pgSync.steps : \E step \in ToSet(StepsOf(pgSync.run)) :
                 step.id = pgSync.steps[i].id /\ step.outcome = pgSync.steps[i].outcome
RunUnderWay ==
  /\ pgSync.at \in {"list", "step", "blobs"} => RowIsThere(pgSync.run)
  /\ Listed => \A step \in ToSet(StepsOf(pgSync.run)) :
                 \/ \E i \in DOMAIN pgSync.steps : pgSync.steps[i].id = step.id
                 \/ StepIsThere(pgSync.run, step)
                    /\ StepRefs(step) \subseteq pgRemote.blobs \union pgSync.refs
WindowAccounted ==
  \A r \in DOMAIN pgLocal : InWindow(r) =>
    Awaits(r) \/ (Working /\ pgSync.run = r) \/ RunIsThere(r)

CalmSync ==
  pgSync.calm =>
    /\ SyncReads /\ RunUnderWay /\ WindowAccounted
    /\ pgSync.at = "done" => pgSync.left = <<>>

SyncInv ==
  /\ SyncTypes /\ LocalNames /\ RemoteNames /\ SyncNames /\ CalmSync
  /\ pgSync.at # "blobs" => pgSync.refs = {}

-----------------------------------------------------------------------------
LEMMA LocalRuns ==
  ASSUME SyncTypes, NEW r \in DOMAIN pgLocal
  PROVE  /\ pgLocal[r] \in LocalRun /\ r \in Nat /\ r # 0
         /\ StepsOf(r) \in Seq(LocalStep) /\ Len(StepsOf(r)) \in Nat
         /\ DOMAIN StepsOf(r) = 1..Len(StepsOf(r))
         /\ \A i \in DOMAIN StepsOf(r) : StepsOf(r)[i] \in LocalStep /\ StepsOf(r)[i].id \in Nat
<1>1. pgLocal \in Seq(LocalRun) /\ DOMAIN pgLocal = 1..Len(pgLocal) /\ Len(pgLocal) \in Nat
  BY DEF SyncTypes
<1>2. pgLocal[r] \in LocalRun /\ r \in Nat /\ r # 0
  BY <1>1, ElementOfSeq
<1>3. StepsOf(r) \in Seq(LocalStep)
  BY <1>2 DEF LocalRun, StepsOf
<1>4. \A i \in DOMAIN StepsOf(r) : StepsOf(r)[i] \in LocalStep
  BY <1>3, ElementOfSeq
<1> QED
  BY <1>2, <1>3, <1>4 DEF LocalStep

(* A change of the store leaves names to their steps; q may get the next one.  *)
NamesKept(local, q) ==
  \A r \in DOMAIN local : \A i \in DOMAIN local[r].steps :
    /\ \/ r \in DOMAIN pgLocal /\ \E j \in DOMAIN StepsOf(r) : StepsOf(r)[j].id = local[r].steps[i].id
       \/ r = q /\ local[r].steps[i].id = pgWork
    /\ \A j \in DOMAIN local[r].steps : local[r].steps[i].id = local[r].steps[j].id => i = j

(* Whatever the store does, a new step has a new name and the others keep theirs. *)
LEMMA LocalGoesOn ==
  ASSUME SyncInv, NEW local, PgLocally(local), local \in Seq(LocalRun),
         DOMAIN pgLocal \subseteq DOMAIN local, NEW q, NamesKept(local, q)
  PROVE  SyncInv'
<1>1. /\ pgLocal' = local /\ pgWork' = pgWork + 1 /\ pgWork \in Nat /\ pgRemote' = pgRemote
      /\ pgSync' = [pgSync EXCEPT !.calm = FALSE] /\ pgSync \in Sync
  BY DEF SyncInv, SyncTypes, PgLocally
<1>2. /\ pgSync' \in Sync /\ pgSync'.at = pgSync.at /\ pgSync'.left = pgSync.left
      /\ pgSync'.run = pgSync.run /\ pgSync'.steps = pgSync.steps /\ pgSync'.refs = pgSync.refs
      /\ ~pgSync'.calm
  BY <1>1 DEF Sync
<1>3. SyncTypes'
  BY <1>1, <1>2 DEF SyncInv, SyncTypes
<1>4. ASSUME NEW id \in Nat, NEW run, NameOf(id, run)
      PROVE  NameOf(id, run)'
  <2>1. id < pgWork' /\ id # pgWork
    BY <1>1, <1>4 DEF NameOf
  <2>2. ASSUME NEW r \in DOMAIN local, NEW i \in DOMAIN local[r].steps, local[r].steps[i].id = id
        PROVE  r = run
    BY <1>4, <2>1, <2>2 DEF NameOf, NamesKept
  <2> QED
    BY <1>1, <2>1, <2>2 DEF NameOf, StepsOf
<1>5. ASSUME NEW r \in DOMAIN local, NEW i \in DOMAIN local[r].steps
      PROVE  NameOf(local[r].steps[i].id, r)'
  <2> USE DEF NamesKept
  <2>1. CASE r \in DOMAIN pgLocal /\ \E j \in DOMAIN StepsOf(r) : StepsOf(r)[j].id = local[r].steps[i].id
    <3>1. PICK j \in DOMAIN StepsOf(r) : StepsOf(r)[j].id = local[r].steps[i].id
      BY <2>1
    <3>2. local[r].steps[i].id \in Nat
      BY <2>1, <3>1, LocalRuns DEF SyncInv
    <3>3. NameOf(local[r].steps[i].id, r)
      BY <2>1, <3>1 DEF SyncInv, LocalNames
    <3> QED
      BY <1>4, <3>2, <3>3
  <2>2. CASE r = q /\ local[r].steps[i].id = pgWork
    <3>1. ASSUME NEW o \in DOMAIN local, NEW j \in DOMAIN local[o].steps, local[o].steps[j].id = pgWork
          PROVE  o = r
      <4>1. CASE o \in DOMAIN pgLocal /\ \E k \in DOMAIN StepsOf(o) : StepsOf(o)[k].id = pgWork
        <5>1. PICK k \in DOMAIN StepsOf(o) : StepsOf(o)[k].id = pgWork
          BY <4>1
        <5>2. pgWork < pgWork
          BY <4>1, <5>1 DEF SyncInv, LocalNames, NameOf
        <5> QED
          BY <1>1, <5>2
      <4> QED
        BY <2>2, <3>1, <4>1
    <3> QED
      BY <1>1, <2>2, <3>1 DEF NameOf, StepsOf
  <2> QED
    BY <2>1, <2>2
<1>6. LocalNames'
  BY <1>1, <1>5 DEF LocalNames, StepsOf, NamesKept
<1>7. RemoteNames'
  <2>1. ASSUME NEW row \in pgRemote.steps PROVE row.id \in Nat /\ NameOf(row.id, row.run)
    BY DEF SyncInv, SyncTypes, Remote, RemoteStep, RemoteNames
  <2> QED
    BY <1>1, <1>4, <2>1 DEF RemoteNames
<1>8. SyncNames'
  <2>1. ASSUME NEW i \in DOMAIN pgSync.steps PROVE pgSync.steps[i].id \in Nat
    <3>1. pgSync.steps \in Seq(RemoteStep)
      BY <1>1 DEF Sync
    <3>2. pgSync.steps[i] \in RemoteStep
      BY <3>1, ElementOfSeq
    <3> QED
      BY <3>2 DEF RemoteStep
  <2>2. SyncNames
    BY DEF SyncInv
  <2>3. ASSUME Listed, NEW i \in DOMAIN pgSync.steps
        PROVE  pgSync.steps[i].run = pgSync.run /\ NameOf(pgSync.steps[i].id, pgSync.run)'
    <3>1. pgSync.steps[i].run = pgSync.run /\ NameOf(pgSync.steps[i].id, pgSync.run)
      BY <2>2, <2>3 DEF SyncNames
    <3>2. pgSync'.steps[i].id = pgSync.steps[i].id /\ pgSync'.run = pgSync.run /\ pgSync.steps[i].id \in Nat
      BY <1>2, <2>1
    <3> QED
      BY <1>4, <3>1, <3>2
  <2> QED
    BY <1>1, <1>2, <2>2, <2>3 DEF SyncNames, Working, Listed
<1> QED
  BY <1>2, <1>3, <1>6, <1>7, <1>8 DEF SyncInv, CalmSync

LEMMA RunStartsKeeps == SyncInv /\ PgRunStarts => SyncInv'
<1> SUFFICES ASSUME SyncInv, PgRunStarts PROVE SyncInv'
  OBVIOUS
<1>1. PICK origin \in 0..Len(pgLocal) :
        PgLocally(Append(pgLocal, [origin |-> origin, status |-> "in_progress", steps |-> <<>>]))
  BY DEF PgRunStarts
<1> DEFINE run == [origin |-> origin, status |-> "in_progress", steps |-> <<>>]
           local == Append(pgLocal, run)
<1>2. pgLocal \in Seq(LocalRun) /\ Len(pgLocal) \in Nat
  BY DEF SyncInv, SyncTypes
<1>3. run \in LocalRun /\ run.steps = <<>>
  BY <1>2, EmptySeq DEF LocalRun, RunStatuses
<1> HIDE DEF run
<1>4. /\ local \in Seq(LocalRun) /\ DOMAIN pgLocal \subseteq DOMAIN local
      /\ \A r \in DOMAIN local : (r \in DOMAIN pgLocal /\ local[r] = pgLocal[r]) \/ local[r] = run
  BY <1>2, <1>3, AppendProperties
<1> HIDE DEF local
<1>5. ASSUME NEW r \in DOMAIN local, NEW i \in DOMAIN local[r].steps
      PROVE  /\ \/ r \in DOMAIN pgLocal /\ \E j \in DOMAIN StepsOf(r) : StepsOf(r)[j].id = local[r].steps[i].id
                \/ r = 0 /\ local[r].steps[i].id = pgWork
             /\ \A j \in DOMAIN local[r].steps : local[r].steps[i].id = local[r].steps[j].id => i = j
  <2>1. r \in DOMAIN pgLocal /\ local[r].steps = StepsOf(r)
    BY <1>3, <1>4 DEF StepsOf
  <2> QED
    BY <2>1 DEF SyncInv, LocalNames
<1>6. PgLocally(local)
  BY <1>1 DEF local, run
<1>7. NamesKept(local, 0)
  BY <1>5 DEF NamesKept
<1> QED
  BY <1>4, <1>6, <1>7, LocalGoesOn

(* One run goes on, with the steps it had and at most one more.               *)
LEMMA RunGoesOn ==
  ASSUME SyncInv, NEW q \in DOMAIN pgLocal, NEW run \in LocalRun,
         PgLocally([pgLocal EXCEPT ![q] = run]),
         \A i \in DOMAIN run.steps :
           /\ \/ \E j \in DOMAIN StepsOf(q) : StepsOf(q)[j].id = run.steps[i].id
              \/ run.steps[i].id = pgWork
           /\ \A j \in DOMAIN run.steps : run.steps[i].id = run.steps[j].id => i = j
  PROVE  SyncInv'
<1> DEFINE local == [pgLocal EXCEPT ![q] = run]
<1>1. pgLocal \in Seq(LocalRun)
  BY DEF SyncInv, SyncTypes
<1>2. /\ local \in Seq(LocalRun) /\ DOMAIN local = DOMAIN pgLocal
      /\ \A r \in DOMAIN local : local[r] = IF r = q THEN run ELSE pgLocal[r]
  BY <1>1, ExceptSeq
<1> HIDE DEF local
<1>3. ASSUME NEW r \in DOMAIN local, NEW i \in DOMAIN local[r].steps
      PROVE  /\ \/ r \in DOMAIN pgLocal /\ \E j \in DOMAIN StepsOf(r) : StepsOf(r)[j].id = local[r].steps[i].id
                \/ r = q /\ local[r].steps[i].id = pgWork
             /\ \A j \in DOMAIN local[r].steps : local[r].steps[i].id = local[r].steps[j].id => i = j
  <2>1. CASE r = q
    BY <1>2, <2>1
  <2>2. CASE r # q
    <3>1. r \in DOMAIN pgLocal /\ local[r].steps = StepsOf(r)
      BY <1>2, <2>2 DEF StepsOf
    <3> QED
      BY <3>1 DEF SyncInv, LocalNames
  <2> QED
    BY <2>1, <2>2
<1>4. PgLocally(local) /\ DOMAIN pgLocal \subseteq DOMAIN local
  BY <1>2 DEF local
<1>5. NamesKept(local, q)
  BY <1>3 DEF NamesKept
<1> QED
  BY <1>2, <1>4, <1>5, LocalGoesOn

LEMMA RunEndsKeeps == SyncInv /\ PgRunEnds => SyncInv'
<1> SUFFICES ASSUME SyncInv, PgRunEnds PROVE SyncInv'
  OBVIOUS
<1>1. PICK q \in DOMAIN pgLocal : PgLocally([pgLocal EXCEPT ![q].status = "ok"])
  BY DEF PgRunEnds
<1> DEFINE run == [pgLocal[q] EXCEPT !.status = "ok"]
<1>2. pgLocal[q] \in LocalRun
  BY LocalRuns DEF SyncInv
<1>3. run \in LocalRun /\ run.steps = StepsOf(q)
  BY <1>2 DEF LocalRun, RunStatuses, StepsOf
<1>4. PgLocally([pgLocal EXCEPT ![q] = run])
  BY <1>1
<1> HIDE DEF run
<1> QED
  BY <1>3, <1>4, RunGoesOn DEF SyncInv, LocalNames

(* The steps of a run, and the run with them.                               *)
LEMMA WithSteps ==
  ASSUME SyncTypes, NEW q \in DOMAIN pgLocal, NEW steps \in Seq(LocalStep)
  PROVE  [pgLocal[q] EXCEPT !.steps = steps] \in LocalRun /\ [pgLocal[q] EXCEPT !.steps = steps].steps = steps
<1>1. pgLocal[q] \in LocalRun
  BY LocalRuns
<1> QED
  BY <1>1 DEF LocalRun

LEMMA StepComesKeeps == SyncInv /\ PgStepComes => SyncInv'
<1> SUFFICES ASSUME SyncInv, PgStepComes PROVE SyncInv'
  OBVIOUS
<1>1. PICK q \in DOMAIN pgLocal :
        PgLocally([pgLocal EXCEPT ![q].steps = Append(@, [id |-> pgWork, outcome |-> "pending"])])
  BY DEF PgStepComes
<1> DEFINE step == [id |-> pgWork, outcome |-> "pending"]
           steps == Append(StepsOf(q), step)
           run == [pgLocal[q] EXCEPT !.steps = steps]
<1>2. StepsOf(q) \in Seq(LocalStep) /\ Len(StepsOf(q)) \in Nat /\ pgWork \in Nat
  BY LocalRuns DEF SyncInv, SyncTypes
<1>3. step \in LocalStep /\ step.id = pgWork
  BY <1>2 DEF LocalStep, StepOutcomes
<1>4. PgLocally([pgLocal EXCEPT ![q] = run])
  BY <1>1 DEF StepsOf
<1> HIDE DEF step
<1>5. /\ steps \in Seq(LocalStep) /\ DOMAIN steps = 1..(Len(StepsOf(q)) + 1)
      /\ \A i \in DOMAIN steps : IF i \in DOMAIN StepsOf(q) THEN steps[i] = StepsOf(q)[i]
                                 ELSE i = Len(StepsOf(q)) + 1 /\ steps[i] = step
  BY <1>2, <1>3, AppendProperties
<1> HIDE DEF steps
<1>6. run \in LocalRun /\ run.steps = steps
  BY <1>5, WithSteps DEF SyncInv
<1> HIDE DEF run
<1>7. \A i \in DOMAIN StepsOf(q) : StepsOf(q)[i].id # pgWork
  <2>1. \A i \in DOMAIN StepsOf(q) : StepsOf(q)[i].id < pgWork
    BY DEF SyncInv, LocalNames, NameOf
  <2> QED
    BY <1>2, <2>1
<1>8. ASSUME NEW i \in DOMAIN steps
      PROVE  /\ \/ \E j \in DOMAIN StepsOf(q) : StepsOf(q)[j].id = steps[i].id
                \/ steps[i].id = pgWork
             /\ \A j \in DOMAIN steps : steps[i].id = steps[j].id => i = j
  <2>1. \A k, j \in DOMAIN StepsOf(q) : StepsOf(q)[k].id = StepsOf(q)[j].id => k = j
    BY DEF SyncInv, LocalNames
  <2> QED
    BY <1>3, <1>5, <1>7, <2>1
<1> QED
  BY <1>4, <1>6, <1>8, RunGoesOn

LEMMA StepCompletesKeeps == SyncInv /\ PgStepCompletes => SyncInv'
<1> SUFFICES ASSUME SyncInv, PgStepCompletes PROVE SyncInv'
  OBVIOUS
<1>1. PICK q \in DOMAIN pgLocal : \E k \in DOMAIN pgLocal[q].steps :
        PgLocally([pgLocal EXCEPT ![q].steps[k].outcome = "ok"])
  BY DEF PgStepCompletes
<1>0. PICK k \in DOMAIN pgLocal[q].steps :
        PgLocally([pgLocal EXCEPT ![q].steps[k].outcome = "ok"])
  BY <1>1
<1> DEFINE step == [StepsOf(q)[k] EXCEPT !.outcome = "ok"]
           steps == [StepsOf(q) EXCEPT ![k] = step]
           run == [pgLocal[q] EXCEPT !.steps = steps]
<1>2. StepsOf(q) \in Seq(LocalStep) /\ k \in DOMAIN StepsOf(q) /\ StepsOf(q)[k] \in LocalStep
  BY LocalRuns DEF SyncInv, StepsOf
<1>3. step \in LocalStep /\ step.id = StepsOf(q)[k].id
  BY <1>2 DEF LocalStep, StepOutcomes
<1>4. PgLocally([pgLocal EXCEPT ![q] = run])
  BY <1>0 DEF StepsOf
<1> HIDE DEF step
<1>5. /\ steps \in Seq(LocalStep) /\ DOMAIN steps = DOMAIN StepsOf(q)
      /\ \A i \in DOMAIN steps : steps[i] = IF i = k THEN step ELSE StepsOf(q)[i]
  BY <1>2, <1>3, ExceptSeq
<1> HIDE DEF steps
<1>6. run \in LocalRun /\ run.steps = steps
  BY <1>5, WithSteps DEF SyncInv
<1> HIDE DEF run
<1>7. \A i \in DOMAIN steps : steps[i].id = StepsOf(q)[i].id
  BY <1>3, <1>5
<1> QED
  BY <1>4, <1>5, <1>6, <1>7, RunGoesOn DEF SyncInv, LocalNames

LEMMA StepGoesKeeps == SyncInv /\ PgStepGoes => SyncInv'
<1> SUFFICES ASSUME SyncInv, PgStepGoes PROVE SyncInv'
  OBVIOUS
<1>1. PICK q \in DOMAIN pgLocal : \E k \in DOMAIN pgLocal[q].steps :
        PgLocally([pgLocal EXCEPT ![q].steps = RemoveAt(@, k)])
  BY DEF PgStepGoes
<1>0. PICK k \in DOMAIN pgLocal[q].steps :
        PgLocally([pgLocal EXCEPT ![q].steps = RemoveAt(@, k)])
  BY <1>1
<1> DEFINE old == StepsOf(q)
           steps == RemoveAt(old, k)
           run == [pgLocal[q] EXCEPT !.steps = steps]
<1>2. old \in Seq(LocalStep) /\ Len(old) \in Nat /\ k \in 1..Len(old) /\ DOMAIN old = 1..Len(old)
  BY LocalRuns DEF SyncInv, StepsOf
<1>3. PgLocally([pgLocal EXCEPT ![q] = run])
  BY <1>0 DEF StepsOf
<1> HIDE DEF old
<1>4. /\ SubSeq(old, 1, k - 1) \in Seq(LocalStep) /\ Len(SubSeq(old, 1, k - 1)) = k - 1
      /\ \A i \in 1..(k - 1) : SubSeq(old, 1, k - 1)[i] = old[i]
  BY <1>2, SubSeqProperties
<1>5. /\ SubSeq(old, k + 1, Len(old)) \in Seq(LocalStep)
      /\ Len(SubSeq(old, k + 1, Len(old))) = Len(old) - k
      /\ \A i \in 1..(Len(old) - k) : SubSeq(old, k + 1, Len(old))[i] = old[k + i]
  BY <1>2, SubSeqProperties
<1>6. /\ steps \in Seq(LocalStep) /\ DOMAIN steps = 1..(Len(old) - 1)
      /\ \A i \in DOMAIN steps : steps[i] = old[IF i < k THEN i ELSE i + 1]
  <2> DEFINE front == SubSeq(old, 1, k - 1)
             back == SubSeq(old, k + 1, Len(old))
  <2>1. /\ front \in Seq(LocalStep) /\ Len(front) = k - 1 /\ \A i \in 1..(k - 1) : front[i] = old[i]
        /\ back \in Seq(LocalStep) /\ Len(back) = Len(old) - k
        /\ \A i \in 1..(Len(old) - k) : back[i] = old[k + i]
    BY <1>4, <1>5
  <2>2. steps = front \o back
    BY DEF RemoveAt
  <2> HIDE DEF front, back, steps
  <2>3. /\ steps \in Seq(LocalStep) /\ Len(steps) = Len(front) + Len(back)
        /\ \A i \in 1..Len(steps) : steps[i] = IF i <= Len(front) THEN front[i] ELSE back[i - Len(front)]
    <3>1. front \in Seq(LocalStep) /\ back \in Seq(LocalStep)
      BY <2>1
    <3>2. /\ front \o back \in Seq(LocalStep) /\ Len(front \o back) = Len(front) + Len(back)
          /\ \A i \in 1..Len(front) + Len(back) :
               (front \o back)[i] = IF i <= Len(front) THEN front[i] ELSE back[i - Len(front)]
      BY ONLY <3>1, ConcatProperties, Zenon
    <3> QED
      BY ONLY <2>2, <3>2, Zenon
  <2>4. DOMAIN steps = 1..(Len(old) - 1) /\ Len(steps) = Len(old) - 1
    BY <1>2, <2>1, <2>3
  <2>5. ASSUME NEW i \in DOMAIN steps
        PROVE  steps[i] = old[IF i < k THEN i ELSE i + 1]
    <3>1. CASE i < k
      BY <1>2, <2>1, <2>3, <2>4, <3>1
    <3>2. CASE ~ (i < k)
      <4>1. steps[i] = back[i - (k - 1)] /\ i - (k - 1) \in 1..(Len(old) - k)
        BY <1>2, <2>1, <2>3, <2>4, <3>2
      <4>2. k + (i - (k - 1)) = i + 1
        BY <1>2, <2>4
      <4> QED
        BY <2>1, <3>2, <4>1, <4>2
    <3> QED
      BY <3>1, <3>2
  <2> QED
    BY <2>3, <2>4, <2>5
<1> HIDE DEF steps
<1>7. run \in LocalRun /\ run.steps = steps
  BY <1>6, WithSteps DEF SyncInv
<1> HIDE DEF run
<1>8. \A i, j \in DOMAIN old : old[i].id = old[j].id => i = j
  BY DEF SyncInv, LocalNames, old
<1>9. ASSUME NEW i \in DOMAIN steps
      PROVE  /\ \E j \in DOMAIN old : old[j].id = steps[i].id
             /\ \A j \in DOMAIN steps : steps[i].id = steps[j].id => i = j
  BY <1>2, <1>6, <1>8
<1> QED
  BY <1>3, <1>7, <1>9, RunGoesOn DEF old

-----------------------------------------------------------------------------
(* The steps of a sync.  What was copied stays copied while a sync nothing   *)
(* has overtaken goes on.                                                  *)
LEMMA SyncGoesOn ==
  ASSUME SyncInv, UNCHANGED <<pgLocal, pgWork>>, SyncTypes', Working, Working',
         pgSync'.left = pgSync.left, pgSync'.run = pgSync.run, pgSync'.row = pgSync.row,
         pgSync'.calm = pgSync.calm, RemoteNames',
         Listed' => \A i \in DOMAIN pgSync'.steps :
                      pgSync'.steps[i].run = pgSync.run /\ NameOf(pgSync'.steps[i].id, pgSync.run),
         pgSync.calm /\ Listed' => \A i \in DOMAIN pgSync'.steps : \E step \in ToSet(StepsOf(pgSync.run)) :
           step.id = pgSync'.steps[i].id /\ step.outcome = pgSync'.steps[i].outcome,
         pgSync.calm => \A r \in DOMAIN pgLocal : RunIsThere(r) => RunIsThere(r)',
         pgSync.calm => RunUnderWay', pgSync'.at # "blobs" => pgSync'.refs = {}
  PROVE  SyncInv'
<1>1. pgLocal' = pgLocal /\ pgWork' = pgWork
  OBVIOUS
<1>2. LocalNames'
  BY <1>1 DEF SyncInv, LocalNames, NameOf, StepsOf
<1>3. SyncNames'
  BY <1>1 DEF SyncInv, SyncNames, NameOf, StepsOf
<1>4. ASSUME pgSync.calm PROVE SyncReads'
  BY <1>1, <1>4 DEF SyncInv, CalmSync, SyncReads, StepsOf
<1>5. ASSUME pgSync.calm PROVE WindowAccounted'
  BY <1>1, <1>5 DEF SyncInv, CalmSync, WindowAccounted, InWindow, Awaits
<1>6. pgSync'.at # "done"
  BY DEF Working
<1> QED
  BY <1>2, <1>3, <1>4, <1>5, <1>6 DEF SyncInv, CalmSync

LEMMA UpsertKeeps == SyncInv /\ PgUpsert /\ UNCHANGED <<pgLocal, pgWork>> => SyncInv'
<1> SUFFICES ASSUME SyncInv, PgUpsert, UNCHANGED <<pgLocal, pgWork>> PROVE SyncInv'
  OBVIOUS
<1>1. pgSync \in Sync /\ pgRemote \in Remote /\ pgSync.at \in {"project", "agent"} /\ pgSync.refs = {}
  BY DEF SyncInv, SyncTypes, PgUpsert
<1>2. /\ pgSync' \in Sync /\ pgSync'.at \in {"agent", "run"} /\ pgSync'.left = pgSync.left
      /\ pgSync'.run = pgSync.run /\ pgSync'.row = pgSync.row /\ pgSync'.calm = pgSync.calm
      /\ pgSync'.refs = {}
  BY <1>1 DEF PgUpsert, PgAt, Sync, SyncStates
<1>3. /\ pgRemote' \in Remote /\ pgRemote'.runs = pgRemote.runs
      /\ pgRemote'.steps = pgRemote.steps /\ pgRemote'.blobs = pgRemote.blobs
  BY <1>1 DEF PgUpsert, Remote
<1>4. SyncTypes' /\ RemoteNames' /\ ~Listed' /\ Working /\ Working'
  BY <1>1, <1>2, <1>3 DEF SyncInv, SyncTypes, RemoteNames, NameOf, StepsOf, Listed, Working
<1>5. \A r \in DOMAIN pgLocal : RunIsThere(r) => RunIsThere(r)'
  BY <1>3 DEF RunIsThere, RowIsThere, StepIsThere, StepsOf
<1>6. RunUnderWay'
  BY <1>2, <1>4 DEF RunUnderWay
<1> QED
  BY <1>2, <1>4, <1>5, <1>6, SyncGoesOn

LEMMA InsertRunKeeps == SyncInv /\ PgInsertRun /\ UNCHANGED <<pgLocal, pgWork>> => SyncInv'
<1> SUFFICES ASSUME SyncInv, PgInsertRun, UNCHANGED <<pgLocal, pgWork>> PROVE SyncInv'
  OBVIOUS
<1> DEFINE id == pgSync.run
           row == [id |-> id, origin |-> pgLocal[id].origin, status |-> pgSync.row]
<1>1. /\ pgSync \in Sync /\ pgRemote \in Remote /\ pgSync.at = "run" /\ pgSync.refs = {}
      /\ Working /\ id \in DOMAIN pgLocal
  BY DEF SyncInv, SyncTypes, PgInsertRun, Working, SyncNames
<1>2. row \in [id : Nat, origin : Nat, status : RunStatuses]
  <2>1. pgLocal[id].origin \in Nat /\ id \in Nat
    BY <1>1, LocalRuns DEF SyncInv, LocalRun
  <2> QED
    BY <1>1, <2>1 DEF Sync
<1>3. \/ pgSync'.at = "refused" /\ pgRemote' = pgRemote
      \/ /\ pgSync'.at = "list"
         /\ pgRemote' = [pgRemote EXCEPT !.runs = {other \in @ : other.id # id} \union {row}]
  BY <1>1 DEF PgInsertRun, PgRefused, PgAt, Sync
<1>4. /\ pgSync' \in Sync /\ pgSync'.left = pgSync.left
      /\ pgSync'.run = pgSync.run /\ pgSync'.row = pgSync.row /\ pgSync'.calm = pgSync.calm
      /\ pgSync'.refs = {}
  BY <1>1 DEF PgInsertRun, PgRefused, PgAt, Sync, SyncStates
<1> HIDE DEF row
<1>5. /\ pgRemote' \in Remote /\ pgRemote'.steps = pgRemote.steps /\ pgRemote'.blobs = pgRemote.blobs
      /\ \/ pgSync'.at = "refused" /\ pgRemote'.runs = pgRemote.runs
         \/ /\ pgSync'.at = "list"
            /\ pgRemote'.runs = {other \in pgRemote.runs : other.id # id} \union {row}
  BY <1>1, <1>2, <1>3 DEF Remote
<1>6. SyncTypes' /\ RemoteNames' /\ ~Listed' /\ Working'
  BY <1>4, <1>5 DEF SyncInv, SyncTypes, RemoteNames, NameOf, StepsOf, Listed, Working
<1>7. pgSync.calm => row = [id |-> id, origin |-> pgLocal[id].origin, status |-> pgLocal[id].status]
  BY <1>1 DEF SyncInv, CalmSync, SyncReads, row
<1>8. ASSUME pgSync.calm, NEW r \in DOMAIN pgLocal, RunIsThere(r) PROVE RunIsThere(r)'
  <2>1. RowIsThere(r)'
    <3> DEFINE own == [id |-> r, origin |-> pgLocal[r].origin, status |-> pgLocal[r].status]
    <3>1. own \in pgRemote.runs /\ own.id = r /\ (r = id => own = row)
      BY <1>7, <1>8 DEF RunIsThere, RowIsThere
    <3> HIDE DEF own
    <3>2. own \in pgRemote'.runs
      BY <1>5, <3>1
    <3> QED
      BY <3>2 DEF RowIsThere, own
  <2> QED
    BY <1>5, <1>8, <2>1 DEF RunIsThere, StepIsThere, StepsOf
<1>9. ASSUME pgSync.calm PROVE RunUnderWay'
  BY <1>4, <1>5, <1>6, <1>7, <1>9 DEF RunUnderWay, RowIsThere
<1> QED
  BY <1>1, <1>4, <1>6, <1>8, <1>9, SyncGoesOn

LEMMA ListStepsKeeps == SyncInv /\ PgListSteps /\ UNCHANGED <<pgLocal, pgWork>> => SyncInv'
<1> SUFFICES ASSUME SyncInv, PgListSteps, UNCHANGED <<pgLocal, pgWork>> PROVE SyncInv'
  OBVIOUS
<1> DEFINE q == pgSync.run
           asRow(i) == [id |-> StepsOf(q)[i].id, run |-> q, seq |-> i - 1, outcome |-> StepsOf(q)[i].outcome]
           rows == [i \in DOMAIN StepsOf(q) |-> asRow(i)]
<1>1. /\ pgSync \in Sync /\ pgRemote \in Remote /\ pgSync.at = "list" /\ pgSync.refs = {}
      /\ Working /\ q \in DOMAIN pgLocal /\ pgRemote' = pgRemote
  BY DEF SyncInv, SyncTypes, PgListSteps, Working, SyncNames
<1>2. /\ DOMAIN StepsOf(q) = 1..Len(StepsOf(q)) /\ Len(StepsOf(q)) \in Nat /\ q \in Nat
      /\ \A i \in DOMAIN StepsOf(q) : StepsOf(q)[i] \in LocalStep
  BY <1>1, LocalRuns DEF SyncInv
<1>3. \A i \in DOMAIN StepsOf(q) : asRow(i) \in RemoteStep
  BY <1>2 DEF LocalStep, RemoteStep
<1>4. \A i \in DOMAIN StepsOf(q) : /\ asRow(i).id = StepsOf(q)[i].id /\ asRow(i).run = q
                                   /\ asRow(i).outcome = StepsOf(q)[i].outcome
  OBVIOUS
<1>5. pgSync' = [pgSync EXCEPT !.at = "step", !.steps = rows]
  BY DEF PgListSteps, StepsOf
<1> HIDE DEF asRow
<1>6. /\ rows \in Seq(RemoteStep) /\ DOMAIN rows = DOMAIN StepsOf(q)
      /\ \A i \in DOMAIN rows : rows[i] = asRow(i)
  BY <1>2, <1>3, IsASeq
<1> HIDE DEF rows
<1>7. /\ pgSync' \in Sync /\ pgSync'.at = "step" /\ pgSync'.left = pgSync.left
      /\ pgSync'.run = q /\ pgSync'.row = pgSync.row /\ pgSync'.calm = pgSync.calm
      /\ pgSync'.refs = {} /\ pgSync'.steps = rows
  BY <1>1, <1>5, <1>6 DEF Sync, SyncStates
<1>8. SyncTypes' /\ RemoteNames' /\ Working'
  BY <1>1, <1>7 DEF SyncInv, SyncTypes, RemoteNames, NameOf, StepsOf, Working
<1>9. \A i \in DOMAIN rows : rows[i].run = q /\ NameOf(rows[i].id, q)
  BY <1>1, <1>4, <1>6 DEF SyncInv, LocalNames
<1>10. \A i \in DOMAIN rows : \E step \in ToSet(StepsOf(q)) :
         step.id = rows[i].id /\ step.outcome = rows[i].outcome
  BY <1>4, <1>6 DEF ToSet
<1>11. \A r \in DOMAIN pgLocal : RunIsThere(r) => RunIsThere(r)'
  BY <1>1 DEF RunIsThere, RowIsThere, StepIsThere, StepsOf
<1>12. ASSUME pgSync.calm PROVE RunUnderWay'
  <2>1. RowIsThere(q)'
    BY <1>1, <1>7, <1>12 DEF SyncInv, CalmSync, RunUnderWay, RowIsThere
  <2>2. \A step \in ToSet(StepsOf(q)) : \E i \in DOMAIN rows : rows[i].id = step.id
    BY <1>4, <1>6 DEF ToSet
  <2> QED
    BY <1>7, <2>1, <2>2 DEF RunUnderWay, Listed, RowIsThere, StepsOf
<1> QED
  BY <1>1, <1>7, <1>8, <1>9, <1>10, <1>11, <1>12, SyncGoesOn

LEMMA InsertStepKeeps == SyncInv /\ PgInsertStep /\ UNCHANGED <<pgLocal, pgWork>> => SyncInv'
<1> SUFFICES ASSUME SyncInv, PgInsertStep, UNCHANGED <<pgLocal, pgWork>> PROVE SyncInv'
  OBVIOUS
<1> DEFINE q == pgSync.run
           step == Head(pgSync.steps)
           same == {row \in pgRemote.steps : row.id = step.id}
           updated(old) == [old EXCEPT !.outcome = step.outcome]
           table == (pgRemote.steps \ same) \union
                      (IF same = {} THEN {step} ELSE {updated(old) : old \in same})
<1>1. /\ pgSync \in Sync /\ pgRemote \in Remote /\ pgSync.at = "step" /\ pgSync.refs = {}
      /\ Working /\ Listed /\ q \in DOMAIN pgLocal /\ pgSync.steps # <<>>
  BY DEF SyncInv, SyncTypes, PgInsertStep, Working, Listed, SyncNames
<1>2. /\ pgSync.steps \in Seq(RemoteStep) /\ Len(pgSync.steps) \in Nat \ {0}
      /\ DOMAIN pgSync.steps = 1..Len(pgSync.steps) /\ step = pgSync.steps[1]
  BY <1>1, EmptySeq DEF Sync
<1>3. step \in RemoteStep /\ step.id \in Nat /\ step.run = q /\ NameOf(step.id, q)
  <2>1. step \in RemoteStep
    BY <1>2, ElementOfSeq
  <2>2. 1 \in DOMAIN pgSync.steps
    BY <1>2
  <2>3. step.run = q /\ NameOf(step.id, q)
    BY <1>1, <1>2, <2>2 DEF SyncInv, SyncNames
  <2> QED
    BY <2>1, <2>3 DEF RemoteStep
<1>4. /\ Tail(pgSync.steps) \in Seq(RemoteStep)
      /\ DOMAIN Tail(pgSync.steps) = 1..(Len(pgSync.steps) - 1)
      /\ \A i \in DOMAIN Tail(pgSync.steps) :
           i + 1 \in DOMAIN pgSync.steps /\ Tail(pgSync.steps)[i] = pgSync.steps[i + 1]
  BY <1>1, <1>2, HeadTailProperties
<1>5. CASE pgSync'.at = "refused"
  <2>1. pgRemote' = pgRemote /\ pgSync' = [pgSync EXCEPT !.at = "refused"]
    BY <1>1, <1>5 DEF PgInsertStep, PgRefused, PgAt, Sync
  <2>2. /\ pgSync' \in Sync /\ pgSync'.left = pgSync.left /\ pgSync'.run = q
        /\ pgSync'.row = pgSync.row /\ pgSync'.calm = pgSync.calm /\ pgSync'.refs = {}
    BY <1>1, <2>1 DEF Sync, SyncStates
  <2>3. SyncTypes' /\ RemoteNames' /\ ~Listed' /\ Working'
    BY <1>1, <1>5, <2>1, <2>2 DEF SyncInv, SyncTypes, RemoteNames, NameOf, StepsOf, Listed, Working
  <2>4. \A r \in DOMAIN pgLocal : RunIsThere(r) => RunIsThere(r)'
    BY <2>1 DEF RunIsThere, RowIsThere, StepIsThere, StepsOf
  <2>5. RunUnderWay'
    BY <1>5, <2>3 DEF RunUnderWay
  <2> QED
    BY <1>1, <2>2, <2>3, <2>4, <2>5, SyncGoesOn
<1>6. CASE pgSync'.at # "refused"
  <2>1. /\ pgRemote' = [pgRemote EXCEPT !.steps = table]
        /\ pgSync' = [pgSync EXCEPT !.at = "blobs", !.refs = StepRefs(step), !.steps = Tail(@)]
    BY <1>1, <1>6 DEF PgInsertStep, PgRefused, PgAt, Sync, OnStepConflict
  <2>2. ASSUME NEW old \in same
        PROVE  /\ old \in pgRemote.steps /\ updated(old) \in RemoteStep /\ updated(old).id = step.id
               /\ updated(old).run = old.run /\ updated(old).outcome = step.outcome
               /\ NameOf(step.id, old.run)
    <3>1. old \in RemoteStep /\ old.id = step.id /\ old \in pgRemote.steps
      BY <1>1 DEF Remote
    <3>2. NameOf(old.id, old.run)
      BY DEF SyncInv, RemoteNames
    <3> QED
      BY <1>3, <3>1, <3>2 DEF RemoteStep
  <2> DEFINE changed(row) == \/ row \in pgRemote.steps \ same
                             \/ row = step /\ same = {}
                             \/ \E old \in same : row = updated(old)
  <2>3. \A row : row \in table <=> changed(row)
    OBVIOUS
  <2> HIDE DEF updated, table
  <2>4. \A row \in table : row \in RemoteStep /\ NameOf(row.id, row.run)
    <3>1. \A row \in pgRemote.steps : row \in RemoteStep /\ NameOf(row.id, row.run)
      BY <1>1 DEF Remote, SyncInv, RemoteNames
    <3> QED
      BY <1>3, <2>2, <2>3, <3>1
  <2>5. StepRefs(step) \subseteq Nat \X {"decision", "result"}
    BY <1>3 DEF StepRefs
  <2>6. /\ pgRemote' \in Remote /\ pgRemote'.runs = pgRemote.runs /\ pgRemote'.steps = table
        /\ pgRemote'.blobs = pgRemote.blobs
    BY <1>1, <2>1, <2>4 DEF Remote
  <2>7. /\ pgSync' \in Sync /\ pgSync'.at = "blobs" /\ pgSync'.left = pgSync.left
        /\ pgSync'.run = q /\ pgSync'.row = pgSync.row /\ pgSync'.calm = pgSync.calm
        /\ pgSync'.refs = StepRefs(step) /\ pgSync'.steps = Tail(pgSync.steps)
    BY <1>1, <1>4, <2>1, <2>5 DEF Sync, SyncStates
  <2>8. SyncTypes' /\ RemoteNames' /\ Working' /\ Listed'
    BY <2>4, <2>6, <2>7 DEF SyncInv, SyncTypes, RemoteNames, NameOf, StepsOf, Listed, Working
  <2>9. \A i \in DOMAIN Tail(pgSync.steps) :
          Tail(pgSync.steps)[i].run = q /\ NameOf(Tail(pgSync.steps)[i].id, q)
    BY <1>1, <1>4 DEF SyncInv, SyncNames
  <2>10. ASSUME pgSync.calm
         PROVE  \A i \in DOMAIN Tail(pgSync.steps) : \E of \in ToSet(StepsOf(q)) :
                  of.id = Tail(pgSync.steps)[i].id /\ of.outcome = Tail(pgSync.steps)[i].outcome
    BY <1>1, <1>4, <2>10 DEF SyncInv, CalmSync, SyncReads
  <2>11. ASSUME pgSync.calm
         PROVE  \E k \in DOMAIN StepsOf(q) : StepsOf(q)[k].id = step.id /\ StepsOf(q)[k].outcome = step.outcome
    <3>1. 1 \in DOMAIN pgSync.steps
      BY <1>2
    <3> QED
      BY <1>1, <1>2, <2>11, <3>1 DEF SyncInv, CalmSync, SyncReads, ToSet
  <2>12. ASSUME pgSync.calm, NEW old \in same PROVE old.run = q
    BY <1>1, <2>2, <2>11, <2>12 DEF NameOf
  <2>13. ASSUME pgSync.calm, NEW r \in DOMAIN pgLocal, NEW of \in ToSet(StepsOf(r)), StepIsThere(r, of)
         PROVE  StepIsThere(r, of)'
    <3>1. PICK row \in pgRemote.steps : row.id = of.id /\ row.run = r /\ row.outcome = of.outcome
      BY <2>13 DEF StepIsThere
    <3>2. CASE row.id # step.id
      <4>1. row \in table
        BY <2>3, <3>2
      <4> QED
        BY <2>6, <3>1, <4>1 DEF StepIsThere
    <3>3. CASE row.id = step.id
      <4>1. row \in same /\ r = q
        BY <2>12, <2>13, <3>1, <3>3
      <4>2. of.outcome = step.outcome
        <5>1. PICK k \in DOMAIN StepsOf(q) : StepsOf(q)[k].id = step.id /\ StepsOf(q)[k].outcome = step.outcome
          BY <2>11, <2>13
        <5>2. PICK j \in DOMAIN StepsOf(q) : StepsOf(q)[j] = of
          BY <4>1 DEF ToSet
        <5>3. j = k
          <6>1. StepsOf(q)[j].id = StepsOf(q)[k].id
            BY <3>1, <3>3, <5>1, <5>2
          <6> QED
            BY <1>1, <6>1 DEF SyncInv, LocalNames
        <5> QED
          BY <5>1, <5>2, <5>3
      <4>3. updated(row) \in table /\ updated(row).id = of.id /\ updated(row).run = r /\ updated(row).outcome = of.outcome
        BY <2>2, <2>3, <3>1, <3>3, <4>1, <4>2
      <4> QED
        BY <2>6, <4>3 DEF StepIsThere
    <3> QED
      BY <3>2, <3>3
  <2>14. ASSUME pgSync.calm, NEW r \in DOMAIN pgLocal, RunIsThere(r) PROVE RunIsThere(r)'
    BY <2>6, <2>13, <2>14 DEF RunIsThere, RowIsThere, StepsOf
  <2>15. ASSUME pgSync.calm, NEW of \in ToSet(StepsOf(q)), of.id = step.id
         PROVE  StepIsThere(q, of)' /\ StepRefs(of) = StepRefs(step)
    <3>1. of.outcome = step.outcome
      <4>1. PICK k \in DOMAIN StepsOf(q) : StepsOf(q)[k].id = step.id /\ StepsOf(q)[k].outcome = step.outcome
        BY <2>11, <2>15
      <4>2. PICK j \in DOMAIN StepsOf(q) : StepsOf(q)[j] = of
        BY DEF ToSet
      <4>3. j = k
        BY <1>1, <2>15, <4>1, <4>2 DEF SyncInv, LocalNames
      <4> QED
        BY <4>1, <4>2, <4>3
    <3>2. StepRefs(of) = StepRefs(step)
      BY <2>15, <3>1 DEF StepRefs
    <3>3. \E row \in table : row.id = of.id /\ row.run = q /\ row.outcome = of.outcome
      <4>1. CASE same = {}
        BY <1>3, <2>3, <2>15, <3>1, <4>1
      <4>2. CASE same # {}
        <5>1. PICK old \in same : TRUE
          BY <4>2
        <5>2. updated(old) \in table /\ old.run = q
          BY <2>3, <2>12, <2>15, <5>1
        <5> QED
          BY <2>2, <2>15, <3>1, <5>1, <5>2
      <4> QED
        BY <4>1, <4>2
    <3> QED
      BY <2>6, <2>7, <3>2, <3>3 DEF StepIsThere
  <2>16. ASSUME pgSync.calm PROVE RunUnderWay'
    <3>1. RowIsThere(q)'
      BY <1>1, <2>6, <2>7, <2>16 DEF SyncInv, CalmSync, RunUnderWay, RowIsThere
    <3>2. ASSUME NEW of \in ToSet(StepsOf(q))
          PROVE  \/ \E i \in DOMAIN Tail(pgSync.steps) : Tail(pgSync.steps)[i].id = of.id
                 \/ StepIsThere(q, of)' /\ StepRefs(of) \subseteq pgRemote.blobs \union StepRefs(step)
      <4>1. CASE of.id = step.id
        BY <2>15, <2>16, <4>1
      <4>2. CASE of.id # step.id /\ \E i \in DOMAIN pgSync.steps : pgSync.steps[i].id = of.id
        <5>1. PICK i \in DOMAIN pgSync.steps : pgSync.steps[i].id = of.id
          BY <4>2
        <5>2. i # 1
          BY <1>2, <4>2, <5>1
        <5>3. i - 1 \in 1..(Len(pgSync.steps) - 1) /\ (i - 1) + 1 = i
          BY <1>2, <5>1, <5>2
        <5>4. Tail(pgSync.steps)[i - 1] = pgSync.steps[i] /\ i - 1 \in DOMAIN Tail(pgSync.steps)
          BY <1>4, <5>3
        <5> QED
          BY <5>1, <5>4
      <4>3. CASE ~ \E i \in DOMAIN pgSync.steps : pgSync.steps[i].id = of.id
        <5>1. StepIsThere(q, of) /\ StepRefs(of) \subseteq pgRemote.blobs \union pgSync.refs
          BY <1>1, <2>16, <4>3 DEF SyncInv, CalmSync, RunUnderWay
        <5>2. StepIsThere(q, of)'
          BY <1>1, <2>7, <2>13, <2>16, <5>1 DEF StepIsThere
        <5> QED
          BY <1>1, <5>1, <5>2
      <4> QED
        BY <4>1, <4>2, <4>3
    <3> QED
      BY <2>6, <2>7, <3>1, <3>2 DEF RunUnderWay, StepIsThere, StepsOf
  <2> QED
    BY <1>1, <2>7, <2>8, <2>9, <2>10, <2>14, <2>16, SyncGoesOn
<1> QED
  BY <1>5, <1>6

LEMMA PutBlobKeeps == SyncInv /\ PgPutBlob /\ UNCHANGED <<pgLocal, pgWork>> => SyncInv'
<1> SUFFICES ASSUME SyncInv, PgPutBlob, UNCHANGED <<pgLocal, pgWork>> PROVE SyncInv'
  OBVIOUS
<1>1. PICK ref \in pgSync.refs :
        /\ pgRemote' = [pgRemote EXCEPT !.blobs = @ \union {ref}]
        /\ pgSync' = [pgSync EXCEPT !.refs = @ \ {ref},
                                    !.at = IF pgSync.refs = {ref} THEN "step" ELSE "blobs"]
  BY DEF PgPutBlob
<1>2. /\ pgSync \in Sync /\ pgRemote \in Remote /\ pgSync.at = "blobs"
      /\ Working /\ Listed /\ pgSync.refs \subseteq Nat \X {"decision", "result"}
  BY DEF SyncInv, SyncTypes, PgPutBlob, Working, Listed, Sync
<1>3. /\ pgRemote' \in Remote /\ pgRemote'.runs = pgRemote.runs
      /\ pgRemote'.steps = pgRemote.steps /\ pgRemote'.blobs = pgRemote.blobs \union {ref}
  BY <1>1, <1>2 DEF Remote
<1>4. /\ pgSync' \in Sync /\ pgSync'.at \in {"step", "blobs"} /\ pgSync'.left = pgSync.left
      /\ pgSync'.run = pgSync.run /\ pgSync'.row = pgSync.row /\ pgSync'.calm = pgSync.calm
      /\ pgSync'.refs = pgSync.refs \ {ref} /\ pgSync'.steps = pgSync.steps
      /\ pgSync'.at # "blobs" => pgSync'.refs = {}
  BY <1>1, <1>2 DEF Sync, SyncStates
<1>5. SyncTypes' /\ RemoteNames' /\ Working' /\ Listed'
  BY <1>3, <1>4 DEF SyncInv, SyncTypes, RemoteNames, NameOf, StepsOf, Listed, Working
<1>6. \A i \in DOMAIN pgSync.steps :
        pgSync.steps[i].run = pgSync.run /\ NameOf(pgSync.steps[i].id, pgSync.run)
  BY <1>2 DEF SyncInv, SyncNames
<1>7. pgSync.calm => \A i \in DOMAIN pgSync.steps : \E step \in ToSet(StepsOf(pgSync.run)) :
        step.id = pgSync.steps[i].id /\ step.outcome = pgSync.steps[i].outcome
  BY <1>2 DEF SyncInv, CalmSync, SyncReads
<1>8. \A r \in DOMAIN pgLocal : RunIsThere(r) => RunIsThere(r)'
  BY <1>3 DEF RunIsThere, RowIsThere, StepIsThere, StepsOf
<1>9. ASSUME pgSync.calm PROVE RunUnderWay'
  <2>1. pgRemote.blobs \union pgSync.refs = pgRemote'.blobs \union pgSync'.refs
    BY <1>3, <1>4
  <2>2. RunUnderWay
    BY <1>9 DEF SyncInv, CalmSync
  <2> QED
    BY <1>2, <1>3, <1>4, <1>5, <2>1, <2>2 DEF RunUnderWay, RowIsThere, StepIsThere, StepsOf
<1> QED
  BY <1>2, <1>4, <1>5, <1>6, <1>7, <1>8, <1>9, SyncGoesOn

(* listRuns gives every run of the window, as it is, a place in the queue.      *)
LEMMA BeginsKeeps == SyncInv /\ PgBegins /\ UNCHANGED <<pgLocal, pgWork>> => SyncInv'
<1> SUFFICES ASSUME SyncInv, PgBegins, UNCHANGED <<pgLocal, pgWork>> PROVE SyncInv'
  OBVIOUS
<1> DEFINE runs == [r \in DOMAIN pgLocal |-> [run |-> r, status |-> pgLocal[r].status]]
           newest == Reverse(runs)
           queue == [k \in DOMAIN newest \cap 1..PgLimit |-> newest[k]]
           count == IF Len(pgLocal) <= PgLimit THEN Len(pgLocal) ELSE PgLimit
           entry(k) == runs[(Len(pgLocal) - k) + 1]
<1>1. /\ pgLocal \in Seq(LocalRun) /\ Len(pgLocal) \in Nat /\ DOMAIN pgLocal = 1..Len(pgLocal)
      /\ PgLimit \in Nat /\ count \in Nat
  BY SyncConstants DEF SyncInv, SyncTypes
<1>2. \A r \in DOMAIN pgLocal : r \in Nat /\ pgLocal[r].status \in RunStatuses
  BY LocalRuns DEF SyncInv, LocalRun
<1>3. Len(runs) = Len(pgLocal)
  BY <1>1, <1>2, IsASeq
<1>4. DOMAIN newest = 1..Len(pgLocal) /\ \A k \in 1..Len(pgLocal) : newest[k] = entry(k)
  BY <1>3 DEF Reverse
<1>5. \A r \in DOMAIN pgLocal : /\ runs[r] \in RunToSync
                               /\ runs[r].run = r /\ runs[r].status = pgLocal[r].status
  BY <1>2 DEF RunToSync
<1> HIDE DEF newest, runs
<1>6. DOMAIN newest \cap 1..PgLimit = 1..count
  BY <1>1, <1>4
<1>7. \A k \in 1..count : /\ (Len(pgLocal) - k) + 1 \in DOMAIN pgLocal /\ newest[k] = entry(k)
  BY <1>1, <1>4
<1>8. /\ queue \in Seq(RunToSync) /\ DOMAIN queue = 1..count
      /\ \A k \in 1..count : queue[k] = newest[k]
  <2>1. queue = [k \in 1..count |-> newest[k]]
    BY <1>6
  <2>2. \A k \in 1..count : newest[k] \in RunToSync
    BY <1>5, <1>7
  <2> HIDE DEF queue, count
  <2> QED
    BY <1>1, <2>1, <2>2, IsASeq
<1>9. pgSync' = [NoSync EXCEPT !.at = "next", !.calm = TRUE, !.left = queue] /\ pgRemote' = pgRemote
  BY DEF PgBegins, newest, runs
<1> HIDE DEF queue
<1>10. /\ pgSync' \in Sync /\ pgSync'.at = "next" /\ pgSync'.left = queue /\ pgSync'.refs = {}
  BY <1>8, <1>9, EmptySeq DEF NoSync, Sync, SyncStates, RunStatuses
<1>11. SyncTypes' /\ LocalNames' /\ RemoteNames' /\ ~Working' /\ ~Listed'
  BY <1>9, <1>10
     DEF SyncInv, SyncTypes, LocalNames, RemoteNames, NameOf, StepsOf, Working, Listed
<1>12. \A k \in DOMAIN queue : /\ queue[k].run \in DOMAIN pgLocal
                              /\ queue[k].status = pgLocal[queue[k].run].status
  BY <1>5, <1>7, <1>8
<1>13. \A r \in DOMAIN pgLocal : r > Len(pgLocal) - PgLimit => \E k \in DOMAIN queue : queue[k].run = r
  <2> SUFFICES ASSUME NEW r \in DOMAIN pgLocal, r > Len(pgLocal) - PgLimit
               PROVE  \E k \in DOMAIN queue : queue[k].run = r
    OBVIOUS
  <2> DEFINE at == (Len(pgLocal) - r) + 1
  <2>1. at \in 1..count /\ (Len(pgLocal) - at) + 1 = r
    BY <1>1
  <2> HIDE DEF at
  <2>2. at \in DOMAIN queue /\ queue[at] = newest[at] /\ newest[at] = entry(at)
    BY <1>7, <1>8, <2>1
  <2>3. queue[at].run = r
    BY <1>5, <2>1, <2>2
  <2> QED
    BY <2>2, <2>3
<1>14. SyncNames' /\ SyncReads' /\ RunUnderWay' /\ WindowAccounted'
  <2>1. pgSync'.at # "list" /\ pgSync'.at # "step" /\ pgSync'.at # "blobs"
    BY <1>10
  <2> QED
    BY <1>10, <1>11, <1>12, <1>13, <2>1
       DEF SyncNames, SyncReads, RunUnderWay, WindowAccounted, InWindow, Awaits
<1> QED
  BY <1>10, <1>11, <1>14 DEF SyncInv, CalmSync

LEMMA NextRunKeeps == SyncInv /\ PgNextRun /\ UNCHANGED <<pgLocal, pgWork>> => SyncInv'
<1> SUFFICES ASSUME SyncInv, PgNextRun, UNCHANGED <<pgLocal, pgWork>> PROVE SyncInv'
  OBVIOUS
<1>1. /\ pgSync \in Sync /\ pgSync.at = "next" /\ pgRemote' = pgRemote /\ pgSync.refs = {}
      /\ ~Working /\ ~Listed
  BY DEF SyncInv, SyncTypes, PgNextRun, Working, Listed
<1>2. LocalNames' /\ RemoteNames'
  BY <1>1 DEF SyncInv, LocalNames, RemoteNames, NameOf, StepsOf
<1>3. ASSUME NEW r, RunIsThere(r) PROVE RunIsThere(r)'
  BY <1>1, <1>3 DEF RunIsThere, RowIsThere, StepIsThere, StepsOf
<1>4. CASE pgSync.left = <<>>
  <2>1. pgSync' = [pgSync EXCEPT !.at = "done"]
    BY <1>4 DEF PgNextRun
  <2>2. /\ pgSync' \in Sync /\ pgSync'.at = "done" /\ pgSync'.left = pgSync.left
        /\ pgSync'.calm = pgSync.calm /\ pgSync'.refs = {} /\ ~Working' /\ ~Listed'
    BY <1>1, <2>1 DEF Sync, SyncStates, Working, Listed
  <2>3. SyncTypes' /\ SyncNames'
    BY <1>1, <2>2 DEF SyncInv, SyncTypes, SyncNames
  <2>4. ASSUME pgSync.calm PROVE SyncReads' /\ RunUnderWay' /\ WindowAccounted'
    <3>1. SyncReads /\ WindowAccounted
      BY <2>4 DEF SyncInv, CalmSync
    <3> QED
      BY <1>1, <1>3, <2>2, <3>1 DEF SyncReads, RunUnderWay, WindowAccounted, InWindow, Awaits
  <2> QED
    BY <1>2, <1>4, <2>2, <2>3, <2>4 DEF SyncInv, CalmSync
<1>5. CASE pgSync.left # <<>>
  <2> DEFINE left == pgSync.left
  <2>1. pgSync' = [pgSync EXCEPT !.at = "project", !.run = Head(left).run,
                                 !.row = Head(left).status, !.left = Tail(@)]
    BY <1>5 DEF PgNextRun
  <2>2. /\ left \in Seq(RunToSync) /\ Len(left) \in Nat \ {0} /\ DOMAIN left = 1..Len(left)
        /\ Head(left) = left[1] /\ left[1] \in RunToSync /\ Tail(left) \in Seq(RunToSync)
        /\ DOMAIN Tail(left) = 1..(Len(left) - 1)
        /\ \A k \in DOMAIN Tail(left) : k + 1 \in DOMAIN left /\ Tail(left)[k] = left[k + 1]
    BY <1>1, <1>5, EmptySeq, ElementOfSeq, HeadTailProperties DEF Sync
  <2>3. /\ pgSync' \in Sync /\ pgSync'.at = "project" /\ pgSync'.left = Tail(left)
        /\ pgSync'.run = left[1].run /\ pgSync'.row = left[1].status
        /\ pgSync'.calm = pgSync.calm /\ pgSync'.refs = {}
    BY <1>1, <2>1, <2>2 DEF Sync, SyncStates, RunToSync
  <2>4. Working' /\ ~Listed' /\ 1 \in DOMAIN left
    BY <2>2, <2>3 DEF Working, Listed
  <2>5. SyncTypes'
    BY <1>1, <2>3 DEF SyncInv, SyncTypes
  <2>6. SyncNames'
    BY <2>2, <2>3, <2>4 DEF SyncInv, SyncNames
  <2>7. ASSUME pgSync.calm PROVE SyncReads' /\ RunUnderWay' /\ WindowAccounted'
    <3>1. SyncReads /\ WindowAccounted
      BY <2>7 DEF SyncInv, CalmSync
    <3>2. SyncReads' /\ RunUnderWay'
      BY <2>2, <2>3, <2>4, <3>1 DEF SyncReads, RunUnderWay
    <3>3. ASSUME NEW r \in DOMAIN pgLocal, InWindow(r)
          PROVE  (\E k \in DOMAIN Tail(left) : Tail(left)[k].run = r) \/ left[1].run = r \/ RunIsThere(r)'
      <4>1. CASE \E k \in DOMAIN left : left[k].run = r
        <5>1. PICK k \in DOMAIN left : left[k].run = r
          BY <4>1
        <5>2. CASE k # 1
          <6>1. k - 1 \in DOMAIN Tail(left) /\ (k - 1) + 1 = k
            BY <2>2, <5>1, <5>2
          <6> QED
            BY <2>2, <5>1, <6>1
        <5> QED
          BY <5>1, <5>2
      <4> QED
        BY <1>1, <1>3, <3>1, <3>3, <4>1 DEF WindowAccounted, Awaits
    <3>4. WindowAccounted'
      BY <2>3, <2>4, <3>3 DEF WindowAccounted, Awaits, InWindow
    <3> QED
      BY <3>2, <3>4
  <2> QED
    BY <1>2, <2>3, <2>5, <2>6, <2>7 DEF SyncInv, CalmSync
<1> QED
  BY <1>4, <1>5

LEMMA RunDoneKeeps == SyncInv /\ PgRunDone /\ UNCHANGED <<pgLocal, pgWork>> => SyncInv'
<1> SUFFICES ASSUME SyncInv, PgRunDone, UNCHANGED <<pgLocal, pgWork>> PROVE SyncInv'
  OBVIOUS
<1>1. /\ pgSync \in Sync /\ pgSync.at = "step" /\ pgSync.steps = <<>> /\ pgRemote' = pgRemote
      /\ pgSync.refs = {} /\ Listed /\ pgSync' = [pgSync EXCEPT !.at = "next"]
  BY DEF SyncInv, SyncTypes, PgRunDone, PgAt, Listed
<1>2. /\ pgSync' \in Sync /\ pgSync'.at = "next" /\ pgSync'.left = pgSync.left
      /\ pgSync'.calm = pgSync.calm /\ pgSync'.refs = {} /\ ~Working' /\ ~Listed'
  BY <1>1 DEF Sync, SyncStates, Working, Listed
<1>3. SyncTypes' /\ LocalNames' /\ RemoteNames' /\ SyncNames'
  BY <1>1, <1>2 DEF SyncInv, SyncTypes, LocalNames, RemoteNames, SyncNames, NameOf, StepsOf
<1>4. ASSUME pgSync.calm PROVE SyncReads' /\ RunUnderWay' /\ WindowAccounted'
  <2>1. SyncReads /\ RunUnderWay /\ WindowAccounted
    BY <1>4 DEF SyncInv, CalmSync
  <2>2. RunIsThere(pgSync.run)
    <3>1. DOMAIN pgSync.steps = {}
      BY <1>1
    <3> QED
      BY <1>1, <2>1, <3>1 DEF RunUnderWay, RunIsThere
  <2>3. ASSUME NEW r, RunIsThere(r) PROVE RunIsThere(r)'
    BY <1>1, <2>3 DEF RunIsThere, RowIsThere, StepIsThere, StepsOf
  <2> QED
    BY <1>2, <2>1, <2>2, <2>3 DEF SyncReads, RunUnderWay, WindowAccounted, InWindow, Awaits
<1> QED
  BY <1>2, <1>3, <1>4 DEF SyncInv, CalmSync

LEMMA NoSyncIs ==
  /\ NoSync \in Sync /\ NoSync.at = "idle" /\ NoSync.refs = {} /\ ~NoSync.calm
  /\ DOMAIN NoSync.left = {}
<1>1. <<>> \in Seq(RunToSync) /\ <<>> \in Seq(RemoteStep)
  BY EmptySeq
<1> QED
  BY <1>1 DEF NoSync, Sync, SyncStates, RunStatuses

LEMMA CutKeeps == SyncInv /\ PgCut /\ UNCHANGED <<pgLocal, pgWork>> => SyncInv'
<1> SUFFICES ASSUME SyncInv, PgCut, UNCHANGED <<pgLocal, pgWork>> PROVE SyncInv'
  OBVIOUS
<1>1. pgSync' = NoSync /\ pgRemote' = pgRemote
  BY DEF PgCut
<1>2. ~Working' /\ ~Listed'
  BY <1>1, NoSyncIs DEF Working, Listed
<1>3. SyncTypes' /\ LocalNames' /\ RemoteNames' /\ SyncNames'
  BY <1>1, <1>2, NoSyncIs DEF SyncInv, SyncTypes, LocalNames, RemoteNames, SyncNames, NameOf, StepsOf
<1> QED
  BY <1>1, <1>3, NoSyncIs DEF SyncInv, CalmSync

-----------------------------------------------------------------------------
LEMMA SyncInvInit == PgInit => SyncInv
<1> SUFFICES ASSUME PgInit PROVE SyncInv
  OBVIOUS
<1>1. pgLocal = <<>> /\ pgLocal \in Seq(LocalRun) /\ DOMAIN pgLocal = {} /\ pgSync = NoSync
  BY EmptySeq DEF PgInit
<1>2. pgRemote \in Remote /\ pgRemote.steps = {} /\ pgWork \in Nat
  BY DEF PgInit, Remote
<1>3. ~Working /\ ~Listed
  BY <1>1, NoSyncIs DEF Working, Listed
<1> QED
  BY <1>1, <1>2, <1>3, NoSyncIs
     DEF SyncInv, SyncTypes, LocalNames, RemoteNames, SyncNames, CalmSync

LEMMA SyncInvNext == SyncInv /\ [PgNext]_pgVars => SyncInv'
<1> SUFFICES ASSUME SyncInv, [PgNext]_pgVars PROVE SyncInv'
  OBVIOUS
<1>1. CASE PgRunStarts \/ PgRunEnds \/ PgStepComes \/ PgStepCompletes \/ PgStepGoes
  BY <1>1, RunStartsKeeps, RunEndsKeeps, StepComesKeeps, StepCompletesKeeps, StepGoesKeeps
<1>2. ASSUME UNCHANGED <<pgLocal, pgWork>>,
             PgBegins \/ PgNextRun \/ PgUpsert \/ PgInsertRun \/ PgListSteps
               \/ PgInsertStep \/ PgPutBlob \/ PgRunDone \/ PgCut
      PROVE  SyncInv'
  BY <1>2, BeginsKeeps, NextRunKeeps, UpsertKeeps, InsertRunKeeps, ListStepsKeeps,
     InsertStepKeeps, PutBlobKeeps, RunDoneKeeps, CutKeeps
<1>3. CASE UNCHANGED pgVars
  BY <1>3 DEF pgVars, SyncInv, SyncTypes, LocalNames, RemoteNames, SyncNames, CalmSync, SyncReads,
              RunUnderWay, WindowAccounted, NameOf, StepsOf, Working, Listed, RunIsThere, RowIsThere,
              StepIsThere, InWindow, Awaits
<1> QED
  BY <1>1, <1>2, <1>3 DEF PgNext

(* SyncCopied: a sync that went through while nothing changed locally has copied *)
(* every run of its window, whatever the syncs before it left behind and        *)
(* wherever they were cut off.                                             *)
THEOREM SyncCopiesWindow == PgSpec => []SyncCopied
<1>1. SyncInv => SyncCopied
  <2> SUFFICES ASSUME SyncInv, pgSync.at = "done", pgSync.calm,
                      NEW r \in DOMAIN pgLocal, r > Len(pgLocal) - PgLimit
               PROVE  RunIsThere(r)
    BY DEF SyncCopied, RunIsThere, RowIsThere, StepIsThere, StepsOf
  <2>1. DOMAIN pgSync.left = {}
    BY DEF SyncInv, CalmSync
  <2> QED
    BY <2>1 DEF SyncInv, CalmSync, WindowAccounted, InWindow, Awaits, Working
<1> QED
  BY <1>1, SyncInvInit, SyncInvNext, PTL DEF PgSpec
=============================================================================
