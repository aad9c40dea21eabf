---------------------------- MODULE PrivateEvidence ----------------------------
(***************************************************************************)
(* The owner's private evidence and strategy contexts                      *)
(* (src/scripts/private_evidence_context.py).                              *)
(*                                                                         *)
(* capture_source copies a file into a content-addressed directory and     *)
(* adds an observation record to it; create_context publishes a reasoning  *)
(* that refers to such records.  Nothing holds a lock: several invocations *)
(* share the store, the owner edits the file being captured, and an        *)
(* invocation fails or is killed between any two file operations.          *)
(*                                                                         *)
(* A digest stands for the bytes it identifies.  A directory is filled by  *)
(* whoever made it, one file operation after the other; a published file   *)
(* has for a moment two names, the staged one and its own, and every       *)
(* reader refuses a file of two names.                                     *)
(***************************************************************************)
EXTENDS Naturals, FiniteSets

CONSTANTS
  Actor,      \* invocations of the script, one operation each
  Bytes,      \* contents the owner's file may have, a half-saved one included
  Mixed,      \* bytes read partly before and partly after an edit, of no edition
  ContextId,  \* hashes of contexts
  None,
  Deadline,   \* the official deadline in the owner's scope
  MaxTime,    \* bound on the clock
  MaxEdits,   \* bound on edits of the owner's file
  MaxFaults   \* bound on the directories left unfinished, kills and damages

ASSUME EvidenceAssumption ==
  /\ Mixed \notin Bytes
  /\ Deadline \in Nat /\ MaxTime \in Nat /\ MaxEdits \in Nat /\ MaxFaults \in Nat

VARIABLES
  now,
  source,     \* the owner's file: its bytes, and the edition its metadata tells apart
  content,    \* how far the directory of each digest is filled
  record,     \* how far the directory of each observation is filled
  context,    \* how far the directory of each context is filled
  meaning,    \* the context each hash is the hash of
  actor,      \* what each invocation does
  captured,   \* the observations reported CAPTURED
  created,    \* the contexts reported CONTEXT_CREATED
  cuts,       \* the directories an invocation left unfinished
  faults

treeVars  == <<now, source, content, record, context, meaning, actor, captured, created, cuts>>
storeVars == <<treeVars, faults>>

-----------------------------------------------------------------------------
Time     == 0 .. MaxTime
Content  == Bytes \cup {Mixed}
Temporal == {"PROSPECTIVE", "HISTORICAL_BACKFILL"}
Source   == [bytes : Bytes, edition : 0 .. MaxEdits]

(* An observation's id is the hash of its content and of its time of capture (the
   owner's description is the same each time); a context's is the hash of its
   class, its time and the observations it refers to. *)
Observation == [content : Content, at : Time]
Context     == [class : Temporal, at : Time, evidence : SUBSET Observation]

(* "None" is no context. *)
ASSUME AbsentAssumption == None \notin Context

(* How far a content directory is: 1 made, 2 with its directory of observations,
   3 source.bin linked under two names, 4 under one, 5 content_manifest.json
   linked under two, 6 under one.  That of a record or a context: 1 made, 2 its
   file linked under two names, 3 under one. *)
WholeContent == 6
WholeRecord  == 3
TwoNamesContent(n) == n \in {3, 5}
TwoNamesRecord(n)  == n = 2

(* _cleanup_stage removes the staged names: a linked file keeps its own. *)
CleanContent(n) == IF TwoNamesContent(n) THEN n + 1 ELSE n
CleanRecord(n)  == IF TwoNamesRecord(n) THEN n + 1 ELSE n

Work(at, b, edition, time, c) ==
  [at |-> at, content |-> b, edition |-> edition, time |-> time, context |-> c]
Idle  == Work("idle", None, 0, 0, None)
Ended == Work("ended", None, 0, 0, None)

Cuts == [content : SUBSET Content, record : SUBSET Observation, context : SUBSET ContextId]

StoreTypeOK ==
  /\ now \in Time
  /\ source \in Source
  /\ content \in [Content -> 0 .. WholeContent]
  /\ record \in [Observation -> 0 .. WholeRecord]
  /\ context \in [ContextId -> 0 .. WholeRecord]
  /\ captured \subseteq Observation /\ created \subseteq ContextId
  /\ cuts \in Cuts
  /\ meaning \in [ContextId -> Context \cup {None}]
  /\ \A a \in Actor :
       \/ actor[a] \in {Idle, Ended}
       \/ actor[a].at \in {"copying", "copied", "staged", "filling", "reusing", "recording", "linking",
                           "published"} /\ actor[a].time \in Time /\ actor[a].content \in Content
       \/ actor[a].at \in {"verifying", "context", "relinking", "written"}
          /\ actor[a].context \in ContextId

StoreInit ==
  /\ now = 0
  /\ source \in [bytes : Bytes, edition : {0}]
  /\ content = [b \in Content |-> 0]
  /\ record = [o \in Observation |-> 0]
  /\ context = [c \in ContextId |-> 0]
  /\ meaning = [c \in ContextId |-> None]
  /\ actor = [a \in Actor |-> Idle]
  /\ captured = {} /\ created = {}
  /\ cuts = [content |-> {}, record |-> {}, context |-> {}]
  /\ faults = 0

At(a, at)   == actor[a].at = at
Goes(a, at) == actor' = [actor EXCEPT ![a] = [@ EXCEPT !.at = at]]
Ends(a)     == actor' = [actor EXCEPT ![a] = Ended]
Mine(a)     == [content |-> actor[a].content, at |-> actor[a].time]

(* verify_source_record, verify_context_record: the listing is exact and each file
   has one name. *)
SourceVerifies(o)  == content[o.content] = WholeContent /\ record[o] = WholeRecord
ContextVerifies(c) == context[c] = WholeRecord
-----------------------------------------------------------------------------
(* capture_source *)

(* The clock is read, the owner's file opened with its metadata and its first bytes
   are copied. *)
StartCapture(a) ==
  /\ At(a, "idle")
  /\ actor' = [actor EXCEPT ![a] = Work("copying", source.bytes, source.edition, now, None)]
  /\ UNCHANGED <<now, source, content, record, context, meaning, captured, created, cuts, faults>>

(* _copy_source_to_stage reads to the end, chunk by chunk.  What it gets once the
   file has been edited can be the file before, a later one (the edit came before the
   first read), or neither. *)
ReadRest(a) ==
  /\ At(a, "copying")
  /\ \E b \in Content :
       /\ source.edition = actor[a].edition => b = actor[a].content
       /\ actor' = [actor EXCEPT ![a] = [@ EXCEPT !.at = "copied", !.content = b]]
  /\ UNCHANGED <<now, source, content, record, context, meaning, captured, created, cuts, faults>>

(* Mutant: the metadata is not compared. *)
CopyUnchecked(a) ==
  /\ At(a, "copied")
  /\ Goes(a, "staged")
  /\ UNCHANGED <<now, source, content, record, context, meaning, captured, created, cuts, faults>>

(* The metadata of the open file and of the name are those from before the first
   read (INPUT_CHANGED); the manifest is staged, both are read again. *)
CopySource(a) ==
  /\ At(a, "copied")
  /\ IF source.edition = actor[a].edition THEN Goes(a, "staged") ELSE Ends(a)
  /\ UNCHANGED <<now, source, content, record, context, meaning, captured, created, cuts, faults>>

(* _directory_chain: whoever makes the directory fills it. *)
OpenContent(a) ==
  /\ At(a, "staged")
  /\ IF content[actor[a].content] = 0
     THEN /\ content' = [content EXCEPT ![actor[a].content] = 1]
          /\ Goes(a, "filling")
     ELSE /\ Goes(a, "reusing")
          /\ UNCHANGED content
  /\ UNCHANGED <<now, source, record, context, meaning, captured, created, cuts, faults>>

(* Mutant: the manifest is forgotten. *)
FillSourceOnly(a) ==
  /\ At(a, "filling")
  /\ content' = [content EXCEPT ![actor[a].content] = @ + 1]
  /\ Goes(a, IF content[actor[a].content] + 1 = 4 THEN "recording" ELSE "filling")
  /\ UNCHANGED <<now, source, record, context, meaning, captured, created, cuts, faults>>

(* The directory of observations, the two links and the removal of each staged name. *)
FillContent(a) ==
  /\ At(a, "filling")
  /\ content' = [content EXCEPT ![actor[a].content] = @ + 1]
  /\ Goes(a, IF content[actor[a].content] + 1 = WholeContent THEN "recording" ELSE "filling")
  /\ UNCHANGED <<now, source, record, context, meaning, captured, created, cuts, faults>>

(* _validate_content_directory: CONTENT_STORE_INVALID for any other. *)
ReuseContent(a) ==
  /\ At(a, "reusing")
  /\ IF content[actor[a].content] = WholeContent THEN Goes(a, "recording") ELSE Ends(a)
  /\ UNCHANGED <<now, source, content, record, context, meaning, captured, created, cuts, faults>>

(* The observation's directory: made, or its file must be the same and alone. *)
OpenRecord(a) ==
  /\ At(a, "recording")
  /\ CASE record[Mine(a)] = 0 ->
            record' = [record EXCEPT ![Mine(a)] = 1] /\ Goes(a, "linking")
       [] record[Mine(a)] = WholeRecord -> Goes(a, "published") /\ UNCHANGED record
       [] OTHER -> Ends(a) /\ UNCHANGED record
  /\ UNCHANGED <<now, source, content, context, meaning, captured, created, cuts, faults>>

LinkRecord(a) ==
  /\ At(a, "linking")
  /\ record' = [record EXCEPT ![Mine(a)] = @ + 1]
  /\ Goes(a, IF record[Mine(a)] + 1 = WholeRecord THEN "published" ELSE "linking")
  /\ UNCHANGED <<now, source, content, context, meaning, captured, created, cuts, faults>>

(* The published record and the content directory are read once more. *)
ReportCapture(a) ==
  /\ At(a, "published")
  /\ captured' = IF SourceVerifies(Mine(a)) THEN captured \cup {Mine(a)} ELSE captured
  /\ Ends(a)
  /\ UNCHANGED <<now, source, content, record, context, meaning, created, cuts, faults>>
-----------------------------------------------------------------------------
(* create_context *)

(* The clock is read and compared with the deadline; the id follows from the time
   and the references. *)
StartContext(a, class, evidence, c) ==
  LET wanted == [class |-> class, at |-> now, evidence |-> evidence] IN
  /\ At(a, "idle")
  /\ class = "PROSPECTIVE" => now < Deadline
  /\ meaning[c] \in {wanted, None}
  /\ \A d \in ContextId \ {c} : meaning[d] # wanted
  /\ meaning' = [meaning EXCEPT ![c] = wanted]
  /\ actor' = [actor EXCEPT ![a] = Work("verifying", None, 0, now, c)]
  /\ UNCHANGED <<now, source, content, record, context, captured, created, cuts, faults>>

(* _verified_evidence_reference: every record is verified. *)
VerifyReferences(a) ==
  /\ At(a, "verifying")
  /\ IF \A o \in meaning[actor[a].context].evidence : SourceVerifies(o)
     THEN Goes(a, "context") ELSE Ends(a)
  /\ UNCHANGED <<now, source, content, record, context, meaning, captured, created, cuts, faults>>

OpenContext(a) ==
  LET c == actor[a].context IN
  /\ At(a, "context")
  /\ CASE context[c] = 0 -> context' = [context EXCEPT ![c] = 1] /\ Goes(a, "relinking")
       [] context[c] = WholeRecord -> Goes(a, "written") /\ UNCHANGED context
       [] OTHER -> Ends(a) /\ UNCHANGED context
  /\ UNCHANGED <<now, source, content, record, meaning, captured, created, cuts, faults>>

LinkContext(a) ==
  LET c == actor[a].context IN
  /\ At(a, "relinking")
  /\ context' = [context EXCEPT ![c] = @ + 1]
  /\ Goes(a, IF context[c] + 1 = WholeRecord THEN "written" ELSE "relinking")
  /\ UNCHANGED <<now, source, content, record, meaning, captured, created, cuts, faults>>

ReportContext(a) ==
  /\ At(a, "written")
  /\ created' = IF ContextVerifies(actor[a].context) THEN created \cup {actor[a].context}
                                                     ELSE created
  /\ Ends(a)
  /\ UNCHANGED <<now, source, content, record, context, meaning, captured, cuts, faults>>
-----------------------------------------------------------------------------
(* The surroundings *)

Counted == faults' = IF cuts' = cuts THEN faults ELSE faults + 1

(* What an invocation leaves behind when it stops: clean says whether its finally
   clauses run and remove the staged names, a failure, or not, a kill. *)
Leaves(a, clean) ==
  LET b == actor[a].content
      c == actor[a].context
      contentLeft == IF clean THEN CleanContent(content[b]) ELSE content[b]
      recordLeft  == IF clean THEN CleanRecord(record[Mine(a)]) ELSE record[Mine(a)]
      contextLeft == IF clean THEN CleanRecord(context[c]) ELSE context[c] IN
  CASE At(a, "filling") ->
         /\ content' = [content EXCEPT ![b] = contentLeft]
         /\ cuts' = IF contentLeft = WholeContent THEN cuts
                    ELSE [cuts EXCEPT !.content = @ \cup {b}]
         /\ UNCHANGED <<record, context>>
    [] At(a, "linking") ->
         /\ record' = [record EXCEPT ![Mine(a)] = recordLeft]
         /\ cuts' = IF recordLeft = WholeRecord THEN cuts
                    ELSE [cuts EXCEPT !.record = @ \cup {Mine(a)}]
         /\ UNCHANGED <<content, context>>
    [] At(a, "relinking") ->
         /\ context' = [context EXCEPT ![c] = contextLeft]
         /\ cuts' = IF contextLeft = WholeRecord THEN cuts
                    ELSE [cuts EXCEPT !.context = @ \cup {c}]
         /\ UNCHANGED <<content, record>>
    [] OTHER -> UNCHANGED <<content, record, context, cuts>>

(* An error of the file system or an interrupt ends the operation. *)
ActorFails(a) ==
  /\ actor[a] \notin {Idle, Ended} /\ faults < MaxFaults
  /\ Leaves(a, TRUE) /\ Counted
  /\ Ends(a)
  /\ UNCHANGED <<now, source, meaning, captured, created>>

KillActor(a) ==
  /\ actor[a] \notin {Idle, Ended} /\ faults < MaxFaults
  /\ Leaves(a, FALSE) /\ Counted
  /\ Ends(a)
  /\ UNCHANGED <<now, source, meaning, captured, created>>

(* The owner saves the file. *)
EditSource(b) ==
  /\ source.edition < MaxEdits
  /\ source' = [bytes |-> b, edition |-> source.edition + 1]
  /\ UNCHANGED <<now, content, record, context, meaning, actor, captured, created, cuts, faults>>

(* Time passes; nobody reads the clock once every invocation has started. *)
Tick ==
  /\ now < MaxTime /\ \E a \in Actor : At(a, "idle")
  /\ now' = now + 1
  /\ UNCHANGED <<source, content, record, context, meaning, actor, captured, created, cuts, faults>>

(* Evidence of a context is chosen among the records there are. *)
CaptureStep(a) ==
  \/ StartCapture(a) \/ ReadRest(a) \/ CopySource(a) \/ OpenContent(a) \/ FillContent(a)
  \/ ReuseContent(a) \/ OpenRecord(a) \/ LinkRecord(a) \/ ReportCapture(a)

ContextStep(a) ==
  \/ \E class \in Temporal, evidence \in SUBSET {o \in Observation : record[o] > 0},
        c \in ContextId : StartContext(a, class, evidence, c)
  \/ VerifyReferences(a) \/ OpenContext(a) \/ LinkContext(a) \/ ReportContext(a)

StoreNext ==
  \/ \E a \in Actor : CaptureStep(a) \/ ContextStep(a) \/ ActorFails(a) \/ KillActor(a)
  \/ \E b \in Bytes : EditSource(b)
  \/ Tick
-----------------------------------------------------------------------------
(* Properties *)

(* What was reported stays true: an observation reported CAPTURED can be verified
   ever after and holds the bytes of one edition of the owner's file, although the
   owner may save it between two reads; a context reported CONTEXT_CREATED can be
   verified and so can its evidence, whatever other invocations left behind
   (_copy_source_to_stage, capture_source, create_context, verify_source_record,
   verify_context_record). *)
CapturedStands ==
  /\ \A o \in captured : SourceVerifies(o) /\ o.content \in Bytes
  /\ \A c \in created : /\ ContextVerifies(c)
                        /\ \A o \in meaning[c].evidence : SourceVerifies(o)

(* A digest, an observation or a context can not be published for a while or for
   ever: for a while because the invocation that made its directory still fills it,
   for ever exactly because that invocation stopped in between.  Nothing takes the
   unfinished directory back: the finally clauses of capture_source and
   create_context remove the staged names only. *)
BlockedOnlyByCut ==
  /\ \A b \in Content :
       /\ content[b] \notin {0, WholeContent} =>
            b \in cuts.content \/ \E a \in Actor : At(a, "filling") /\ actor[a].content = b
       /\ b \in cuts.content => content[b] \notin {0, WholeContent}
  /\ \A o \in Observation :
       /\ record[o] \notin {0, WholeRecord} =>
            o \in cuts.record \/ \E a \in Actor : At(a, "linking") /\ Mine(a) = o
       /\ o \in cuts.record => record[o] \notin {0, WholeRecord}
  /\ \A c \in ContextId :
       /\ context[c] \notin {0, WholeRecord} =>
            c \in cuts.context \/ \E a \in Actor : At(a, "relinking") /\ actor[a].context = c
       /\ c \in cuts.context => context[c] \notin {0, WholeRecord}
=============================================================================
