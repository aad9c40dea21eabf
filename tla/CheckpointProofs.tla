--------------------------- MODULE CheckpointProofs ---------------------------
(***************************************************************************)
(* What holds of the data tree and its checkpoints for any number of       *)
(* invocations, contents, contexts, checkpoints and restores.              *)
(*                                                                         *)
(* The first half is about the store alone (PrivateEvidence): its          *)
(* invariant speaks of treeVars only and so holds beside any component     *)
(* that leaves them alone.                                                 *)
(*                                                                         *)
(* create reads the tree twice and holds no lock.  That what it read the   *)
(* first time is the tree of one instant follows from an order: the tree   *)
(* only grows (Grows), so what was scanned lies before the tree at the end *)
(* of the first scan, and that lies before what the second scan sees; when *)
(* the second scan finds each part as it was, all three are equal.         *)
(***************************************************************************)
EXTENDS Checkpoint, TLAPS

-----------------------------------------------------------------------------
(* The inductive invariant of the store *)

CaptureLabels == {"copying", "staged", "filling", "reusing", "recording", "linking",
                  "published"}
ContextLabels == {"verifying", "context", "relinking", "written"}
Labels        == {"idle", "copied", "ended"} \cup CaptureLabels \cup ContextLabels

Task == [at : Labels, content : Content \cup {None}, edition : 0 .. MaxEdits,
         time : Time, context : ContextId \cup {None}]

ActorType == actor \in [Actor -> Task]
FileType  == /\ content \in [Content -> 0 .. WholeContent]
             /\ record \in [Observation -> 0 .. WholeRecord]
             /\ context \in [ContextId -> 0 .. WholeRecord]
             /\ cuts \in Cuts
WorldType == /\ now \in Time
             /\ source \in Source
             /\ meaning \in [ContextId -> Context \cup {None}]

(* The evidence a context refers to can be verified. *)
Vouched(c) == meaning[c] # None /\ \A o \in meaning[c].evidence : SourceVerifies(o)

(* What an invocation has established by the time it is at a label, and relies
   on from there on although others go on publishing. *)
Knows(a) ==
  LET t == actor[a] IN
  /\ t.at = "idle" => t = Idle
  /\ t.at = "ended" => t = Ended
  /\ t.at \in CaptureLabels => t.content \in Bytes
  /\ t.at \in {"copying", "copied"} => t.edition <= source.edition
  /\ t.at = "copied" =>
       t.content \in Content /\ (source.edition = t.edition => t.content \in Bytes)
  /\ t.at \in {"recording", "linking", "published"} => content[t.content] = WholeContent
  /\ t.at = "published" => record[Mine(a)] = WholeRecord
  /\ t.at \in ContextLabels => t.context \in ContextId /\ meaning[t.context] # None
  /\ t.at \in {"context", "relinking", "written"} => Vouched(t.context)
  /\ t.at = "written" => context[t.context] = WholeRecord

(* What each invocation is filling: no directory, or one. *)
Filling   == [a \in Actor |-> IF At(a, "filling") THEN {actor[a].content} ELSE {}]
Linking   == [a \in Actor |-> IF At(a, "linking") THEN {Mine(a)} ELSE {}]
Relinking == [a \in Actor |-> IF At(a, "relinking") THEN {actor[a].context} ELSE {}]

(* A directory of a store is absent, whole, being filled by exactly one invocation,
   or cut. *)
Slots(Slot, level, whole, cut, filler) ==
  /\ \A a \in Actor : \A s \in filler[a] : level[s] \notin {0, whole} /\ s \notin cut
  /\ \A a, e \in Actor : \A s \in filler[a] : s \in filler[e] => a = e
  /\ \A s \in Slot : level[s] \notin {0, whole} =>
       s \in cut \/ \E a \in Actor : s \in filler[a]
  /\ \A s \in cut : level[s] \notin {0, whole}

ContentSlots == Slots(Content, content, WholeContent, cuts.content, Filling)
RecordSlots  == Slots(Observation, record, WholeRecord, cuts.record, Linking)
ContextSlots == Slots(ContextId, context, WholeRecord, cuts.context, Relinking)

(* A context's directory is made only for evidence that was verified. *)
ContextsVouched == \A c \in ContextId : context[c] # 0 => Vouched(c)

Reported ==
  /\ captured \subseteq Observation /\ created \subseteq ContextId
  /\ \A o \in captured : SourceVerifies(o) /\ o.content \in Bytes
  /\ \A c \in created : ContextVerifies(c)

StoreInv ==
  /\ ActorType /\ FileType /\ WorldType
  /\ \A a \in Actor : Knows(a)
  /\ ContentSlots /\ RecordSlots /\ ContextSlots
  /\ ContextsVouched /\ Reported

-----------------------------------------------------------------------------
(* The slots of any store *)

(* A directory is made: OpenContent, OpenRecord, OpenContext. *)
LEMMA SlotOpened ==
  ASSUME NEW Slot, NEW whole \in Nat, whole > 1, NEW level \in [Slot -> 0 .. whole],
         NEW cut \in SUBSET Slot, NEW filler \in [Actor -> SUBSET Slot],
         NEW a \in Actor, NEW s \in Slot,
         Slots(Slot, level, whole, cut, filler), filler[a] = {}, level[s] = 0
  PROVE  Slots(Slot, [level EXCEPT ![s] = 1], whole, cut, [filler EXCEPT ![a] = {s}])
  BY DEF Slots

(* A directory is filled by one more file operation: FillContent, LinkRecord,
   LinkContext. *)
LEMMA SlotFilled ==
  ASSUME NEW Slot, NEW whole \in Nat, NEW level \in [Slot -> 0 .. whole],
         NEW cut \in SUBSET Slot, NEW filler \in [Actor -> SUBSET Slot],
         NEW a \in Actor, NEW s \in Slot,
         Slots(Slot, level, whole, cut, filler), filler[a] = {s}
  PROVE  /\ level[s] + 1 \in 1 .. whole
         /\ Slots(Slot, [level EXCEPT ![s] = @ + 1], whole, cut,
                  [filler EXCEPT ![a] = IF level[s] + 1 = whole THEN {} ELSE {s}])
<1>1. level[s] + 1 \in 1 .. whole /\ level[s] + 1 # 0
  BY DEF Slots
<1>2. CASE level[s] + 1 = whole
  BY <1>1, <1>2 DEF Slots
<1>3. CASE level[s] + 1 # whole
  BY <1>1, <1>3 DEF Slots
<1> QED BY <1>1, <1>2, <1>3

(* Whoever fills a directory stops: ActorFails, KillActor. *)
LEMMA SlotLeft ==
  ASSUME NEW Slot, NEW whole \in Nat, NEW level \in [Slot -> 0 .. whole],
         NEW cut \in SUBSET Slot, NEW filler \in [Actor -> SUBSET Slot],
         NEW a \in Actor, NEW s \in Slot, NEW n \in 1 .. whole,
         Slots(Slot, level, whole, cut, filler), filler[a] = {s}
  PROVE  Slots(Slot, [level EXCEPT ![s] = n], whole,
               IF n = whole THEN cut ELSE cut \cup {s}, [filler EXCEPT ![a] = {}])
<1>1. CASE n = whole
  BY <1>1 DEF Slots
<1>2. CASE n # whole
  BY <1>2 DEF Slots
<1> QED BY <1>1, <1>2
-----------------------------------------------------------------------------
(* What a step does to the invocations *)

Only(a) == \A e \in Actor \ {a} : actor'[e] = actor[e]

(* One invocation's task is replaced; what it is filling follows from the task. *)
LEMMA Becomes ==
  ASSUME ActorType, NEW a \in Actor, NEW t \in Task, actor' = [actor EXCEPT ![a] = t]
  PROVE  /\ ActorType' /\ Only(a) /\ actor'[a] = t
         /\ Filling' = [Filling EXCEPT ![a] = IF t.at = "filling" THEN {t.content} ELSE {}]
         /\ Linking' = [Linking EXCEPT ![a] =
              IF t.at = "linking" THEN {[content |-> t.content, at |-> t.time]} ELSE {}]
         /\ Relinking' = [Relinking EXCEPT ![a] =
              IF t.at = "relinking" THEN {t.context} ELSE {}]
<1>1. ActorType' /\ Only(a) /\ actor'[a] = t
  BY DEF ActorType, Only
<1>2. Filling' = [Filling EXCEPT ![a] = IF t.at = "filling" THEN {t.content} ELSE {}]
  BY <1>1 DEF Filling, At, Only
<1>3. Linking' = [Linking EXCEPT ![a] =
                    IF t.at = "linking" THEN {[content |-> t.content, at |-> t.time]} ELSE {}]
  BY <1>1 DEF Linking, At, Only, Mine
<1>4. Relinking' = [Relinking EXCEPT ![a] = IF t.at = "relinking" THEN {t.context} ELSE {}]
  BY <1>1 DEF Relinking, At, Only
<1> QED BY <1>1, <1>2, <1>3, <1>4

(* An invocation goes to another label with the same task (Goes). *)
LEMMA GoesOn ==
  ASSUME ActorType, NEW a \in Actor, NEW l \in Labels, Goes(a, l)
  PROVE  /\ ActorType' /\ Only(a) /\ actor'[a].at = l
         /\ actor'[a].content = actor[a].content /\ actor'[a].time = actor[a].time
         /\ actor'[a].context = actor[a].context
         /\ Mine(a)' = Mine(a)
         /\ Filling' = [Filling EXCEPT ![a] =
              IF l = "filling" THEN {actor[a].content} ELSE {}]
         /\ Linking' = [Linking EXCEPT ![a] = IF l = "linking" THEN {Mine(a)} ELSE {}]
         /\ Relinking' = [Relinking EXCEPT ![a] =
              IF l = "relinking" THEN {actor[a].context} ELSE {}]
<1> DEFINE t == [actor[a] EXCEPT !.at = l]
<1>1. /\ t \in Task /\ t.at = l /\ t.content = actor[a].content /\ t.time = actor[a].time
      /\ t.context = actor[a].context
  BY DEF ActorType, Task
<1>2. actor' = [actor EXCEPT ![a] = t]
  BY DEF Goes
<1> HIDE DEF t
<1>3. /\ ActorType' /\ Only(a) /\ actor'[a] = t
      /\ Filling' = [Filling EXCEPT ![a] = IF t.at = "filling" THEN {t.content} ELSE {}]
      /\ Linking' = [Linking EXCEPT ![a] =
           IF t.at = "linking" THEN {[content |-> t.content, at |-> t.time]} ELSE {}]
      /\ Relinking' = [Relinking EXCEPT ![a] = IF t.at = "relinking" THEN {t.context} ELSE {}]
  BY <1>1, <1>2, Becomes
<1>4. Mine(a)' = Mine(a) /\ Mine(a) = [content |-> t.content, at |-> t.time]
  BY <1>1, <1>3 DEF Mine
<1> QED BY <1>1, <1>3, <1>4

(* An invocation ends (Ends). *)
LEMMA EndsHere ==
  ASSUME ActorType, NEW a \in Actor, Ends(a)
  PROVE  /\ ActorType' /\ Only(a) /\ actor'[a] = Ended /\ actor'[a].at = "ended"
         /\ Filling' = [Filling EXCEPT ![a] = {}]
         /\ Linking' = [Linking EXCEPT ![a] = {}]
         /\ Relinking' = [Relinking EXCEPT ![a] = {}]
<1>1. Ended \in Task /\ Ended.at = "ended"
  BY EvidenceAssumption DEF Ended, Work, Task, Labels, Time
<1> QED BY <1>1, Becomes DEF Ends

(* What an invocation is filling is of its store's type. *)
LEMMA FillersTyped ==
  ASSUME ActorType, \A a \in Actor : Knows(a)
  PROVE  /\ Filling \in [Actor -> SUBSET Content]
         /\ Linking \in [Actor -> SUBSET Observation]
         /\ Relinking \in [Actor -> SUBSET ContextId]
         /\ \A a \in Actor : actor[a].at \in CaptureLabels =>
              actor[a].content \in Content /\ Mine(a) \in Observation
<1>1. ASSUME NEW a \in Actor, actor[a].at \in CaptureLabels
      PROVE  actor[a].content \in Content /\ Mine(a) \in Observation
  BY <1>1 DEF ActorType, Task, Knows, Content, Mine, Observation
<1>2. ASSUME NEW a \in Actor, actor[a].at \in ContextLabels
      PROVE  actor[a].context \in ContextId
  BY <1>2 DEF Knows
<1> QED BY <1>1, <1>2 DEF Filling, Linking, Relinking, At, CaptureLabels, ContextLabels
-----------------------------------------------------------------------------
(* What a step may do to the store *)

(* Nothing is taken back: a directory is only filled further, a hash keeps its
   meaning, and another edit of the owner's file is another edition. *)
Grows ==
  /\ \A b \in Content : content[b] <= content'[b]
  /\ \A o \in Observation : record[o] <= record'[o]
  /\ \A c \in ContextId : context[c] <= context'[c]
  /\ \A c \in ContextId : meaning[c] # None => meaning'[c] = meaning[c]
  /\ source.edition <= source'.edition
  /\ source.edition = source'.edition => source' = source

Types == ActorType /\ FileType /\ WorldType

(* The evidence of a context is a set of observations. *)
LEMMA EvidenceTyped ==
  ASSUME WorldType, NEW c \in ContextId, meaning[c] # None
  PROVE  meaning[c] \in Context /\ meaning[c].evidence \subseteq Observation
  BY DEF WorldType, Context

(* What can be verified stays so. *)
LEMMA VerifiedStays ==
  ASSUME FileType, FileType', Grows
  PROVE  /\ \A b \in Content : content[b] = WholeContent => content'[b] = WholeContent
         /\ \A o \in Observation : record[o] = WholeRecord => record'[o] = WholeRecord
         /\ \A c \in ContextId : context[c] = WholeRecord => context'[c] = WholeRecord
         /\ \A o \in Observation : SourceVerifies(o) => SourceVerifies(o)'
<1>1. \A b \in Content : content[b] = WholeContent => content'[b] = WholeContent
  BY DEF FileType, Grows, WholeContent
<1>2. \A o \in Observation : record[o] = WholeRecord => record'[o] = WholeRecord
  BY DEF FileType, Grows, WholeRecord
<1>3. \A c \in ContextId : context[c] = WholeRecord => context'[c] = WholeRecord
  BY DEF FileType, Grows, WholeRecord
<1>4. \A o \in Observation : o.content \in Content
  BY DEF Observation
<1> QED BY <1>1, <1>2, <1>3, <1>4 DEF SourceVerifies

(* The evidence a context refers to stays so. *)
LEMMA VouchedStays ==
  ASSUME FileType, FileType', WorldType, Grows, NEW c \in ContextId, Vouched(c)
  PROVE  Vouched(c)'
<1>1. meaning[c] # None /\ meaning'[c] = meaning[c]
  BY DEF Vouched, Grows
<1>2. \A o \in meaning[c].evidence : SourceVerifies(o)'
  BY <1>1, EvidenceTyped, VerifiedStays DEF Vouched
<1> QED BY <1>1, <1>2 DEF Vouched

(* What another invocation knows it goes on knowing. *)
LEMMA OthersKnow ==
  ASSUME Types, Types', Grows, NEW e \in Actor, Knows(e), actor'[e] = actor[e]
  PROVE  Knows(e)'
<1> DEFINE t == actor[e]
<1>1. t.at = "published" => record'[Mine(e)] = WholeRecord /\ Mine(e)' = Mine(e)
  <2>1. t.at = "published" => Mine(e) \in Observation
    BY DEF Knows, CaptureLabels, Types, ActorType, Task, Mine, Observation, Content
  <2> QED BY <2>1, VerifiedStays DEF Knows, Mine, Types
<1>2. t.at \in {"recording", "linking", "published"} => content'[t.content] = WholeContent
  <2>1. t.at \in {"recording", "linking", "published"} => t.content \in Content
    BY DEF Knows, CaptureLabels, Content
  <2> QED BY <2>1, VerifiedStays DEF Knows, Types
<1>3. t.at \in ContextLabels => t.context \in ContextId /\ meaning'[t.context] # None
  BY DEF Knows, Grows
<1>4. t.at \in {"context", "relinking", "written"} => Vouched(t.context)'
  BY VouchedStays DEF Knows, Types, ContextLabels
<1>5. t.at = "written" => context'[t.context] = WholeRecord
  BY VerifiedStays DEF Knows, Types, ContextLabels
<1>6. /\ t.at \in {"copying", "copied"} => t.edition <= source'.edition
      /\ t.at = "copied" =>
           t.content \in Content /\ (source'.edition = t.edition => t.content \in Bytes)
  <2>1. /\ t.edition \in Nat /\ source.edition \in Nat /\ source'.edition \in Nat
        /\ source.edition <= source'.edition
    BY EvidenceAssumption DEF Grows, Types, ActorType, Task, WorldType, Source
  <2> QED BY <2>1 DEF Knows
<1> QED BY <1>1, <1>2, <1>3, <1>4, <1>5, <1>6 DEF Knows, Vouched

(* A step of one invocation keeps the invariant if it grows the store, the invocation
   knows what it relies on next, the directories stay accounted for, and a new context
   directory or report is of verified evidence. *)
LEMMA Assembled ==
  ASSUME StoreInv, Types', Grows, NEW a \in Actor, Only(a), Knows(a)',
         ContentSlots', RecordSlots', ContextSlots',
         \A c \in ContextId : context'[c] # 0 => context[c] # 0 \/ Vouched(c)',
         \A o \in captured' : \/ o \in captured
                              \/ o \in Observation /\ SourceVerifies(o)' /\ o.content \in Bytes,
         \A c \in created' : c \in created \/ (c \in ContextId /\ ContextVerifies(c)')
  PROVE  StoreInv'
<1> USE DEF Types
<1>1. \A e \in Actor : Knows(e)'
  BY OthersKnow DEF StoreInv, Only
<1>2. ContextsVouched'
  BY VouchedStays DEF StoreInv, ContextsVouched
<1>3. Reported'
  <2>1. \A o \in captured : o \in Observation /\ SourceVerifies(o)' /\ o.content \in Bytes
    BY VerifiedStays DEF StoreInv, Reported
  <2>2. \A c \in created : c \in ContextId /\ ContextVerifies(c)'
    BY VerifiedStays DEF StoreInv, Reported, ContextVerifies
  <2> QED BY <2>1, <2>2 DEF Reported
<1> QED BY <1>1, <1>2, <1>3 DEF StoreInv
-----------------------------------------------------------------------------
(* Steps that fill nothing *)

(* Who fills no directory of a store before and after a step that leaves the store
   alone leaves it accounted for. *)
LEMMA ContentElsewhere ==
  ASSUME StoreInv, NEW a \in Actor, ~At(a, "filling"), Filling' = [Filling EXCEPT ![a] = {}],
         content' = content, cuts'.content = cuts.content
  PROVE  ContentSlots'
<1>1. Filling' = Filling
  BY DEF Filling
<1> QED BY <1>1 DEF StoreInv, ContentSlots, Slots

LEMMA RecordElsewhere ==
  ASSUME StoreInv, NEW a \in Actor, ~At(a, "linking"), Linking' = [Linking EXCEPT ![a] = {}],
         record' = record, cuts'.record = cuts.record
  PROVE  RecordSlots'
<1>1. Linking' = Linking
  BY DEF Linking
<1> QED BY <1>1 DEF StoreInv, RecordSlots, Slots

LEMMA ContextElsewhere ==
  ASSUME StoreInv, NEW a \in Actor, ~At(a, "relinking"),
         Relinking' = [Relinking EXCEPT ![a] = {}],
         context' = context, cuts'.context = cuts.context
  PROVE  ContextSlots'
<1>1. Relinking' = Relinking
  BY DEF Relinking
<1> QED BY <1>1 DEF StoreInv, ContextSlots, Slots

(* The world may go on while the store stays as it is. *)
WorldGrows ==
  /\ WorldType'
  /\ \A c \in ContextId : meaning[c] # None => meaning'[c] = meaning[c]
  /\ source.edition <= source'.edition
  /\ source.edition = source'.edition => source' = source

(* What is reported is verified. *)
ReportsHold ==
  /\ \A o \in captured' : \/ o \in captured
                          \/ o \in Observation /\ SourceVerifies(o) /\ o.content \in Bytes
  /\ \A c \in created' : c \in created \/ (c \in ContextId /\ ContextVerifies(c))

FillsNothing(a) == ~At(a, "filling") /\ ~At(a, "linking") /\ ~At(a, "relinking")
FillsNothingNext(a) ==
  /\ Filling' = [Filling EXCEPT ![a] = {}]
  /\ Linking' = [Linking EXCEPT ![a] = {}]
  /\ Relinking' = [Relinking EXCEPT ![a] = {}]

LEMMA QuietStep ==
  ASSUME StoreInv, NEW a \in Actor, ActorType', Only(a), FillsNothing(a), FillsNothingNext(a),
         UNCHANGED <<content, record, context, cuts>>, WorldGrows, Knows(a)',
         ReportsHold
  PROVE  StoreInv' /\ Grows
<1>1. FileType' /\ WorldType'
  BY DEF StoreInv, FileType, WorldGrows
<1>2. Grows
  BY DEF StoreInv, FileType, Grows, WorldGrows
<1>3. ContentSlots' /\ RecordSlots' /\ ContextSlots'
  BY ContentElsewhere, RecordElsewhere, ContextElsewhere DEF FillsNothing, FillsNothingNext
<1>4. \A o : SourceVerifies(o)' <=> SourceVerifies(o)
  BY DEF SourceVerifies
<1>5. \A c : ContextVerifies(c)' <=> ContextVerifies(c)
  BY DEF ContextVerifies
<1>6. \A o \in captured' : \/ o \in captured
                           \/ o \in Observation /\ SourceVerifies(o)' /\ o.content \in Bytes
  BY <1>4 DEF ReportsHold
<1>7. \A c \in created' : c \in created \/ (c \in ContextId /\ ContextVerifies(c)')
  BY <1>5 DEF ReportsHold
<1>8. \A c \in ContextId : context'[c] # 0 => context[c] # 0 \/ Vouched(c)'
  OBVIOUS
<1>9. Types'
  BY <1>1 DEF Types
<1> QED BY <1>2, <1>3, <1>6, <1>7, <1>8, <1>9, Assembled

(* A step that leaves the world alone keeps its part of the invariant. *)
LEMMA WorldStays ==
  ASSUME StoreInv, UNCHANGED <<now, source, meaning>>
  PROVE  WorldGrows
  BY DEF StoreInv, WorldType, WorldGrows, Source

(* A step that changes what an invocation does, and nothing else. *)
LEMMA SilentStep ==
  ASSUME StoreInv, NEW a \in Actor, ActorType', Only(a), FillsNothing(a), FillsNothingNext(a),
         UNCHANGED <<now, source, content, record, context, meaning, captured, created, cuts>>,
         Knows(a)'
  PROVE  StoreInv' /\ Grows
<1>1. WorldGrows
  BY WorldStays
<1>2. UNCHANGED <<content, record, context, cuts>> /\ ReportsHold
  BY DEF ReportsHold
<1> QED BY <1>1, <1>2, QuietStep

(* ... which is how most steps that end the invocation or send it on look. *)
LEMMA SilentMove ==
  ASSUME StoreInv, NEW a \in Actor, FillsNothing(a),
         NEW l \in Labels \ {"idle", "ended", "filling", "linking", "relinking"},
         UNCHANGED <<now, source, content, record, context, meaning, captured, created, cuts>>,
         Ends(a) \/ (Goes(a, l) /\ Knows(a)')
  PROVE  StoreInv' /\ Grows
<1>1. CASE Ends(a)
  <2>1. ActorType' /\ Only(a) /\ FillsNothingNext(a) /\ actor'[a] = Ended /\ actor'[a].at = "ended"
    BY <1>1, EndsHere DEF StoreInv, FillsNothingNext
  <2>2. Knows(a)'
    BY <2>1 DEF Knows, CaptureLabels, ContextLabels
  <2> QED BY <2>1, <2>2, SilentStep
<1>2. CASE Goes(a, l) /\ Knows(a)'
  <2>1. ActorType' /\ Only(a) /\ FillsNothingNext(a)
    BY <1>2, GoesOn DEF StoreInv, FillsNothingNext
  <2> QED BY <1>2, <2>1, SilentStep
<1> QED BY <1>1, <1>2
-----------------------------------------------------------------------------
(* The steps of capture_source *)

LEMMA StartCaptureKeeps ==
  ASSUME StoreInv, NEW a \in Actor, StartCapture(a)
  PROVE  StoreInv' /\ Grows
<1> DEFINE t == Work("copying", source.bytes, source.edition, now, None)
<1>1. /\ t \in Task /\ t.at = "copying" /\ t.content \in Bytes
      /\ t.edition <= source.edition /\ source' = source
  BY DEF StoreInv, WorldType, Source, Content, Work, Task, Labels, CaptureLabels,
         StartCapture
<1>2. actor' = [actor EXCEPT ![a] = t]
  BY DEF StartCapture
<1> HIDE DEF t
<1>3. ActorType' /\ Only(a) /\ actor'[a] = t /\ FillsNothingNext(a)
  BY <1>1, <1>2, Becomes DEF StoreInv, FillsNothingNext
<1>4. Knows(a)'
  BY <1>1, <1>3 DEF Knows, CaptureLabels, ContextLabels
<1>5. UNCHANGED <<now, source, content, record, context, meaning, captured, created, cuts>>
  BY DEF StartCapture
<1>6. FillsNothing(a)
  BY DEF StartCapture, FillsNothing, At
<1> QED BY <1>3, <1>4, <1>5, <1>6, SilentStep

(* Unedited, the file gives the rest of the same bytes. *)
LEMMA ReadRestKeeps ==
  ASSUME StoreInv, NEW a \in Actor, ReadRest(a)
  PROVE  StoreInv' /\ Grows
<1>1. /\ At(a, "copying") /\ FillsNothing(a) /\ actor[a].content \in Bytes
      /\ actor[a].edition <= source.edition /\ actor[a] \in Task
      /\ UNCHANGED <<now, source, content, record, context, meaning, captured, created, cuts>>
  BY DEF ReadRest, FillsNothing, At, StoreInv, Knows, CaptureLabels, ActorType
<1>2. PICK b \in Content :
        /\ source.edition = actor[a].edition => b = actor[a].content
        /\ actor' = [actor EXCEPT ![a] = [@ EXCEPT !.at = "copied", !.content = b]]
  BY DEF ReadRest
<1> DEFINE t == [actor[a] EXCEPT !.at = "copied", !.content = b]
<1>3. t \in Task /\ t.at = "copied" /\ t.content = b /\ t.edition = actor[a].edition
  BY <1>1 DEF Task, Labels
<1>4. actor' = [actor EXCEPT ![a] = t]
  BY <1>2
<1> HIDE DEF t
<1>5. ActorType' /\ Only(a) /\ actor'[a] = t /\ FillsNothingNext(a)
  BY <1>3, <1>4, Becomes DEF StoreInv, FillsNothingNext
<1>6. Knows(a)'
  BY <1>1, <1>2, <1>3, <1>5 DEF Knows, CaptureLabels, ContextLabels
<1> QED BY <1>1, <1>5, <1>6, SilentStep

LEMMA CopySourceKeeps ==
  ASSUME StoreInv, NEW a \in Actor, CopySource(a)
  PROVE  StoreInv' /\ Grows
<1>1. /\ FillsNothing(a)
      /\ UNCHANGED <<now, source, content, record, context, meaning, captured, created, cuts>>
      /\ Ends(a) \/ (Goes(a, "staged") /\ actor[a].content \in Bytes)
  BY DEF CopySource, FillsNothing, At, StoreInv, Knows
<1>2. ASSUME Goes(a, "staged"), actor[a].content \in Bytes PROVE Knows(a)'
  <2>1. actor'[a].at = "staged" /\ actor'[a].content = actor[a].content
    BY <1>2, GoesOn DEF StoreInv, Labels, CaptureLabels
  <2> QED BY <1>2, <2>1 DEF Knows, CaptureLabels, ContextLabels
<1>3. "staged" \in Labels \ {"idle", "ended", "filling", "linking", "relinking"}
  BY DEF Labels, CaptureLabels
<1> QED BY <1>1, <1>2, <1>3, SilentMove

LEMMA ReuseContentKeeps ==
  ASSUME StoreInv, NEW a \in Actor, ReuseContent(a)
  PROVE  StoreInv' /\ Grows
<1>1. /\ FillsNothing(a)
      /\ UNCHANGED <<now, source, content, record, context, meaning, captured, created, cuts>>
      /\ \/ Ends(a)
         \/ Goes(a, "recording") /\ content[actor[a].content] = WholeContent
  BY DEF ReuseContent, FillsNothing, At
<1>2. ASSUME Goes(a, "recording"), content[actor[a].content] = WholeContent PROVE Knows(a)'
  <2>1. actor'[a].at = "recording" /\ actor'[a].content = actor[a].content
    BY <1>2, GoesOn DEF StoreInv, Labels, CaptureLabels
  <2> QED BY <1>1, <1>2, <2>1 DEF StoreInv, Knows, ReuseContent, At, CaptureLabels, ContextLabels
<1>3. "recording" \in Labels \ {"idle", "ended", "filling", "linking", "relinking"}
  BY DEF Labels, CaptureLabels
<1> QED BY <1>1, <1>2, <1>3, SilentMove

(* What a step that touches one store has to show. *)
LEMMA ContentStep ==
  ASSUME StoreInv, NEW a \in Actor, Types', Only(a), Knows(a)', ContentSlots',
         ~At(a, "linking"), ~At(a, "relinking"),
         Linking' = [Linking EXCEPT ![a] = {}], Relinking' = [Relinking EXCEPT ![a] = {}],
         UNCHANGED <<now, source, record, context, meaning, captured, created>>,
         cuts'.record = cuts.record, cuts'.context = cuts.context,
         \A b \in Content : content[b] <= content'[b]
  PROVE  StoreInv' /\ Grows
<1>1. WorldGrows
  BY WorldStays
<1>2. Grows
  BY <1>1 DEF StoreInv, FileType, Grows, WorldGrows
<1>3. RecordSlots' /\ ContextSlots'
  BY RecordElsewhere, ContextElsewhere
<1>4. \A c \in ContextId : context'[c] # 0 => context[c] # 0 \/ Vouched(c)'
  OBVIOUS
<1>5. captured' = captured /\ created' = created
  OBVIOUS
<1> QED BY <1>1, <1>2, <1>3, <1>4, <1>5, Assembled

LEMMA RecordStep ==
  ASSUME StoreInv, NEW a \in Actor, Types', Only(a), Knows(a)', RecordSlots',
         ~At(a, "filling"), ~At(a, "relinking"),
         Filling' = [Filling EXCEPT ![a] = {}], Relinking' = [Relinking EXCEPT ![a] = {}],
         UNCHANGED <<now, source, content, context, meaning, captured, created>>,
         cuts'.content = cuts.content, cuts'.context = cuts.context,
         \A o \in Observation : record[o] <= record'[o]
  PROVE  StoreInv' /\ Grows
<1>1. WorldGrows
  BY WorldStays
<1>2. Grows
  BY <1>1 DEF StoreInv, FileType, Grows, WorldGrows
<1>3. ContentSlots' /\ ContextSlots'
  BY ContentElsewhere, ContextElsewhere
<1>4. \A c \in ContextId : context'[c] # 0 => context[c] # 0 \/ Vouched(c)'
  OBVIOUS
<1>5. captured' = captured /\ created' = created
  OBVIOUS
<1> QED BY <1>1, <1>2, <1>3, <1>4, <1>5, Assembled

LEMMA ContextOnlyStep ==
  ASSUME StoreInv, NEW a \in Actor, Types', Only(a), Knows(a)', ContextSlots',
         ~At(a, "filling"), ~At(a, "linking"),
         Filling' = [Filling EXCEPT ![a] = {}], Linking' = [Linking EXCEPT ![a] = {}],
         UNCHANGED <<now, source, content, record, meaning, captured, created>>,
         cuts'.content = cuts.content, cuts'.record = cuts.record,
         \A c \in ContextId : context[c] <= context'[c],
         \A c \in ContextId : context'[c] # 0 => context[c] # 0 \/ Vouched(c)'
  PROVE  StoreInv' /\ Grows
<1>1. WorldGrows
  BY WorldStays
<1>2. Grows
  BY <1>1 DEF StoreInv, FileType, Grows, WorldGrows
<1>3. ContentSlots' /\ RecordSlots'
  BY ContentElsewhere, RecordElsewhere
<1>5. captured' = captured /\ created' = created
  OBVIOUS
<1> QED BY <1>1, <1>2, <1>3, <1>5, Assembled

LEMMA OpenContentKeeps ==
  ASSUME StoreInv, NEW a \in Actor, OpenContent(a)
  PROVE  StoreInv' /\ Grows
<1> DEFINE b == actor[a].content
<1>1. /\ At(a, "staged") /\ b \in Bytes /\ b \in Content
      /\ FillsNothing(a) /\ Filling[a] = {}
  BY DEF OpenContent, At, FillsNothing, StoreInv, Knows, Content, CaptureLabels, Filling
<1>2. CASE content[b] = 0
  <2>1. content' = [content EXCEPT ![b] = 1] /\ Goes(a, "filling")
        /\ UNCHANGED <<now, source, record, context, meaning, captured, created, cuts>>
    BY <1>2 DEF OpenContent
  <2>2. /\ ActorType' /\ Only(a) /\ actor'[a].at = "filling" /\ actor'[a].content = b
        /\ Filling' = [Filling EXCEPT ![a] = {b}]
        /\ Linking' = [Linking EXCEPT ![a] = {}] /\ Relinking' = [Relinking EXCEPT ![a] = {}]
    BY <2>1, GoesOn DEF StoreInv, Labels, CaptureLabels
  <2>3. Types'
    BY <1>1, <2>1, <2>2 DEF StoreInv, Types, FileType, WorldType, WholeContent
  <2>4. Knows(a)'
    BY <1>1, <2>2 DEF Knows, CaptureLabels, ContextLabels
  <2>5. ContentSlots'
    <3>1. WholeContent \in Nat /\ WholeContent > 1 /\ cuts.content \in SUBSET Content
      BY DEF WholeContent, StoreInv, FileType, Cuts
    <3>2. Slots(Content, [content EXCEPT ![b] = 1], WholeContent, cuts.content,
                [Filling EXCEPT ![a] = {b}])
      BY <1>1, <1>2, <3>1, SlotOpened, FillersTyped DEF StoreInv, FileType, ContentSlots
    <3> QED BY <2>1, <2>2, <3>2 DEF ContentSlots, Slots
  <2>6. \A s \in Content : content[s] <= content'[s]
    BY <1>1, <1>2, <2>1 DEF StoreInv, FileType, WholeContent
  <2> QED BY <1>1, <2>1, <2>2, <2>3, <2>4, <2>5, <2>6, ContentStep DEF FillsNothing
<1>3. CASE content[b] # 0
  <2>1. Goes(a, "reusing") /\
        UNCHANGED <<now, source, content, record, context, meaning, captured, created, cuts>>
    BY <1>3 DEF OpenContent
  <2>2. actor'[a].at = "reusing" /\ actor'[a].content = b
    BY <2>1, GoesOn DEF StoreInv, Labels, CaptureLabels
  <2>3. Knows(a)'
    BY <1>1, <2>2 DEF Knows, CaptureLabels, ContextLabels
  <2>4. "reusing" \in Labels \ {"idle", "ended", "filling", "linking", "relinking"}
    BY DEF Labels, CaptureLabels
  <2> QED BY <1>1, <2>1, <2>3, <2>4, SilentMove
<1> QED BY <1>2, <1>3

LEMMA FillContentKeeps ==
  ASSUME StoreInv, NEW a \in Actor, FillContent(a)
  PROVE  StoreInv' /\ Grows
<1> DEFINE b == actor[a].content
           l == IF content[b] + 1 = WholeContent THEN "recording" ELSE "filling"
<1>1. /\ At(a, "filling") /\ b \in Bytes /\ b \in Content
      /\ ~At(a, "linking") /\ ~At(a, "relinking") /\ Filling[a] = {b}
  BY DEF FillContent, At, StoreInv, Knows, Content, CaptureLabels, Filling
<1>2. /\ content' = [content EXCEPT ![b] = @ + 1] /\ Goes(a, l)
      /\ UNCHANGED <<now, source, record, context, meaning, captured, created, cuts>>
  BY DEF FillContent
<1>3. /\ content[b] + 1 \in 1 .. WholeContent
      /\ Slots(Content, [content EXCEPT ![b] = @ + 1], WholeContent, cuts.content,
               [Filling EXCEPT ![a] = IF content[b] + 1 = WholeContent THEN {} ELSE {b}])
  <2>1. WholeContent \in Nat /\ cuts.content \in SUBSET Content
    BY DEF WholeContent, StoreInv, FileType, Cuts
  <2> QED BY <1>1, <2>1, SlotFilled, FillersTyped DEF StoreInv, FileType, ContentSlots
<1>4. /\ ActorType' /\ Only(a) /\ actor'[a].at = l /\ actor'[a].content = b
      /\ Filling' = [Filling EXCEPT ![a] = IF l = "filling" THEN {b} ELSE {}]
      /\ Linking' = [Linking EXCEPT ![a] = {}] /\ Relinking' = [Relinking EXCEPT ![a] = {}]
  BY <1>2, GoesOn DEF StoreInv, Labels, CaptureLabels
<1>5. Types'
  BY <1>1, <1>2, <1>3, <1>4 DEF StoreInv, Types, FileType, WorldType
<1>6. Knows(a)'
  BY <1>1, <1>2, <1>4 DEF Knows, CaptureLabels, ContextLabels, StoreInv, FileType
<1>7. ContentSlots'
  BY <1>2, <1>3, <1>4 DEF ContentSlots, Slots
<1>8. \A s \in Content : content[s] <= content'[s]
  BY <1>1, <1>2 DEF StoreInv, FileType, WholeContent
<1> QED BY <1>1, <1>2, <1>4, <1>5, <1>6, <1>7, <1>8, ContentStep

LEMMA OpenRecordKeeps ==
  ASSUME StoreInv, NEW a \in Actor, OpenRecord(a)
  PROVE  StoreInv' /\ Grows
<1> DEFINE o == Mine(a)
<1>1. /\ At(a, "recording") /\ actor[a].content \in Bytes /\ content[actor[a].content] = WholeContent
      /\ FillsNothing(a) /\ Linking[a] = {}
  BY DEF OpenRecord, At, FillsNothing, StoreInv, Knows, CaptureLabels, Linking
<1>2. o \in Observation
  BY <1>1, FillersTyped DEF StoreInv, At, CaptureLabels
<1> HIDE DEF o
<1>3. CASE record[o] = 0
  <2>1. record' = [record EXCEPT ![o] = 1] /\ Goes(a, "linking")
        /\ UNCHANGED <<now, source, content, context, meaning, captured, created, cuts>>
    BY <1>3 DEF OpenRecord, WholeRecord, o
  <2>2. /\ ActorType' /\ Only(a) /\ actor'[a].at = "linking"
        /\ actor'[a].content = actor[a].content
        /\ Linking' = [Linking EXCEPT ![a] = {o}]
        /\ Filling' = [Filling EXCEPT ![a] = {}] /\ Relinking' = [Relinking EXCEPT ![a] = {}]
    BY <2>1, GoesOn DEF StoreInv, Labels, CaptureLabels, o
  <2>3. Types'
    BY <1>2, <2>1, <2>2 DEF StoreInv, Types, FileType, WorldType, WholeRecord
  <2>4. Knows(a)'
    BY <1>1, <2>1, <2>2 DEF Knows, CaptureLabels, ContextLabels
  <2>5. RecordSlots'
    <3>1. WholeRecord \in Nat /\ WholeRecord > 1 /\ cuts.record \in SUBSET Observation
      BY DEF WholeRecord, StoreInv, FileType, Cuts
    <3>2. Slots(Observation, [record EXCEPT ![o] = 1], WholeRecord, cuts.record,
                [Linking EXCEPT ![a] = {o}])
      BY <1>1, <1>2, <1>3, <3>1, SlotOpened, FillersTyped DEF StoreInv, FileType, RecordSlots
    <3> QED BY <2>1, <2>2, <3>2 DEF RecordSlots, Slots
  <2>6. \A s \in Observation : record[s] <= record'[s]
    BY <1>2, <1>3, <2>1 DEF StoreInv, FileType, WholeRecord
  <2> QED BY <1>1, <2>1, <2>2, <2>3, <2>4, <2>5, <2>6, RecordStep DEF FillsNothing
<1>4. CASE record[o] # 0
  <2>1. /\ Ends(a) \/ (Goes(a, "published") /\ record[o] = WholeRecord)
        /\ UNCHANGED <<now, source, content, record, context, meaning, captured, created, cuts>>
    BY <1>4 DEF OpenRecord, o
  <2>2. ASSUME Goes(a, "published"), record[o] = WholeRecord PROVE Knows(a)'
    <3>1. actor'[a].at = "published" /\ actor'[a].content = actor[a].content /\ Mine(a)' = o
      BY <2>2, GoesOn DEF StoreInv, Labels, CaptureLabels, o
    <3> QED BY <1>1, <2>1, <2>2, <3>1 DEF Knows, CaptureLabels, ContextLabels
  <2>3. "published" \in Labels \ {"idle", "ended", "filling", "linking", "relinking"}
    BY DEF Labels, CaptureLabels
  <2> QED BY <1>1, <2>1, <2>2, <2>3, SilentMove
<1> QED BY <1>3, <1>4

LEMMA LinkRecordKeeps ==
  ASSUME StoreInv, NEW a \in Actor, LinkRecord(a)
  PROVE  StoreInv' /\ Grows
<1> DEFINE o == Mine(a)
           l == IF record[o] + 1 = WholeRecord THEN "published" ELSE "linking"
<1>1. /\ At(a, "linking") /\ actor[a].content \in Bytes /\ content[actor[a].content] = WholeContent
      /\ ~At(a, "filling") /\ ~At(a, "relinking") /\ Linking[a] = {o}
  BY DEF LinkRecord, At, StoreInv, Knows, CaptureLabels, Linking
<1>2. o \in Observation
  BY <1>1, FillersTyped DEF StoreInv, At, CaptureLabels
<1>3. /\ record' = [record EXCEPT ![o] = @ + 1] /\ Goes(a, l)
      /\ UNCHANGED <<now, source, content, context, meaning, captured, created, cuts>>
  BY DEF LinkRecord
<1> HIDE DEF o
<1>4. /\ record[o] + 1 \in 1 .. WholeRecord
      /\ Slots(Observation, [record EXCEPT ![o] = @ + 1], WholeRecord, cuts.record,
               [Linking EXCEPT ![a] = IF record[o] + 1 = WholeRecord THEN {} ELSE {o}])
  <2>1. WholeRecord \in Nat /\ cuts.record \in SUBSET Observation
    BY DEF WholeRecord, StoreInv, FileType, Cuts
  <2> QED BY <1>1, <1>2, <2>1, SlotFilled, FillersTyped DEF StoreInv, FileType, RecordSlots
<1>5. /\ ActorType' /\ Only(a) /\ actor'[a].at = l /\ actor'[a].content = actor[a].content
      /\ Mine(a)' = o
      /\ Linking' = [Linking EXCEPT ![a] = IF l = "linking" THEN {o} ELSE {}]
      /\ Filling' = [Filling EXCEPT ![a] = {}] /\ Relinking' = [Relinking EXCEPT ![a] = {}]
  BY <1>3, GoesOn DEF StoreInv, Labels, CaptureLabels, o
<1>6. Types'
  BY <1>2, <1>3, <1>4, <1>5 DEF StoreInv, Types, FileType, WorldType
<1>7. Knows(a)'
  BY <1>1, <1>2, <1>3, <1>5 DEF Knows, CaptureLabels, ContextLabels, StoreInv, FileType
<1>8. RecordSlots'
  BY <1>3, <1>4, <1>5 DEF RecordSlots, Slots
<1>9. \A s \in Observation : record[s] <= record'[s]
  BY <1>2, <1>3 DEF StoreInv, FileType, WholeRecord
<1> QED BY <1>1, <1>3, <1>5, <1>6, <1>7, <1>8, <1>9, RecordStep

LEMMA ReportCaptureKeeps ==
  ASSUME StoreInv, NEW a \in Actor, ReportCapture(a)
  PROVE  StoreInv' /\ Grows
<1>1. /\ FillsNothing(a) /\ Ends(a)
      /\ actor[a].content \in Bytes /\ actor[a].at \in CaptureLabels
      /\ UNCHANGED <<now, source, content, record, context, meaning, cuts>>
  BY DEF ReportCapture, FillsNothing, At, StoreInv, Knows, CaptureLabels
<1>2. Mine(a) \in Observation /\ Mine(a).content \in Bytes
  BY <1>1, FillersTyped DEF StoreInv, Mine
<1>3. ReportsHold
  BY <1>1, <1>2 DEF ReportCapture, ReportsHold
<1>4. ActorType' /\ Only(a) /\ FillsNothingNext(a) /\ actor'[a] = Ended /\ actor'[a].at = "ended"
  BY <1>1, EndsHere DEF StoreInv, FillsNothingNext
<1>5. Knows(a)'
  BY <1>4 DEF Knows, CaptureLabels, ContextLabels
<1>6. WorldGrows /\ UNCHANGED <<content, record, context, cuts>>
  BY <1>1, WorldStays
<1> QED BY <1>1, <1>3, <1>4, <1>5, <1>6, QuietStep
-----------------------------------------------------------------------------
(* The steps of create_context *)

LEMMA StartContextKeeps ==
  ASSUME StoreInv, NEW a \in Actor, NEW class \in Temporal, NEW evidence \in SUBSET Observation,
         NEW c \in ContextId, StartContext(a, class, evidence, c)
  PROVE  StoreInv' /\ Grows
<1> DEFINE wanted == [class |-> class, at |-> now, evidence |-> evidence]
           t == Work("verifying", None, 0, now, c)
<1>1. /\ wanted \in Context /\ wanted # None
  BY AbsentAssumption DEF StoreInv, WorldType, Context, StartContext
<1>2. t \in Task /\ t.at = "verifying" /\ t.context = c
  BY EvidenceAssumption DEF StoreInv, WorldType, Work, Task, Labels, ContextLabels
<1>3. /\ At(a, "idle") /\ meaning[c] \in {wanted, None}
      /\ meaning' = [meaning EXCEPT ![c] = wanted] /\ actor' = [actor EXCEPT ![a] = t]
      /\ UNCHANGED <<content, record, context, cuts>> /\ UNCHANGED <<now, source, captured, created>>
  BY DEF StartContext
<1> HIDE DEF wanted, t
<1>4. ActorType' /\ Only(a) /\ actor'[a] = t /\ FillsNothingNext(a)
  BY <1>2, <1>3, Becomes DEF StoreInv, FillsNothingNext
<1>5. meaning'[c] = wanted /\ \A d \in ContextId \ {c} : meaning'[d] = meaning[d]
  BY <1>3 DEF StoreInv, WorldType
<1>6. WorldGrows
  <2>1. \A d \in ContextId : meaning[d] # None => meaning'[d] = meaning[d]
    BY <1>3, <1>5
  <2>2. WorldType'
    BY <1>1, <1>3 DEF StoreInv, WorldType
  <2>3. source.edition <= source'.edition /\ source' = source
    BY <1>3 DEF StoreInv, WorldType, Source
  <2> QED BY <2>1, <2>2, <2>3 DEF WorldGrows
<1>7. Knows(a)'
  BY <1>1, <1>2, <1>4, <1>5 DEF Knows, CaptureLabels, ContextLabels
<1>8. FillsNothing(a) /\ ReportsHold
  BY <1>3 DEF FillsNothing, At, ReportsHold
<1> QED BY <1>3, <1>4, <1>6, <1>7, <1>8, QuietStep

LEMMA VerifyReferencesKeeps ==
  ASSUME StoreInv, NEW a \in Actor, VerifyReferences(a)
  PROVE  StoreInv' /\ Grows
<1>1. /\ FillsNothing(a) /\ actor[a].at = "verifying"
      /\ actor[a].context \in ContextId /\ meaning[actor[a].context] # None
      /\ UNCHANGED <<now, source, content, record, context, meaning, captured, created, cuts>>
      /\ Ends(a) \/ (Goes(a, "context") /\ Vouched(actor[a].context))
  BY DEF VerifyReferences, FillsNothing, At, StoreInv, Knows, ContextLabels, Vouched
<1>2. ASSUME Goes(a, "context"), Vouched(actor[a].context) PROVE Knows(a)'
  <2>1. actor'[a].at = "context" /\ actor'[a].context = actor[a].context
    BY <1>2, GoesOn DEF StoreInv, Labels, ContextLabels
  <2> QED BY <1>1, <1>2, <2>1 DEF Knows, CaptureLabels, ContextLabels, Vouched, SourceVerifies
<1>3. "context" \in Labels \ {"idle", "ended", "filling", "linking", "relinking"}
  BY DEF Labels, ContextLabels
<1> QED BY <1>1, <1>2, <1>3, SilentMove

LEMMA OpenContextKeeps ==
  ASSUME StoreInv, NEW a \in Actor, OpenContext(a)
  PROVE  StoreInv' /\ Grows
<1> DEFINE c == actor[a].context
<1>1. /\ At(a, "context") /\ c \in ContextId /\ Vouched(c) /\ meaning[c] # None
      /\ FillsNothing(a) /\ Relinking[a] = {}
  BY DEF OpenContext, At, FillsNothing, StoreInv, Knows, ContextLabels, Relinking
<1>2. CASE context[c] = 0
  <2>1. context' = [context EXCEPT ![c] = 1] /\ Goes(a, "relinking")
        /\ UNCHANGED <<now, source, content, record, meaning, captured, created, cuts>>
    BY <1>2 DEF OpenContext, WholeRecord
  <2>2. /\ ActorType' /\ Only(a) /\ actor'[a].at = "relinking" /\ actor'[a].context = c
        /\ Relinking' = [Relinking EXCEPT ![a] = {c}]
        /\ Filling' = [Filling EXCEPT ![a] = {}] /\ Linking' = [Linking EXCEPT ![a] = {}]
    BY <2>1, GoesOn DEF StoreInv, Labels, ContextLabels
  <2>3. Types'
    BY <1>1, <2>1, <2>2 DEF StoreInv, Types, FileType, WorldType, WholeRecord
  <2>4. Vouched(c)'
    BY <1>1, <2>1, <2>2 DEF Vouched, SourceVerifies
  <2>5. Knows(a)'
    BY <1>1, <2>1, <2>2, <2>4 DEF Knows, CaptureLabels, ContextLabels, Vouched
  <2>6. ContextSlots'
    <3>1. WholeRecord \in Nat /\ WholeRecord > 1 /\ cuts.context \in SUBSET ContextId
      BY DEF WholeRecord, StoreInv, FileType, Cuts
    <3>2. Slots(ContextId, [context EXCEPT ![c] = 1], WholeRecord, cuts.context,
                [Relinking EXCEPT ![a] = {c}])
      BY <1>1, <1>2, <3>1, SlotOpened, FillersTyped DEF StoreInv, FileType, ContextSlots
    <3> QED BY <2>1, <2>2, <3>2 DEF ContextSlots, Slots
  <2>7. \A s \in ContextId : context[s] <= context'[s]
    BY <1>1, <1>2, <2>1 DEF StoreInv, FileType, WholeRecord
  <2>8. \A s \in ContextId : context'[s] # 0 => context[s] # 0 \/ Vouched(s)'
    <3>1. \A s \in ContextId \ {c} : context'[s] = context[s]
      BY <2>1 DEF StoreInv, FileType
    <3> QED BY <2>2, <2>4, <3>1 DEF Vouched, SourceVerifies
  <2> QED BY <1>1, <2>1, <2>2, <2>3, <2>5, <2>6, <2>7, <2>8, ContextOnlyStep DEF FillsNothing
<1>3. CASE context[c] # 0
  <2>1. /\ Ends(a) \/ (Goes(a, "written") /\ context[c] = WholeRecord)
        /\ UNCHANGED <<now, source, content, record, context, meaning, captured, created, cuts>>
    BY <1>3 DEF OpenContext
  <2>2. ASSUME Goes(a, "written"), context[c] = WholeRecord PROVE Knows(a)'
    <3>1. actor'[a].at = "written" /\ actor'[a].context = c
      BY <2>2, GoesOn DEF StoreInv, Labels, ContextLabels
    <3> QED BY <1>1, <2>1, <2>2, <3>1
          DEF Knows, CaptureLabels, ContextLabels, Vouched, SourceVerifies
  <2>3. "written" \in Labels \ {"idle", "ended", "filling", "linking", "relinking"}
    BY DEF Labels, ContextLabels
  <2> QED BY <1>1, <2>1, <2>2, <2>3, SilentMove
<1> QED BY <1>2, <1>3

LEMMA LinkContextKeeps ==
  ASSUME StoreInv, NEW a \in Actor, LinkContext(a)
  PROVE  StoreInv' /\ Grows
<1> DEFINE c == actor[a].context
           l == IF context[c] + 1 = WholeRecord THEN "written" ELSE "relinking"
<1>1. /\ At(a, "relinking") /\ c \in ContextId /\ Vouched(c) /\ meaning[c] # None
      /\ ~At(a, "filling") /\ ~At(a, "linking") /\ Relinking[a] = {c}
  BY DEF LinkContext, At, StoreInv, Knows, ContextLabels, Relinking
<1>2. /\ context' = [context EXCEPT ![c] = @ + 1] /\ Goes(a, l)
      /\ UNCHANGED <<now, source, content, record, meaning, captured, created, cuts>>
  BY DEF LinkContext
<1>3. /\ context[c] + 1 \in 1 .. WholeRecord
      /\ Slots(ContextId, [context EXCEPT ![c] = @ + 1], WholeRecord, cuts.context,
               [Relinking EXCEPT ![a] = IF context[c] + 1 = WholeRecord THEN {} ELSE {c}])
  <2>1. WholeRecord \in Nat /\ cuts.context \in SUBSET ContextId
    BY DEF WholeRecord, StoreInv, FileType, Cuts
  <2> QED BY <1>1, <2>1, SlotFilled, FillersTyped DEF StoreInv, FileType, ContextSlots
<1>4. /\ ActorType' /\ Only(a) /\ actor'[a].at = l /\ actor'[a].context = c
      /\ Relinking' = [Relinking EXCEPT ![a] = IF l = "relinking" THEN {c} ELSE {}]
      /\ Filling' = [Filling EXCEPT ![a] = {}] /\ Linking' = [Linking EXCEPT ![a] = {}]
  BY <1>2, GoesOn DEF StoreInv, Labels, ContextLabels
<1>5. Types'
  BY <1>1, <1>2, <1>3, <1>4 DEF StoreInv, Types, FileType, WorldType
<1>6. Vouched(c)'
  BY <1>1, <1>2, <1>4 DEF Vouched, SourceVerifies
<1>7. Knows(a)'
  BY <1>1, <1>2, <1>4, <1>6 DEF Knows, CaptureLabels, ContextLabels, Vouched, StoreInv, FileType
<1>8. ContextSlots'
  BY <1>2, <1>3, <1>4 DEF ContextSlots, Slots
<1>9. \A s \in ContextId : context[s] <= context'[s]
  BY <1>1, <1>2 DEF StoreInv, FileType, WholeRecord
<1>10. \A s \in ContextId : context'[s] # 0 => context[s] # 0 \/ Vouched(s)'
  <2>1. \A s \in ContextId \ {c} : context'[s] = context[s]
    BY <1>2 DEF StoreInv, FileType
  <2> QED BY <1>4, <1>6, <2>1 DEF Vouched, SourceVerifies
<1> QED BY <1>1, <1>2, <1>4, <1>5, <1>7, <1>8, <1>9, <1>10, ContextOnlyStep

LEMMA ReportContextKeeps ==
  ASSUME StoreInv, NEW a \in Actor, ReportContext(a)
  PROVE  StoreInv' /\ Grows
<1>1. /\ FillsNothing(a) /\ Ends(a) /\ actor[a].context \in ContextId
      /\ UNCHANGED <<now, source, content, record, context, meaning, cuts>>
      /\ captured' = captured
  BY DEF ReportContext, FillsNothing, At, StoreInv, Knows, ContextLabels
<1>2. ReportsHold
  BY <1>1 DEF ReportContext, ReportsHold
<1>3. ActorType' /\ Only(a) /\ FillsNothingNext(a) /\ actor'[a] = Ended /\ actor'[a].at = "ended"
  BY <1>1, EndsHere DEF StoreInv, FillsNothingNext
<1>4. Knows(a)'
  BY <1>3 DEF Knows, CaptureLabels, ContextLabels
<1>5. WorldGrows /\ UNCHANGED <<content, record, context, cuts>>
  BY <1>1, WorldStays
<1> QED BY <1>1, <1>2, <1>3, <1>4, <1>5, QuietStep
-----------------------------------------------------------------------------
(* What an invocation that stops leaves behind *)

(* The staged names are removed, or not: a directory is filled no further than whole. *)
LEMMA Cleaned ==
  /\ \A n \in 1 .. WholeContent : CleanContent(n) \in n .. WholeContent
  /\ \A n \in 1 .. WholeRecord : CleanRecord(n) \in n .. WholeRecord
<1>1. \A n \in 1 .. WholeContent : CleanContent(n) \in n .. WholeContent
  BY DEF CleanContent, TwoNamesContent, WholeContent
<1>2. \A n \in 1 .. WholeRecord : CleanRecord(n) \in n .. WholeRecord
  BY DEF CleanRecord, TwoNamesRecord, WholeRecord
<1> QED BY <1>1, <1>2

LEMMA StopsKeeps ==
  ASSUME StoreInv, NEW a \in Actor, NEW clean \in BOOLEAN, Leaves(a, clean), Ends(a),
         UNCHANGED <<now, source, meaning, captured, created>>
  PROVE  StoreInv' /\ Grows
<1>1. /\ ActorType' /\ Only(a) /\ actor'[a] = Ended /\ actor'[a].at = "ended"
      /\ Filling' = [Filling EXCEPT ![a] = {}]
      /\ Linking' = [Linking EXCEPT ![a] = {}]
      /\ Relinking' = [Relinking EXCEPT ![a] = {}]
  BY EndsHere DEF StoreInv
<1>2. Knows(a)'
  BY <1>1 DEF Knows, CaptureLabels, ContextLabels
<1>3. CASE At(a, "filling")
  <2> DEFINE b == actor[a].content
             n == IF clean THEN CleanContent(content[b]) ELSE content[b]
  <2>1. /\ b \in Content /\ Filling[a] = {b} /\ ~At(a, "linking") /\ ~At(a, "relinking")
        /\ content[b] \in 1 .. WholeContent
    BY <1>3 DEF At, StoreInv, Knows, Content, CaptureLabels, Filling, FileType, ContentSlots,
                Slots, WholeContent
  <2>2. n \in content[b] .. WholeContent /\ n \in 1 .. WholeContent
    BY <2>1, Cleaned DEF WholeContent
  <2>3. /\ content' = [content EXCEPT ![b] = n]
        /\ cuts' = IF n = WholeContent THEN cuts ELSE [cuts EXCEPT !.content = @ \cup {b}]
        /\ UNCHANGED <<record, context>>
    BY <1>3 DEF Leaves, At
  <2> HIDE DEF b, n
  <2>4. /\ cuts' \in Cuts
        /\ cuts'.content = (IF n = WholeContent THEN cuts.content ELSE cuts.content \cup {b})
        /\ cuts'.record = cuts.record /\ cuts'.context = cuts.context
    BY <2>1, <2>3 DEF StoreInv, FileType, Cuts
  <2>5. Types'
    BY <1>1, <2>1, <2>2, <2>3, <2>4 DEF StoreInv, Types, FileType, WorldType
  <2>6. ContentSlots'
    <3>1. WholeContent \in Nat /\ cuts.content \in SUBSET Content
      BY DEF WholeContent, StoreInv, FileType, Cuts
    <3>2. Slots(Content, [content EXCEPT ![b] = n], WholeContent,
                IF n = WholeContent THEN cuts.content ELSE cuts.content \cup {b},
                [Filling EXCEPT ![a] = {}])
      BY <2>1, <2>2, <3>1, SlotLeft, FillersTyped DEF StoreInv, FileType, ContentSlots
    <3> QED BY <1>1, <2>3, <2>4, <3>2 DEF ContentSlots, Slots
  <2>7. \A s \in Content : content[s] <= content'[s]
    BY <2>1, <2>2, <2>3 DEF StoreInv, FileType, WholeContent
  <2> QED BY <1>1, <1>2, <2>1, <2>3, <2>4, <2>5, <2>6, <2>7, ContentStep
<1>4. CASE At(a, "linking")
  <2> DEFINE o == Mine(a)
             n == IF clean THEN CleanRecord(record[o]) ELSE record[o]
  <2>1. o \in Observation
    BY <1>4, FillersTyped DEF StoreInv, At, CaptureLabels
  <2>2. /\ Linking[a] = {o} /\ ~At(a, "filling") /\ ~At(a, "relinking")
        /\ record[o] \in 1 .. WholeRecord
    BY <1>4, <2>1 DEF At, StoreInv, Linking, FileType, RecordSlots, Slots, WholeRecord
  <2>3. n \in record[o] .. WholeRecord /\ n \in 1 .. WholeRecord
    BY <2>2, Cleaned DEF WholeRecord
  <2>4. /\ record' = [record EXCEPT ![o] = n]
        /\ cuts' = IF n = WholeRecord THEN cuts ELSE [cuts EXCEPT !.record = @ \cup {o}]
        /\ UNCHANGED <<content, context>>
    BY <1>4 DEF Leaves, At
  <2> HIDE DEF o, n
  <2>5. /\ cuts' \in Cuts
        /\ cuts'.record = (IF n = WholeRecord THEN cuts.record ELSE cuts.record \cup {o})
        /\ cuts'.content = cuts.content /\ cuts'.context = cuts.context
    BY <2>1, <2>4 DEF StoreInv, FileType, Cuts
  <2>6. Types'
    BY <1>1, <2>1, <2>3, <2>4, <2>5 DEF StoreInv, Types, FileType, WorldType
  <2>7. RecordSlots'
    <3>1. WholeRecord \in Nat /\ cuts.record \in SUBSET Observation
      BY DEF WholeRecord, StoreInv, FileType, Cuts
    <3>2. Slots(Observation, [record EXCEPT ![o] = n], WholeRecord,
                IF n = WholeRecord THEN cuts.record ELSE cuts.record \cup {o},
                [Linking EXCEPT ![a] = {}])
      BY <2>1, <2>2, <2>3, <3>1, SlotLeft, FillersTyped DEF StoreInv, FileType, RecordSlots
    <3> QED BY <1>1, <2>4, <2>5, <3>2 DEF RecordSlots, Slots
  <2>8. \A s \in Observation : record[s] <= record'[s]
    BY <2>1, <2>3, <2>4 DEF StoreInv, FileType, WholeRecord
  <2> QED BY <1>1, <1>2, <2>2, <2>4, <2>5, <2>6, <2>7, <2>8, RecordStep
<1>5. CASE At(a, "relinking")
  <2> DEFINE c == actor[a].context
             n == IF clean THEN CleanRecord(context[c]) ELSE context[c]
  <2>1. c \in ContextId
    BY <1>5 DEF StoreInv, At, Knows, ContextLabels
  <2>2. /\ Relinking[a] = {c} /\ ~At(a, "filling") /\ ~At(a, "linking")
        /\ context[c] \in 1 .. WholeRecord
    BY <1>5, <2>1 DEF At, StoreInv, Relinking, FileType, ContextSlots, Slots, WholeRecord
  <2>3. n \in context[c] .. WholeRecord /\ n \in 1 .. WholeRecord
    BY <2>2, Cleaned DEF WholeRecord
  <2>4. /\ context' = [context EXCEPT ![c] = n]
        /\ cuts' = IF n = WholeRecord THEN cuts ELSE [cuts EXCEPT !.context = @ \cup {c}]
        /\ UNCHANGED <<content, record>>
    BY <1>5 DEF Leaves, At
  <2> HIDE DEF c, n
  <2>5. /\ cuts' \in Cuts
        /\ cuts'.context = (IF n = WholeRecord THEN cuts.context ELSE cuts.context \cup {c})
        /\ cuts'.content = cuts.content /\ cuts'.record = cuts.record
    BY <2>1, <2>4 DEF StoreInv, FileType, Cuts
  <2>6. Types'
    BY <1>1, <2>1, <2>3, <2>4, <2>5 DEF StoreInv, Types, FileType, WorldType
  <2>7. ContextSlots'
    <3>1. WholeRecord \in Nat /\ cuts.context \in SUBSET ContextId
      BY DEF WholeRecord, StoreInv, FileType, Cuts
    <3>2. Slots(ContextId, [context EXCEPT ![c] = n], WholeRecord,
                IF n = WholeRecord THEN cuts.context ELSE cuts.context \cup {c},
                [Relinking EXCEPT ![a] = {}])
      BY <2>1, <2>2, <2>3, <3>1, SlotLeft, FillersTyped DEF StoreInv, FileType, ContextSlots
    <3> QED BY <1>1, <2>4, <2>5, <3>2 DEF ContextSlots, Slots
  <2>8. \A s \in ContextId : context[s] <= context'[s]
    BY <2>1, <2>3, <2>4 DEF StoreInv, FileType, WholeRecord
  <2>9. \A s \in ContextId : context'[s] # 0 => context[s] # 0
    BY <2>1, <2>2, <2>4 DEF StoreInv, FileType
  <2> QED BY <1>1, <1>2, <2>2, <2>4, <2>5, <2>6, <2>7, <2>8, <2>9, ContextOnlyStep
<1>6. CASE FillsNothing(a)
  <2>1. UNCHANGED <<now, source, content, record, context, meaning, captured, created, cuts>>
    BY <1>6 DEF Leaves, FillsNothing
  <2> QED BY <1>1, <1>2, <1>6, <2>1, SilentStep DEF FillsNothingNext
<1> QED BY <1>3, <1>4, <1>5, <1>6 DEF FillsNothing
-----------------------------------------------------------------------------
(* Every step of the store *)

(* The owner and the clock touch neither the store nor an invocation. *)
LEMMA OutsideStep ==
  ASSUME StoreInv, UNCHANGED <<content, record, context, actor, captured, created, cuts>>,
         WorldGrows
  PROVE  StoreInv' /\ Grows
<1>1. Types'
  BY DEF StoreInv, Types, ActorType, FileType, WorldGrows
<1>2. Grows
  BY DEF StoreInv, FileType, Grows, WorldGrows
<1>3. \A e \in Actor : Knows(e)'
  BY <1>1, <1>2, OthersKnow DEF StoreInv, Types
<1>4. ContentSlots' /\ RecordSlots' /\ ContextSlots'
  BY DEF StoreInv, ContentSlots, RecordSlots, ContextSlots, Slots, Filling, Linking, Relinking,
         At, Mine
<1>5. ContextsVouched'
  BY <1>1, <1>2, VouchedStays DEF StoreInv, ContextsVouched, Types
<1>6. Reported'
  BY DEF StoreInv, Reported, SourceVerifies, ContextVerifies
<1> QED BY <1>1, <1>2, <1>3, <1>4, <1>5, <1>6 DEF StoreInv, Types

LEMMA EditSourceKeeps ==
  ASSUME StoreInv, NEW b \in Bytes, EditSource(b)
  PROVE  StoreInv' /\ Grows
<1>1. UNCHANGED <<content, record, context, actor, captured, created, cuts>>
  BY DEF EditSource
<1>2. source' \in Source /\ source.edition < source'.edition /\ UNCHANGED <<now, meaning>>
  BY EvidenceAssumption DEF EditSource, StoreInv, WorldType, Source
<1>3. WorldGrows
  BY <1>2 DEF StoreInv, WorldType, WorldGrows, Source
<1> QED BY <1>1, <1>3, OutsideStep

LEMMA TickKeeps ==
  ASSUME StoreInv, Tick
  PROVE  StoreInv' /\ Grows
<1>1. UNCHANGED <<content, record, context, actor, captured, created, cuts>>
  BY DEF Tick
<1>2. now' \in Time /\ UNCHANGED <<source, meaning>>
  BY EvidenceAssumption DEF Tick, StoreInv, WorldType, Time
<1>3. WorldGrows
  BY <1>2 DEF StoreInv, WorldType, WorldGrows, Source
<1> QED BY <1>1, <1>3, OutsideStep

LEMMA StoreStutters ==
  ASSUME StoreInv, UNCHANGED treeVars
  PROVE  StoreInv' /\ Grows
<1>1. /\ UNCHANGED <<content, record, context, actor, captured, created, cuts>>
      /\ UNCHANGED <<now, source, meaning>>
  BY DEF treeVars
<1> QED BY <1>1, WorldStays, OutsideStep

LEMMA StoreStarts ==
  ASSUME StoreInit
  PROVE  StoreInv
<1> USE EvidenceAssumption
<1>1. Idle \in Task /\ Idle.at = "idle"
  BY DEF Idle, Work, Task, Labels, Time
<1>2. ActorType
  BY <1>1 DEF StoreInit, ActorType
<1>3. FileType /\ WorldType
  BY DEF StoreInit, FileType, WorldType, WholeContent, WholeRecord, Cuts, Time, Source
<1>4. \A a \in Actor : Knows(a)
  BY <1>1 DEF StoreInit, Knows, CaptureLabels, ContextLabels
<1>5. ContentSlots /\ RecordSlots /\ ContextSlots
  BY <1>1 DEF StoreInit, ContentSlots, RecordSlots, ContextSlots, Slots, Filling, Linking,
              Relinking, At
<1>6. ContextsVouched /\ Reported
  BY DEF StoreInit, ContextsVouched, Reported
<1> QED BY <1>2, <1>3, <1>4, <1>5, <1>6 DEF StoreInv

LEMMA StoreSteps ==
  ASSUME StoreInv, StoreNext \/ UNCHANGED treeVars
  PROVE  StoreInv' /\ Grows
<1>1. ASSUME NEW a \in Actor, CaptureStep(a) PROVE StoreInv' /\ Grows
  BY <1>1, StartCaptureKeeps, ReadRestKeeps, CopySourceKeeps, OpenContentKeeps,
     FillContentKeeps, ReuseContentKeeps, OpenRecordKeeps, LinkRecordKeeps,
     ReportCaptureKeeps DEF CaptureStep
<1>2. ASSUME NEW a \in Actor, ContextStep(a) PROVE StoreInv' /\ Grows
  <2>1. ASSUME NEW class \in Temporal, NEW evidence \in SUBSET {o \in Observation : record[o] > 0},
               NEW c \in ContextId, StartContext(a, class, evidence, c)
        PROVE  StoreInv' /\ Grows
    <3>1. evidence \in SUBSET Observation
      OBVIOUS
    <3> QED BY <2>1, <3>1, StartContextKeeps
  <2> QED BY <1>2, <2>1, VerifyReferencesKeeps, OpenContextKeeps, LinkContextKeeps,
             ReportContextKeeps DEF ContextStep
<1>3. ASSUME NEW a \in Actor, ActorFails(a) \/ KillActor(a) PROVE StoreInv' /\ Grows
  <2>1. /\ Ends(a) /\ UNCHANGED <<now, source, meaning, captured, created>>
        /\ Leaves(a, TRUE) \/ Leaves(a, FALSE)
    BY <1>3 DEF ActorFails, KillActor
  <2> QED BY <2>1, StopsKeeps
<1> QED BY <1>1, <1>2, <1>3, EditSourceKeeps, TickKeeps, StoreStutters DEF StoreNext
-----------------------------------------------------------------------------
(* What the invariant says *)

(* What each invocation does, and how far each directory is, is of its type. *)
LEMMA StoreTyped ==
  ASSUME StoreInv
  PROVE  StoreTypeOK
<1>1. \A a \in Actor :
        \/ actor[a] \in {Idle, Ended}
        \/ actor[a].at \in {"copied"} \cup CaptureLabels /\ actor[a].time \in Time
           /\ actor[a].content \in Content
        \/ actor[a].at \in ContextLabels /\ actor[a].context \in ContextId
  BY DEF StoreInv, ActorType, Task, Labels, Knows, Content
<1>2. captured \subseteq Observation /\ created \subseteq ContextId
  BY DEF StoreInv, Reported
<1> QED BY <1>1, <1>2 DEF StoreInv, StoreTypeOK, FileType, WorldType, CaptureLabels, ContextLabels

(* A reported observation or context can be verified (CapturedStands). *)
LEMMA ReportsStand ==
  ASSUME StoreInv
  PROVE  CapturedStands
<1>1. \A c \in created : ContextVerifies(c) /\ Vouched(c) /\ c \in ContextId
  BY DEF StoreInv, Reported, ContextsVouched, ContextVerifies, WholeRecord
<1> QED BY <1>1 DEF StoreInv, Reported, CapturedStands, Vouched

(* An unfinished directory is being filled or was cut (BlockedOnlyByCut). *)
LEMMA UnfinishedIsCut ==
  ASSUME StoreInv
  PROVE  BlockedOnlyByCut
<1>1. \A b \in Content : content[b] \notin {0, WholeContent} =>
        b \in cuts.content \/ \E a \in Actor : At(a, "filling") /\ actor[a].content = b
  BY DEF StoreInv, ContentSlots, Slots, Filling
<1>2. \A o \in Observation : record[o] \notin {0, WholeRecord} =>
        o \in cuts.record \/ \E a \in Actor : At(a, "linking") /\ Mine(a) = o
  BY DEF StoreInv, RecordSlots, Slots, Linking
<1>3. \A c \in ContextId : context[c] \notin {0, WholeRecord} =>
        c \in cuts.context \/ \E a \in Actor : At(a, "relinking") /\ actor[a].context = c
  BY DEF StoreInv, ContextSlots, Slots, Relinking
<1>4. /\ \A b \in cuts.content : content[b] \notin {0, WholeContent}
      /\ \A o \in cuts.record : record[o] \notin {0, WholeRecord}
      /\ \A c \in cuts.context : context[c] \notin {0, WholeRecord}
  BY DEF StoreInv, ContentSlots, RecordSlots, ContextSlots, Slots
<1> QED BY <1>1, <1>2, <1>3, <1>4 DEF BlockedOnlyByCut

-----------------------------------------------------------------------------
(* The order of trees *)

EvidencePart == [content : [Content -> 0 .. WholeContent], record : [Observation -> 0 .. WholeRecord]]
RestPart     == [source : Source, context : [ContextId -> 0 .. WholeRecord]]
AnyPart      == EvidencePart \cup RestPart
PartType(p)  == IF p = "evidence" THEN EvidencePart ELSE RestPart

Image == {t \in [Part -> AnyPart] : \A p \in Part : t[p] \in PartType(p)}

EvidenceBefore(s, t) ==
  /\ \A b \in Content : s.content[b] <= t.content[b]
  /\ \A o \in Observation : s.record[o] <= t.record[o]

RestBefore(s, t) ==
  /\ \A c \in ContextId : s.context[c] <= t.context[c]
  /\ s.source.edition <= t.source.edition
  /\ s.source.edition = t.source.edition => s.source = t.source

Before(p, s, t) == IF p = "evidence" THEN EvidenceBefore(s, t) ELSE RestBefore(s, t)

(* What was read of both parts lies before a tree. *)
Precedes(s, t) == \A p \in Part : Before(p, s[p], t[p])

LEMMA BeforeIsOrder ==
  ASSUME NEW p \in Part, NEW s \in PartType(p), NEW t \in PartType(p), NEW u \in PartType(p)
  PROVE  /\ Before(p, s, s)
         /\ Before(p, s, t) /\ Before(p, t, u) => Before(p, s, u)
         /\ Before(p, s, t) /\ Before(p, t, s) => s = t
<1>1. CASE p = "evidence"
  <2>1. s \in EvidencePart /\ t \in EvidencePart /\ u \in EvidencePart
    BY <1>1 DEF PartType
  <2>2. EvidenceBefore(s, s)
    BY <2>1 DEF EvidencePart, EvidenceBefore, WholeContent, WholeRecord
  <2>3. EvidenceBefore(s, t) /\ EvidenceBefore(t, u) => EvidenceBefore(s, u)
    BY <2>1 DEF EvidencePart, EvidenceBefore, WholeContent, WholeRecord
  <2>4. EvidenceBefore(s, t) /\ EvidenceBefore(t, s) => s = t
    <3>1. ASSUME EvidenceBefore(s, t), EvidenceBefore(t, s)
          PROVE  s.content = t.content /\ s.record = t.record
      BY <2>1, <3>1 DEF EvidencePart, EvidenceBefore, WholeContent, WholeRecord
    <3> QED BY <2>1, <3>1 DEF EvidencePart
  <2> QED BY <1>1, <2>2, <2>3, <2>4 DEF Before
<1>2. CASE p # "evidence"
  <2>1. s \in RestPart /\ t \in RestPart /\ u \in RestPart
    BY <1>2 DEF PartType
  <2>2. RestBefore(s, s)
    BY <2>1 DEF RestPart, RestBefore, WholeRecord, Source
  <2>3. RestBefore(s, t) /\ RestBefore(t, u) => RestBefore(s, u)
    BY <2>1, EvidenceAssumption DEF RestPart, RestBefore, WholeRecord, Source
  <2>4. RestBefore(s, t) /\ RestBefore(t, s) => s = t
    <3>1. ASSUME RestBefore(s, t), RestBefore(t, s)
          PROVE  s.context = t.context /\ s.source = t.source
      BY <2>1, <3>1, EvidenceAssumption DEF RestPart, RestBefore, WholeRecord, Source
    <3> QED BY <2>1, <3>1 DEF RestPart
  <2> QED BY <1>2, <2>2, <2>3, <2>4 DEF Before
<1> QED BY <1>1, <1>2

(* A tree is the tree of its two parts. *)
LEMMA SameTree ==
  ASSUME NEW s \in Image, NEW t \in Image, \A p \in Part : s[p] = t[p]
  PROVE  s = t
  BY DEF Image

(* The data tree is of its type, and a step of the store only grows it. *)
LEMMA TreeTyped ==
  ASSUME FileType, WorldType
  PROVE  Tree \in Image
<1>1. [content |-> content, record |-> record] \in EvidencePart
  BY DEF FileType, EvidencePart
<1>2. [source |-> source, context |-> context] \in RestPart
  BY DEF FileType, WorldType, RestPart
<1> QED BY <1>1, <1>2 DEF Tree, Image, PartType, AnyPart

LEMMA TreeGrows ==
  ASSUME FileType', WorldType', Grows
  PROVE  Tree' \in Image /\ Precedes(Tree, Tree')
<1>1. EvidenceBefore(Tree["evidence"], Tree'["evidence"])
  BY DEF Grows, Tree, Part, EvidenceBefore
<1>2. RestBefore(Tree["rest"], Tree'["rest"])
  BY DEF Grows, Tree, Part, RestBefore
<1>3. [content |-> content', record |-> record'] \in EvidencePart
  BY DEF FileType, EvidencePart
<1>4. [source |-> source', context |-> context'] \in RestPart
  BY DEF FileType, WorldType, RestPart
<1>5. Tree' \in Image
  BY <1>3, <1>4 DEF Tree, Image, PartType, AnyPart
<1> QED BY <1>1, <1>2, <1>5 DEF Precedes, Before, Part
-----------------------------------------------------------------------------
(* The inductive invariant *)

CreateLabels  == {"none", "scanning", "streaming", "rescanning", "sealing", "unlinking",
                  "created", "left"}
RestoreLabels == {"none", "writing", "marking", "unlinking", "restored", "left"}

BackupRecord ==
  [at : CreateLabels, left : SUBSET Part, scanned : [Part -> AnyPart \cup {None}] \cup {None},
   archive : Image \cup {None}, sealed : Image \cup {None}, receipt : 0 .. 2,
   instant : Image \cup {None}]
CopyRecord ==
  [at : RestoreLabels, of : Backup \cup {None}, manifest : Image \cup {None},
   tree : Image \cup {None}, marker : 0 .. 2]

CheckpointType == backup \in [Backup -> BackupRecord] /\ copy \in [Copy -> CopyRecord]

(* A tree that was the data tree at some instant: it lies before the present one,
   and every context in it has its evidence beside it, under a meaning that is fixed. *)
Past(t) ==
  /\ t \in Image
  /\ Precedes(t, Tree)
  /\ Closed(t)
  /\ \A c \in ContextId : t["rest"].context[c] = WholeRecord => meaning[c] # None

(* What an operation of create has established. *)
Created(k) ==
  LET b == backup[k] IN
  /\ b.at = "scanning" => /\ b.left # {} /\ b.scanned \in [Part -> AnyPart \cup {None}]
                          /\ \A p \in Part \ b.left : /\ b.scanned[p] \in PartType(p)
                                                      /\ Before(p, b.scanned[p], Tree[p])
  /\ b.at \in {"streaming", "rescanning"} =>
       b.scanned \in Image /\ Precedes(b.scanned, b.instant)
  /\ b.at = "rescanning" => /\ b.left # {} /\ b.archive = b.scanned
                            /\ \A p \in Part \ b.left : b.scanned[p] = b.instant[p]
  /\ b.at = "sealing" => b.archive = b.instant
  /\ b.at \in {"streaming", "rescanning", "sealing"} \/ b.receipt > 0 => Past(b.instant)
  /\ b.receipt > 0 => b.sealed = b.instant
  /\ b.receipt > 0 => b.at \in {"unlinking", "created", "left"}
  /\ b.at = "unlinking" => b.receipt = 2
  /\ b.receipt = 1 => b.at \in {"created", "left"}

(* What a restore has established: the checkpoint it copies stays what it is. *)
Restored(d) ==
  LET c == copy[d] IN
  /\ c.at \in {"writing", "marking", "unlinking"} \/ c.marker > 0 =>
       c.of \in Backup /\ backup[c.of].receipt = 1
  /\ c.at = "writing" => c.manifest = backup[c.of].sealed
  /\ c.at \in {"marking", "unlinking"} \/ c.marker > 0 => c.tree = backup[c.of].instant

CheckpointInv ==
  /\ CheckpointType
  /\ \A k \in Backup : Created(k)
  /\ \A d \in Copy : Restored(d)
-----------------------------------------------------------------------------
(* What was the tree once *)

(* The data tree is a past tree of itself: its contexts were vouched for. *)
LEMMA TreeIsPast ==
  ASSUME StoreInv
  PROVE  Past(Tree)
<1>1. Tree \in Image
  BY TreeTyped DEF StoreInv
<1>2. Precedes(Tree, Tree)
  BY <1>1, BeforeIsOrder DEF Precedes, Image
<1>3. \A c \in ContextId : Tree["rest"].context[c] = WholeRecord =>
        Vouched(c) /\ meaning[c].evidence \subseteq Observation
  BY EvidenceTyped DEF StoreInv, ContextsVouched, Tree, Part, WholeRecord, Vouched
<1>4. Closed(Tree)
  BY <1>3 DEF Closed, Vouched, SourceVerifies, Tree, Part
<1>5. \A c \in ContextId : Tree["rest"].context[c] = WholeRecord => meaning[c] # None
  BY <1>3 DEF Vouched
<1> QED BY <1>1, <1>2, <1>4, <1>5 DEF Past

(* A past tree stays one while the store grows. *)
LEMMA PastStays ==
  ASSUME StoreInv, StoreInv', Grows, NEW t, Past(t)
  PROVE  Past(t)'
<1>1. t \in Image /\ Tree \in Image /\ Tree' \in Image /\ Precedes(Tree, Tree')
  BY TreeTyped, TreeGrows DEF StoreInv, Past
<1>2. Precedes(t, Tree')
  BY <1>1, BeforeIsOrder DEF Precedes, Past, Image
<1>3. \A c \in ContextId : t["rest"].context[c] = WholeRecord =>
        meaning[c] # None /\ meaning'[c] = meaning[c]
  BY DEF Past, Grows
<1>4. Closed(t)'
  BY <1>3 DEF Past, Closed
<1> QED BY <1>1, <1>2, <1>3, <1>4 DEF Past

(* An operation of create keeps what it has established while the store grows. *)
LEMMA CreatedStays ==
  ASSUME StoreInv, StoreInv', Grows, CheckpointType, NEW k \in Backup, Created(k),
         backup'[k] = backup[k]
  PROVE  Created(k)'
<1> DEFINE b == backup[k]
<1>1. Tree \in Image /\ Tree' \in Image /\ Precedes(Tree, Tree')
  BY TreeTyped, TreeGrows DEF StoreInv
<1>2. b.at = "scanning" => \A p \in Part \ b.left : Before(p, b.scanned[p], Tree'[p])
  BY <1>1, BeforeIsOrder DEF Created, Image, Precedes
<1>3. Past(b.instant) => Past(b.instant)'
  BY PastStays
<1> QED BY <1>2, <1>3 DEF Created

(* A restore keeps what it has established while its checkpoint stays sealed. *)
SealsStay ==
  \A k \in Backup : backup[k].receipt = 1 =>
    /\ backup'[k].receipt = 1
    /\ backup'[k].sealed = backup[k].sealed /\ backup'[k].instant = backup[k].instant

LEMMA RestoredStays ==
  ASSUME NEW d \in Copy, Restored(d), SealsStay, copy'[d] = copy[d]
  PROVE  Restored(d)'
<1> DEFINE c == copy[d]
<1>1. c.at \in {"writing", "marking", "unlinking"} \/ c.marker > 0 =>
        /\ c.of \in Backup /\ backup'[c.of].receipt = 1
        /\ backup'[c.of].sealed = backup[c.of].sealed
        /\ backup'[c.of].instant = backup[c.of].instant
  BY DEF Restored, SealsStay
<1> QED BY <1>1 DEF Restored
-----------------------------------------------------------------------------
(* The steps of create *)

(* What a step of one operation has to show. *)
LEMMA CreateMoves ==
  ASSUME StoreInv, CheckpointInv, UNCHANGED treeVars, NEW k \in Backup, NEW b \in BackupRecord,
         Sets(k, b), copy' = copy, Created(k)',
         backup[k].receipt = 1 => /\ b.receipt = 1
                                  /\ b.sealed = backup[k].sealed
                                  /\ b.instant = backup[k].instant
  PROVE  CheckpointInv'
<1>1. StoreInv' /\ Grows
  BY StoreStutters
<1>2. backup'[k] = b /\ \A j \in Backup \ {k} : backup'[j] = backup[j]
  BY DEF Sets, CheckpointInv, CheckpointType
<1>3. CheckpointType'
  BY DEF Sets, CheckpointInv, CheckpointType
<1>4. \A j \in Backup : Created(j)'
  BY <1>1, <1>2, CreatedStays DEF CheckpointInv
<1>5. SealsStay
  BY <1>2 DEF SealsStay
<1>6. \A d \in Copy : Restored(d)'
  BY <1>5, RestoredStays DEF CheckpointInv
<1> QED BY <1>3, <1>4, <1>6 DEF CheckpointInv

(* An operation that has begun nothing. *)
LEMMA NoBackupTyped ==
  /\ NoBackup \in BackupRecord /\ NoBackup.at = "none" /\ NoBackup.receipt = 0
  /\ NoBackup.left = {}
  BY DEF NoBackup, BackupRecord, CreateLabels, Part

LEMMA StartCheckpointKeeps ==
  ASSUME StoreInv, CheckpointInv, NEW k \in Backup, StartCheckpoint(k)
  PROVE  CheckpointInv'
<1> DEFINE m == [NoBackup EXCEPT !.at = "scanning", !.left = Part,
                                 !.scanned = [p \in Part |-> None]]
<1>1. /\ m \in BackupRecord /\ m.at = "scanning" /\ m.left = Part /\ m.receipt = 0
      /\ m.scanned \in [Part -> AnyPart \cup {None}]
  <2>1. [p \in Part |-> None] \in [Part -> AnyPart \cup {None}]
    OBVIOUS
  <2> QED BY <2>1, NoBackupTyped DEF BackupRecord, CreateLabels
<1>2. Part # {}
  BY DEF Part
<1>3. /\ Sets(k, m) /\ UNCHANGED treeVars /\ copy' = copy /\ backup[k].at = "none"
  BY DEF StartCheckpoint, storeVars
<1> HIDE DEF m
<1>4. backup'[k] = m
  BY <1>3 DEF Sets, CheckpointInv, CheckpointType
<1>5. Created(k)'
  BY <1>1, <1>2, <1>4 DEF Created
<1>6. backup[k].receipt # 1
  BY <1>3 DEF CheckpointInv, Created
<1> QED BY <1>1, <1>3, <1>5, <1>6, CreateMoves

LEMMA ScanPartKeeps ==
  ASSUME StoreInv, CheckpointInv, NEW k \in Backup, NEW p \in Part, ScanPart(k, p)
  PROVE  CheckpointInv'
<1> DEFINE b == backup[k]
           m == [b EXCEPT !.scanned = [@ EXCEPT ![p] = Tree[p]],
                          !.left = b.left \ {p},
                          !.at = IF b.left = {p} THEN "streaming" ELSE "scanning",
                          !.instant = IF b.left = {p} THEN Tree ELSE None]
<1>1. /\ b \in BackupRecord /\ b.at = "scanning" /\ p \in b.left /\ b.receipt = 0
      /\ b.scanned \in [Part -> AnyPart \cup {None}]
      /\ \A q \in Part \ b.left : b.scanned[q] \in PartType(q) /\ Before(q, b.scanned[q], Tree[q])
  BY DEF ScanPart, CheckpointInv, CheckpointType, Created, BackupRecord
<1>2. /\ Sets(k, m) /\ UNCHANGED treeVars /\ copy' = copy
  BY DEF ScanPart, storeVars
<1>3. /\ Tree \in Image /\ \A q \in Part : Tree[q] \in PartType(q) /\ Tree[q] \in AnyPart
  BY TreeTyped DEF StoreInv, Image
<1> DEFINE s == [b.scanned EXCEPT ![p] = Tree[p]]
<1>4. /\ s \in [Part -> AnyPart \cup {None}]
      /\ \A q \in Part \ (b.left \ {p}) : s[q] \in PartType(q) /\ Before(q, s[q], Tree[q])
  BY <1>1, <1>3, BeforeIsOrder
<1>5. /\ m \in BackupRecord /\ m.scanned = s /\ m.left = b.left \ {p} /\ m.receipt = 0
      /\ m.at = (IF b.left = {p} THEN "streaming" ELSE "scanning")
      /\ m.instant = (IF b.left = {p} THEN Tree ELSE None)
  BY <1>1, <1>3, <1>4 DEF BackupRecord, CreateLabels
<1> HIDE DEF m, s
<1>6. backup'[k] = m /\ Tree' = Tree
  BY <1>2 DEF Sets, CheckpointInv, CheckpointType, treeVars, Tree
<1>7. CASE b.left = {p}
  <2>1. s \in Image /\ Precedes(s, Tree)
    BY <1>4, <1>7 DEF Image, Precedes, AnyPart, PartType
  <2>2. Past(Tree)'
    <3>1. StoreInv' /\ Grows
      BY <1>2, StoreStutters
    <3>2. \A t : Past(t) => Past(t)'
      BY <3>1, PastStays
    <3> QED BY <1>6, <3>2, TreeIsPast
  <2>3. Created(k)'
    BY <1>5, <1>6, <1>7, <2>1, <2>2 DEF Created
  <2> QED BY <1>1, <1>2, <1>5, <2>3, CreateMoves
<1>8. CASE b.left # {p}
  <2>1. b.left \ {p} # {}
    BY <1>1, <1>8
  <2>2. Created(k)'
    BY <1>4, <1>5, <1>6, <1>8, <2>1 DEF Created
  <2> QED BY <1>1, <1>2, <1>5, <2>2, CreateMoves
<1> QED BY <1>7, <1>8

LEMMA StreamArchiveKeeps ==
  ASSUME StoreInv, CheckpointInv, NEW k \in Backup, StreamArchive(k)
  PROVE  CheckpointInv'
<1> DEFINE b == backup[k]
           m == [b EXCEPT !.at = "rescanning", !.left = Part, !.archive = b.scanned]
<1>1. /\ b \in BackupRecord /\ b.at = "streaming" /\ b.receipt = 0
      /\ b.scanned \in Image /\ Precedes(b.scanned, b.instant) /\ Past(b.instant)
  BY DEF StreamArchive, CheckpointInv, CheckpointType, Created, BackupRecord
<1>2. /\ Sets(k, m) /\ UNCHANGED treeVars /\ copy' = copy
  BY DEF StreamArchive, storeVars
<1>3. /\ m \in BackupRecord /\ m.at = "rescanning" /\ m.left = Part /\ m.receipt = 0
      /\ m.scanned = b.scanned /\ m.archive = b.scanned /\ m.instant = b.instant
  BY <1>1 DEF BackupRecord, CreateLabels
<1> HIDE DEF m
<1>4. backup'[k] = m /\ Tree' = Tree
  BY <1>2 DEF Sets, CheckpointInv, CheckpointType, treeVars, Tree
<1>5. Past(b.instant)'
  BY <1>1, <1>2, <1>3, <1>4, StoreStutters, PastStays
<1>6. Created(k)'
  BY <1>1, <1>3, <1>4, <1>5 DEF Created, Part
<1> QED BY <1>1, <1>2, <1>3, <1>6, CreateMoves

(* The heart of the argument: a part that the second scan finds as the first one read
   it was the same at the instant in between. *)
LEMMA RescanPartKeeps ==
  ASSUME StoreInv, CheckpointInv, NEW k \in Backup, NEW p \in Part, RescanPart(k, p)
  PROVE  CheckpointInv'
<1> DEFINE b == backup[k]
           m == [b EXCEPT !.left = b.left \ {p},
                          !.at = IF b.left = {p} THEN "sealing" ELSE "rescanning"]
<1>1. /\ b \in BackupRecord /\ b.at = "rescanning" /\ b.receipt = 0 /\ p \in b.left
      /\ b.scanned \in Image /\ Precedes(b.scanned, b.instant) /\ Past(b.instant)
      /\ b.archive = b.scanned
      /\ \A q \in Part \ b.left : b.scanned[q] = b.instant[q]
      /\ Tree[p] = b.scanned[p]
  BY DEF RescanPart, CheckpointInv, CheckpointType, Created, BackupRecord
<1>2. /\ Sets(k, m) /\ UNCHANGED treeVars /\ copy' = copy
  BY DEF RescanPart, storeVars
<1>3. /\ m \in BackupRecord /\ m.left = b.left \ {p} /\ m.receipt = 0
      /\ m.at = (IF b.left = {p} THEN "sealing" ELSE "rescanning")
      /\ m.scanned = b.scanned /\ m.archive = b.archive /\ m.instant = b.instant
  BY <1>1 DEF BackupRecord, CreateLabels
<1> HIDE DEF m
<1>4. backup'[k] = m /\ Tree' = Tree
  BY <1>2 DEF Sets, CheckpointInv, CheckpointType, treeVars, Tree
<1>5. Past(b.instant)'
  BY <1>1, <1>2, <1>3, <1>4, StoreStutters, PastStays
<1>6. b.scanned[p] = b.instant[p]
  <2>1. /\ b.scanned[p] \in PartType(p) /\ b.instant[p] \in PartType(p)
        /\ Before(p, b.scanned[p], b.instant[p]) /\ Before(p, b.instant[p], b.scanned[p])
    BY <1>1 DEF Past, Precedes, Image
  <2> QED BY <2>1, BeforeIsOrder
<1>7. CASE b.left = {p}
  <2>1. b.archive = b.instant
    BY <1>1, <1>6, <1>7, SameTree DEF Past
  <2>2. Created(k)'
    BY <1>3, <1>4, <1>5, <1>7, <2>1 DEF Created
  <2> QED BY <1>1, <1>2, <1>3, <2>2, CreateMoves
<1>8. CASE b.left # {p}
  <2>1. b.left \ {p} # {} /\ \A q \in Part \ (b.left \ {p}) : b.scanned[q] = b.instant[q]
    BY <1>1, <1>6, <1>8
  <2>2. Created(k)'
    BY <1>1, <1>3, <1>4, <1>5, <1>8, <2>1 DEF Created
  <2> QED BY <1>1, <1>2, <1>3, <2>2, CreateMoves
<1> QED BY <1>7, <1>8

LEMMA LinkReceiptKeeps ==
  ASSUME StoreInv, CheckpointInv, NEW k \in Backup, LinkReceipt(k)
  PROVE  CheckpointInv'
<1> DEFINE b == backup[k]
           m == [b EXCEPT !.at = "unlinking", !.sealed = b.archive, !.receipt = 2]
<1>1. /\ b \in BackupRecord /\ b.at = "sealing" /\ b.receipt = 0
      /\ b.archive = b.instant /\ Past(b.instant)
  BY DEF LinkReceipt, CheckpointInv, CheckpointType, Created, BackupRecord
<1>2. /\ Sets(k, m) /\ UNCHANGED treeVars /\ copy' = copy
  BY DEF LinkReceipt, storeVars
<1>3. /\ m \in BackupRecord /\ m.at = "unlinking" /\ m.receipt = 2
      /\ m.sealed = b.archive /\ m.instant = b.instant
  <2>1. 2 \in 0 .. 2 /\ m.receipt = 2
    BY <1>1 DEF BackupRecord
  <2>2. m.at \in CreateLabels /\ m.left \in SUBSET Part
        /\ m.scanned \in [Part -> AnyPart \cup {None}] \cup {None}
        /\ m.archive \in Image \cup {None} /\ m.sealed \in Image \cup {None}
        /\ m.instant \in Image \cup {None}
    BY <1>1 DEF BackupRecord, CreateLabels
  <2> QED BY <1>1, <2>1, <2>2 DEF BackupRecord
<1> HIDE DEF m
<1>4. backup'[k] = m
  BY <1>2 DEF Sets, CheckpointInv, CheckpointType
<1>5. Past(b.instant)'
  BY <1>1, <1>2, <1>3, <1>4, StoreStutters, PastStays
<1>6. Created(k)'
  BY <1>1, <1>3, <1>4, <1>5 DEF Created
<1> QED BY <1>1, <1>2, <1>3, <1>6, CreateMoves

LEMMA UnlinkTemporaryKeeps ==
  ASSUME StoreInv, CheckpointInv, NEW k \in Backup, UnlinkTemporary(k)
  PROVE  CheckpointInv'
<1> DEFINE b == backup[k]
           m == [b EXCEPT !.at = "created", !.receipt = 1]
<1>1. /\ b \in BackupRecord /\ b.at = "unlinking" /\ b.receipt = 2
      /\ b.sealed = b.instant /\ Past(b.instant)
  BY DEF UnlinkTemporary, CheckpointInv, CheckpointType, Created, BackupRecord
<1>2. /\ Sets(k, m) /\ UNCHANGED treeVars /\ copy' = copy
  BY DEF UnlinkTemporary, storeVars
<1>3. /\ m \in BackupRecord /\ m.at = "created" /\ m.receipt = 1
      /\ m.sealed = b.sealed /\ m.instant = b.instant
  <2>1. 1 \in 0 .. 2 /\ m.receipt = 1
    BY <1>1 DEF BackupRecord
  <2>2. m.at \in CreateLabels /\ m.left \in SUBSET Part
        /\ m.scanned \in [Part -> AnyPart \cup {None}] \cup {None}
        /\ m.archive \in Image \cup {None} /\ m.sealed \in Image \cup {None}
        /\ m.instant \in Image \cup {None}
    BY <1>1 DEF BackupRecord, CreateLabels
  <2> QED BY <1>1, <2>1, <2>2 DEF BackupRecord
<1> HIDE DEF m
<1>4. backup'[k] = m
  BY <1>2 DEF Sets, CheckpointInv, CheckpointType
<1>5. Past(b.instant)'
  BY <1>1, <1>2, <1>3, <1>4, StoreStutters, PastStays
<1>6. Created(k)'
  BY <1>1, <1>3, <1>4, <1>5 DEF Created
<1> QED BY <1>1, <1>2, <1>3, <1>6, CreateMoves

LEMMA CheckpointFailsKeeps ==
  ASSUME StoreInv, CheckpointInv, NEW k \in Backup, CheckpointFails(k)
  PROVE  CheckpointInv'
<1>1. /\ Sets(k, NoBackup) /\ UNCHANGED treeVars /\ copy' = copy
      /\ backup[k].receipt # 1
  BY DEF CheckpointFails, Working, storeVars, CheckpointInv, Created
<1>2. backup'[k] = NoBackup
  BY <1>1 DEF Sets, CheckpointInv, CheckpointType
<1>3. Created(k)'
  BY <1>2, NoBackupTyped DEF Created
<1> QED BY <1>1, <1>3, NoBackupTyped, CreateMoves

LEMMA KillCheckpointKeeps ==
  ASSUME StoreInv, CheckpointInv, NEW k \in Backup, KillCheckpoint(k)
  PROVE  CheckpointInv'
<1> DEFINE b == backup[k]
           n == IF b.receipt > 0 THEN b ELSE NoBackup
           m == [n EXCEPT !.at = "left"]
<1>1. /\ b \in BackupRecord /\ n \in BackupRecord
      /\ b.receipt # 1
      /\ n.receipt > 0 => n = b /\ b.sealed = b.instant /\ Past(b.instant)
  <2>1. b \in BackupRecord
    BY DEF CheckpointInv, CheckpointType
  <2> QED BY <2>1, NoBackupTyped DEF KillCheckpoint, Working, CheckpointInv, Created, BackupRecord
<1>2. /\ Sets(k, m) /\ UNCHANGED treeVars /\ copy' = copy
  BY DEF KillCheckpoint
<1>3. n.receipt # 1
  BY <1>1, NoBackupTyped
<1> HIDE DEF n
<1>4. /\ m \in BackupRecord /\ m.at = "left" /\ m.receipt = n.receipt
      /\ m.sealed = n.sealed /\ m.instant = n.instant
  BY <1>1 DEF BackupRecord, CreateLabels
<1> HIDE DEF m
<1>5. backup'[k] = m
  BY <1>2 DEF Sets, CheckpointInv, CheckpointType
<1>6. n.receipt > 0 => Past(b.instant)'
  BY <1>1, <1>2, <1>4, <1>5, StoreStutters, PastStays
<1>7. Created(k)'
  BY <1>1, <1>3, <1>4, <1>5, <1>6 DEF Created
<1> QED BY <1>1, <1>2, <1>4, <1>7, CreateMoves

LEMMA DamageArchiveKeeps ==
  ASSUME StoreInv, CheckpointInv, NEW k \in Backup, DamageArchive(k)
  PROVE  CheckpointInv'
<1> DEFINE b == backup[k]
           m == [b EXCEPT !.archive = None]
<1>1. /\ b \in BackupRecord /\ b.receipt > 0 /\ b.at \in {"created", "left"}
      /\ b.sealed = b.instant /\ Past(b.instant)
  BY DEF DamageArchive, Working, CheckpointInv, CheckpointType, Created, BackupRecord
<1>2. /\ Sets(k, m) /\ UNCHANGED treeVars /\ copy' = copy
  BY DEF DamageArchive
<1>3. /\ m \in BackupRecord /\ m.at = b.at /\ m.receipt = b.receipt
      /\ m.sealed = b.sealed /\ m.instant = b.instant
  BY <1>1 DEF BackupRecord
<1> HIDE DEF m
<1>4. backup'[k] = m
  BY <1>2 DEF Sets, CheckpointInv, CheckpointType
<1>5. Past(b.instant)'
  BY <1>1, <1>2, <1>3, <1>4, StoreStutters, PastStays
<1>6. Created(k)'
  BY <1>1, <1>3, <1>4, <1>5 DEF Created
<1> QED BY <1>1, <1>2, <1>3, <1>6, CreateMoves
-----------------------------------------------------------------------------
(* The steps of restore *)

(* What a step of one restore has to show. *)
LEMMA RestoreMoves ==
  ASSUME StoreInv, CheckpointInv, UNCHANGED treeVars, NEW d \in Copy, NEW c \in CopyRecord,
         Put(d, c), backup' = backup, Restored(d)'
  PROVE  CheckpointInv'
<1>1. StoreInv' /\ Grows
  BY StoreStutters
<1>2. copy'[d] = c /\ \A e \in Copy \ {d} : copy'[e] = copy[e]
  BY DEF Put, CheckpointInv, CheckpointType
<1>3. CheckpointType'
  BY DEF Put, CheckpointInv, CheckpointType
<1>4. \A k \in Backup : Created(k)'
  BY <1>1, CreatedStays DEF CheckpointInv
<1>5. SealsStay
  BY DEF SealsStay
<1>6. \A e \in Copy : Restored(e)'
  BY <1>2, <1>5, RestoredStays DEF CheckpointInv
<1> QED BY <1>3, <1>4, <1>6 DEF CheckpointInv

LEMMA NoCopyTyped ==
  NoCopy \in CopyRecord /\ NoCopy.at = "none" /\ NoCopy.marker = 0
  BY DEF NoCopy, CopyRecord, RestoreLabels

LEMMA StartRestoreKeeps ==
  ASSUME StoreInv, CheckpointInv, NEW d \in Copy, NEW k \in Backup, StartRestore(d, k)
  PROVE  CheckpointInv'
<1> DEFINE m == [NoCopy EXCEPT !.at = "writing", !.of = k, !.manifest = backup[k].archive]
<1>1. /\ backup[k].receipt = 1 /\ backup[k].sealed = backup[k].archive
      /\ backup[k].archive \in Image \cup {None}
  BY DEF StartRestore, Consumed, CheckpointInv, CheckpointType, BackupRecord
<1>2. /\ Put(d, m) /\ UNCHANGED treeVars /\ backup' = backup
  BY DEF StartRestore, storeVars
<1>3. /\ m \in CopyRecord /\ m.at = "writing" /\ m.of = k /\ m.manifest = backup[k].archive
      /\ m.marker = 0
  BY <1>1, NoCopyTyped DEF CopyRecord, RestoreLabels
<1> HIDE DEF m
<1>4. copy'[d] = m
  BY <1>2 DEF Put, CheckpointInv, CheckpointType
<1>5. Restored(d)'
  BY <1>1, <1>2, <1>3, <1>4 DEF Restored
<1> QED BY <1>2, <1>3, <1>5, RestoreMoves

LEMMA WriteCopyKeeps ==
  ASSUME StoreInv, CheckpointInv, NEW d \in Copy, WriteCopy(d)
  PROVE  CheckpointInv'
<1> DEFINE c == copy[d]
           m == [c EXCEPT !.at = "marking", !.tree = c.manifest]
<1>1. /\ c \in CopyRecord /\ c.at = "writing" /\ c.of \in Backup /\ backup[c.of].receipt = 1
      /\ c.manifest = backup[c.of].sealed
  BY DEF WriteCopy, CheckpointInv, CheckpointType, Restored
<1>2. backup[c.of].sealed = backup[c.of].instant
  BY <1>1 DEF CheckpointInv, Created
<1>3. /\ Put(d, m) /\ UNCHANGED treeVars /\ backup' = backup
  BY DEF WriteCopy, storeVars
<1>4. /\ m \in CopyRecord /\ m.at = "marking" /\ m.of = c.of /\ m.tree = c.manifest
      /\ m.marker = c.marker
  BY <1>1 DEF CopyRecord, RestoreLabels
<1> HIDE DEF m
<1>5. copy'[d] = m
  BY <1>3 DEF Put, CheckpointInv, CheckpointType
<1>6. Restored(d)'
  BY <1>1, <1>2, <1>3, <1>4, <1>5 DEF Restored
<1> QED BY <1>3, <1>4, <1>6, RestoreMoves

(* The marker is linked and its temporary name removed. *)
LEMMA MarkKeeps ==
  ASSUME StoreInv, CheckpointInv, NEW d \in Copy, LinkMarker(d) \/ UnlinkMarker(d)
  PROVE  CheckpointInv'
<1> DEFINE c == copy[d]
<1>1. PICK l \in {"unlinking", "restored"}, n \in {1, 2} :
        Put(d, [c EXCEPT !.at = l, !.marker = n])
  BY DEF LinkMarker, UnlinkMarker
<1> DEFINE m == [c EXCEPT !.at = l, !.marker = n]
<1>2. /\ c \in CopyRecord /\ c.of \in Backup /\ backup[c.of].receipt = 1
      /\ c.tree = backup[c.of].instant
  BY DEF LinkMarker, UnlinkMarker, CheckpointInv, CheckpointType, Restored
<1>3. /\ Put(d, m) /\ UNCHANGED treeVars /\ backup' = backup
  BY <1>1 DEF LinkMarker, UnlinkMarker, storeVars
<1>4. /\ m \in CopyRecord /\ m.at = l /\ m.of = c.of /\ m.tree = c.tree
  <2>1. n \in 0 .. 2 /\ m.marker = n
    BY <1>2 DEF CopyRecord
  <2> QED BY <1>2, <2>1 DEF CopyRecord, RestoreLabels
<1> HIDE DEF m
<1>5. copy'[d] = m
  BY <1>3 DEF Put, CheckpointInv, CheckpointType
<1>6. Restored(d)'
  BY <1>2, <1>3, <1>4, <1>5 DEF Restored
<1> QED BY <1>3, <1>4, <1>6, RestoreMoves

LEMMA RestoreFailsKeeps ==
  ASSUME StoreInv, CheckpointInv, NEW d \in Copy, RestoreFails(d)
  PROVE  CheckpointInv'
<1>1. Put(d, NoCopy) /\ UNCHANGED treeVars /\ backup' = backup
  BY DEF RestoreFails, storeVars
<1>2. copy'[d] = NoCopy
  BY <1>1 DEF Put, CheckpointInv, CheckpointType
<1>3. Restored(d)'
  BY <1>2, NoCopyTyped DEF Restored
<1> QED BY <1>1, <1>3, NoCopyTyped, RestoreMoves

LEMMA KillRestoreKeeps ==
  ASSUME StoreInv, CheckpointInv, NEW d \in Copy, KillRestore(d)
  PROVE  CheckpointInv'
<1> DEFINE c == copy[d]
           n == IF c.marker > 0 THEN c ELSE NoCopy
           m == [n EXCEPT !.at = "left"]
<1>1. /\ n \in CopyRecord
      /\ n.marker > 0 => /\ n.of \in Backup /\ backup[n.of].receipt = 1
                         /\ n.tree = backup[n.of].instant
  BY NoCopyTyped DEF CheckpointInv, CheckpointType, Restored
<1>2. /\ Put(d, m) /\ UNCHANGED treeVars /\ backup' = backup
  BY DEF KillRestore
<1> HIDE DEF n
<1>3. /\ m \in CopyRecord /\ m.at = "left" /\ m.of = n.of /\ m.tree = n.tree
      /\ m.marker = n.marker
  BY <1>1 DEF CopyRecord, RestoreLabels
<1> HIDE DEF m
<1>4. copy'[d] = m
  BY <1>2 DEF Put, CheckpointInv, CheckpointType
<1>5. Restored(d)'
  BY <1>1, <1>2, <1>3, <1>4 DEF Restored
<1> QED BY <1>2, <1>3, <1>5, RestoreMoves
-----------------------------------------------------------------------------
(* The theorems *)

LEMMA Starts ==
  ASSUME Init
  PROVE  StoreInv /\ CheckpointInv
<1>1. CheckpointType /\ \A k \in Backup : backup[k] = NoBackup
  BY NoBackupTyped, NoCopyTyped DEF Init, CheckpointInit, CheckpointType
<1>2. \A d \in Copy : copy[d] = NoCopy
  BY DEF Init, CheckpointInit
<1>3. \A k \in Backup : Created(k)
  BY <1>1, NoBackupTyped DEF Created
<1>4. \A d \in Copy : Restored(d)
  BY <1>2, NoCopyTyped DEF Restored
<1> QED BY <1>1, <1>3, <1>4, StoreStarts DEF Init, CheckpointInv

LEMMA Steps ==
  ASSUME StoreInv, CheckpointInv, [Next]_vars
  PROVE  StoreInv' /\ CheckpointInv' /\ Grows
<1>1. StoreInv' /\ Grows
  <2>1. StoreNext \/ UNCHANGED treeVars
    BY DEF Next, CreateStep, RestoreStep, StartCheckpoint, ScanPart, StreamArchive, RescanPart,
           LinkReceipt, UnlinkTemporary, CheckpointFails, KillCheckpoint, DamageArchive,
           StartRestore, WriteCopy, LinkMarker, UnlinkMarker, RestoreFails, KillRestore,
           vars, storeVars
  <2> QED BY <2>1, StoreSteps
<1>2. ASSUME UNCHANGED checkpointVars PROVE CheckpointInv'
  <2>1. backup' = backup /\ copy' = copy
    BY <1>2 DEF checkpointVars
  <2>2. \A k \in Backup : Created(k)'
    BY <1>1, <2>1, CreatedStays DEF CheckpointInv
  <2>3. \A d \in Copy : Restored(d)'
    BY <2>1, RestoredStays DEF CheckpointInv, SealsStay
  <2> QED BY <2>1, <2>2, <2>3 DEF CheckpointInv, CheckpointType
<1>3. ASSUME NEW k \in Backup, CreateStep(k) PROVE CheckpointInv'
  BY <1>3, StartCheckpointKeeps, StreamArchiveKeeps, LinkReceiptKeeps, UnlinkTemporaryKeeps,
     CheckpointFailsKeeps, KillCheckpointKeeps, DamageArchiveKeeps, ScanPartKeeps,
     RescanPartKeeps DEF CreateStep
<1>4. ASSUME NEW d \in Copy, RestoreStep(d) PROVE CheckpointInv'
  BY <1>4, StartRestoreKeeps, WriteCopyKeeps, MarkKeeps, RestoreFailsKeeps, KillRestoreKeeps
     DEF RestoreStep
<1> QED BY <1>1, <1>2, <1>3, <1>4 DEF Next, vars

(* The invariant of the data tree and of every checkpoint and restore
   (private_evidence_context.py, encrypted_checkpoint.py). *)
THEOREM Invariance == Spec => [](StoreInv /\ CheckpointInv)
<1>1. Init => StoreInv /\ CheckpointInv
  BY Starts
<1>2. StoreInv /\ CheckpointInv /\ [Next]_vars => (StoreInv /\ CheckpointInv)'
  BY Steps
<1> QED BY <1>1, <1>2, PTL DEF Spec

(* Every invocation and every directory of the private evidence store is always of
   its type (capture_source, create_context). *)
THEOREM StoreTypeCorrect == Spec => []StoreTypeOK
<1>1. StoreInv => StoreTypeOK
  BY StoreTyped
<1> QED BY <1>1, Invariance, PTL

(* What capture_source and create_context reported can be verified ever after,
   whatever other invocations leave behind (CapturedStands). *)
THEOREM CapturesStand == Spec => []CapturedStands
<1>1. StoreInv => CapturedStands
  BY ReportsStand
<1> QED BY <1>1, Invariance, PTL

(* A directory that can not be published is being filled by an invocation or was left
   unfinished by one that stopped; nothing else blocks one (BlockedOnlyByCut). *)
THEOREM OnlyCutsBlock == Spec => []BlockedOnlyByCut
<1>1. StoreInv => BlockedOnlyByCut
  BY UnfinishedIsCut
<1> QED BY <1>1, Invariance, PTL

(* A checkpoint with a receipt and a restored tree with a marker are the data tree of
   one instant, with the evidence of every context in it (RestoredIsOneInstant). *)
THEOREM RestoredOneInstant == Spec => []RestoredIsOneInstant
<1>1. StoreInv /\ CheckpointInv => RestoredIsOneInstant
  <2> SUFFICES ASSUME StoreInv, CheckpointInv PROVE RestoredIsOneInstant
    OBVIOUS
  <2>1. \A k \in Backup : backup[k].receipt > 0 =>
          backup[k].sealed = backup[k].instant /\ Closed(backup[k].sealed)
    BY DEF CheckpointInv, Created, Past
  <2>2. \A d \in Copy : copy[d].marker > 0 =>
          /\ copy[d].of \in Backup /\ backup[copy[d].of].receipt = 1
          /\ copy[d].tree = backup[copy[d].of].instant
    BY DEF CheckpointInv, Restored
  <2>3. \A d \in Copy : copy[d].marker > 0 => Closed(copy[d].tree)
    BY <2>1, <2>2
  <2> QED BY <2>1, <2>2, <2>3 DEF RestoredIsOneInstant
<1> QED BY <1>1, Invariance, PTL

(* Nothing in the data tree is ever taken back: a step only fills directories further,
   leaves the meaning of a hash alone and gives an edited file another edition. *)
THEOREM TreeOnlyGrows == Spec => [][Grows]_vars
<1>1. StoreInv /\ CheckpointInv /\ [Next]_vars => [Grows]_vars
  BY Steps
<1> QED BY <1>1, Invariance, PTL DEF Spec
=============================================================================
