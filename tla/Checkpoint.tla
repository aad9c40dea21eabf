------------------------------- MODULE Checkpoint -------------------------------
(***************************************************************************)
(* Encrypted checkpoints of the data tree                                  *)
(* (src/scripts/encrypted_checkpoint.py).                                  *)
(*                                                                         *)
(* create reads the whole tree, here its two parts one after the other,    *)
(* encrypts what it read, compares the tree with what it read and then     *)
(* publishes a receipt.  The operator acknowledges that the tree is quiet; *)
(* nothing enforces it, so the invocations of PrivateEvidence go on.       *)
(* restore decrypts a checkpoint twice, the second time into a directory   *)
(* of its own.  An operation that fails removes its own directory, one     *)
(* that is killed leaves it; an archive on disk may be damaged.            *)
(***************************************************************************)
EXTENDS PrivateEvidence

CONSTANTS
  Backup,     \* operations of create, each with its checkpoint
  Copy        \* destinations of restore

VARIABLES
  backup,     \* each operation of create and the directory it owns
  copy        \* each destination and the restore that writes it

checkpointVars == <<backup, copy>>
vars == <<storeVars, checkpointVars>>

-----------------------------------------------------------------------------
Part == {"evidence", "rest"}

(* The data tree as scan sees it: the evidence store, and the rest with the contexts
   and the owner's file.  Its metadata tell every change apart: nothing in the store
   is ever taken back, and an edit gives the owner's file another edition. *)
Tree == [p \in Part |-> IF p = "evidence" THEN [content |-> content, record |-> record]
                                         ELSE [source |-> source, context |-> context]]

(* scan: a file of two names is refused (UNSAFE_FILE). *)
Safe(p) ==
  IF p = "evidence" THEN /\ \A b \in Content : ~TwoNamesContent(content[b])
                         /\ \A o \in Observation : ~TwoNamesRecord(record[o])
                    ELSE \A c \in ContextId : ~TwoNamesRecord(context[c])

(* scanned: what the first scan read of each part; archive: what the ciphertext
   decrypts to, None when it does not; sealed: the archive whose hash the receipt
   holds; receipt: the number of names of COMPLETE.json; instant: the tree at the
   end of the first scan, what the checkpoint ought to hold. *)
NoBackup == [at |-> "none", left |-> {}, scanned |-> None, archive |-> None,
             sealed |-> None, receipt |-> 0, instant |-> None]
NoCopy   == [at |-> "none", of |-> None, manifest |-> None, tree |-> None, marker |-> 0]

Sets(k, b)  == backup' = [backup EXCEPT ![k] = b]
Put(d, c)   == copy' = [copy EXCEPT ![d] = c]

CheckpointInit ==
  /\ backup = [k \in Backup |-> NoBackup]
  /\ copy = [d \in Copy |-> NoCopy]
-----------------------------------------------------------------------------
(* create *)

(* The tools, the scopes, the recipients' key and the clean source revision. *)
StartCheckpoint(k) ==
  /\ backup[k].at = "none"
  /\ Sets(k, [NoBackup EXCEPT !.at = "scanning", !.left = Part,
                              !.scanned = [p \in Part |-> None]])
  /\ UNCHANGED <<storeVars, copy>>

(* scan with hashes; after the last part come the operation directory with its
   .INCOMPLETE, the bundle of the repository and the manifest. *)
ScanPart(k, p) ==
  LET b == backup[k] IN
  /\ b.at = "scanning" /\ p \in b.left /\ Safe(p)
  /\ Sets(k, [b EXCEPT !.scanned = [@ EXCEPT ![p] = Tree[p]],
                       !.left = b.left \ {p},
                       !.at = IF b.left = {p} THEN "streaming" ELSE "scanning",
                       !.instant = IF b.left = {p} THEN Tree ELSE None])
  /\ UNCHANGED <<storeVars, copy>>

(* _stream_source: what is encrypted has the hashes of the manifest.  An edited file
   is always noticed here; a file that was added may be noticed, CheckpointFails. *)
StreamArchive(k) ==
  LET b == backup[k] IN
  /\ b.at = "streaming" /\ source = b.scanned["rest"].source
  /\ Sets(k, [b EXCEPT !.at = "rescanning", !.left = Part, !.archive = b.scanned])
  /\ UNCHANGED <<storeVars, copy>>

(* Mutant: the tree is not compared with what was read. *)
RescanNothing(k, p) ==
  LET b == backup[k] IN
  /\ b.at = "rescanning" /\ p \in b.left
  /\ Sets(k, [b EXCEPT !.left = b.left \ {p},
                       !.at = IF b.left = {p} THEN "sealing" ELSE "rescanning"])
  /\ UNCHANGED <<storeVars, copy>>

(* scan without hashes: every part as it was read (INPUT_CHANGED). *)
RescanPart(k, p) ==
  LET b == backup[k] IN
  /\ b.at = "rescanning" /\ p \in b.left
  /\ Safe(p) /\ Tree[p] = b.scanned[p]
  /\ Sets(k, [b EXCEPT !.left = b.left \ {p},
                       !.at = IF b.left = {p} THEN "sealing" ELSE "rescanning"])
  /\ UNCHANGED <<storeVars, copy>>

(* The ciphertext is hashed and the receipt linked: _marker. *)
LinkReceipt(k) ==
  LET b == backup[k] IN
  /\ b.at = "sealing"
  /\ Sets(k, [b EXCEPT !.at = "unlinking", !.sealed = b.archive, !.receipt = 2])
  /\ UNCHANGED <<storeVars, copy>>

UnlinkTemporary(k) ==
  LET b == backup[k] IN
  /\ b.at = "unlinking"
  /\ Sets(k, [b EXCEPT !.at = "created", !.receipt = 1])
  /\ UNCHANGED <<storeVars, copy>>

Working(k) == backup[k].at \notin {"none", "created", "left"}

(* Any check or error: the operation's own directory is removed. *)
CheckpointFails(k) ==
  /\ Working(k)
  /\ Sets(k, NoBackup)
  /\ UNCHANGED <<storeVars, copy>>

(* Without a receipt what a killed operation leaves is never read. *)
KillCheckpoint(k) ==
  /\ Working(k) /\ faults < MaxFaults
  /\ Sets(k, [(IF backup[k].receipt > 0 THEN backup[k] ELSE NoBackup) EXCEPT !.at = "left"])
  /\ faults' = faults + 1
  /\ UNCHANGED <<treeVars, copy>>

DamageArchive(k) ==
  /\ backup[k].receipt > 0 /\ ~Working(k) /\ faults < MaxFaults
  /\ Sets(k, [backup[k] EXCEPT !.archive = None])
  /\ faults' = faults + 1
  /\ UNCHANGED <<treeVars, copy>>
-----------------------------------------------------------------------------
(* verify and restore *)

(* _consume: a receipt of one name, and the ciphertext it holds the hash of. *)
Consumed(k) == backup[k].receipt = 1 /\ backup[k].sealed = backup[k].archive

(* The checkpoint is verified before anything is made at the destination. *)
StartRestore(d, k) ==
  /\ copy[d].at = "none" /\ Consumed(k)
  /\ Put(d, [NoCopy EXCEPT !.at = "writing", !.of = k, !.manifest = backup[k].archive])
  /\ UNCHANGED <<storeVars, backup>>

(* operation and the second _consume: the members are written one after the other,
   each with its hash, and the manifest is the one that was verified. *)
WriteCopy(d) ==
  LET c == copy[d] IN
  /\ c.at = "writing"
  /\ Consumed(c.of) /\ backup[c.of].archive = c.manifest
  /\ Put(d, [c EXCEPT !.at = "marking", !.tree = c.manifest])
  /\ UNCHANGED <<storeVars, backup>>

LinkMarker(d) ==
  /\ copy[d].at = "marking"
  /\ Put(d, [copy[d] EXCEPT !.at = "unlinking", !.marker = 2])
  /\ UNCHANGED <<storeVars, backup>>

UnlinkMarker(d) ==
  /\ copy[d].at = "unlinking"
  /\ Put(d, [copy[d] EXCEPT !.at = "restored", !.marker = 1])
  /\ UNCHANGED <<storeVars, backup>>

Restoring(d) == copy[d].at \notin {"none", "restored", "left"}

RestoreFails(d) ==
  /\ Restoring(d)
  /\ Put(d, NoCopy)
  /\ UNCHANGED <<storeVars, backup>>

KillRestore(d) ==
  /\ Restoring(d) /\ faults < MaxFaults
  /\ Put(d, [(IF copy[d].marker > 0 THEN copy[d] ELSE NoCopy) EXCEPT !.at = "left"])
  /\ faults' = faults + 1
  /\ UNCHANGED <<treeVars, backup>>

CreateStep(k) ==
  \/ StartCheckpoint(k) \/ StreamArchive(k) \/ LinkReceipt(k)
  \/ UnlinkTemporary(k) \/ CheckpointFails(k) \/ KillCheckpoint(k) \/ DamageArchive(k)
  \/ \E p \in Part : ScanPart(k, p) \/ RescanPart(k, p)

RestoreStep(d) ==
  \/ \E k \in Backup : StartRestore(d, k)
  \/ WriteCopy(d) \/ LinkMarker(d) \/ UnlinkMarker(d) \/ RestoreFails(d) \/ KillRestore(d)
-----------------------------------------------------------------------------
Init == StoreInit /\ CheckpointInit

Next ==
  \/ StoreNext /\ UNCHANGED checkpointVars
  \/ \E k \in Backup : CreateStep(k)
  \/ \E d \in Copy : RestoreStep(d)

Spec == Init /\ [][Next]_vars
-----------------------------------------------------------------------------
(* Properties *)

(* Every context of a tree refers to observations that verify in the same tree. *)
Closed(tree) ==
  \A c \in ContextId : tree["rest"].context[c] = WholeRecord =>
    \A o \in meaning[c].evidence : /\ tree["evidence"].content[o.content] = WholeContent
                                   /\ tree["evidence"].record[o] = WholeRecord

(* A checkpoint with a receipt, and a restored tree with a marker, is the data tree
   as it was at one instant, though invocations publish and the owner edits while
   it is read, and it holds no context without its evidence (create, restore). *)
RestoredIsOneInstant ==
  /\ \A k \in Backup : backup[k].receipt > 0 =>
       backup[k].sealed = backup[k].instant /\ Closed(backup[k].sealed)
  /\ \A d \in Copy : copy[d].marker > 0 =>
       copy[d].tree = backup[copy[d].of].instant /\ Closed(copy[d].tree)
=============================================================================
