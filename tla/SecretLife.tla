----------------------------- MODULE SecretLife -----------------------------
(***************************************************************************)
(* One configuration file over the life of its values: the vault that      *)
(* encrypts the secret fields on flash (SecretsVault.h), the load that     *)
(* opens them (decryptSecretsInPlace), the save that seals them            *)
(* (encryptSecretsInPlace), the probe that finds which fields are secret,  *)
(* the backup copy, its restore, and a dump carried to a device.           *)
(*                                                                         *)
(* Every boot may run another firmware (with the vault or without), find   *)
(* the secret fields or fall back to all of them, and sit on another chip. *)
(* Torn files and the steps of one save are ConfigStore's; here a save is  *)
(* one step, or cut in the middle.                                         *)
(***************************************************************************)
EXTENDS Naturals

CONSTANTS
  Fields,      \* the text fields of the file
  Secret,      \* those its form calls secret
  Values,      \* what the operator types (never empty)
  Chips,       \* device keys
  None,        \* no file, no request
  MaxOps,      \* operator steps
  MaxBoots     \* boots

VARIABLES
  boot,                \* this boot: the device key, FT_SECRETS_VAULT, the fields taken as secret
  phase,               \* "off" | "run" | "restore" | "import": a restart that restores is asked for
  primary, snapshot,   \* the two files
  dump,                \* a dump the mothership holds
  ram,                 \* the service's state
  saved,               \* the state the last save or load had (_lastSavedCrc), or None
  deferred,            \* a save waits for the flash
  asked,               \* the backup as it was when its restore was asked for
  cleared,             \* fields the last load could not open, not set since
  unfit,               \* the last save was dropped: its ciphertext does not fit (history)
  ops, boots

vars == <<boot, phase, primary, snapshot, dump, ram, saved, deferred, asked, cleared, unfit, ops, boots>>

Empty == "empty"      \* the value of an unset field
Blob == "blob"        \* the text of an ENC: record taken for a value
Plain == "plain"      \* stored without ENC:

Stored == [by : Chips \cup {Plain}, v : Values \cup {Empty, Blob}]
State == [Fields -> Values \cup {Empty, Blob}]
Torn == [form |-> "torn", data |-> [f \in Fields |-> [by |-> Plain, v |-> Empty]]]
Files == [form : {"legacy", "meta"}, data : [Fields -> Stored]] \cup {Torn}
Defaults == [f \in Fields |-> Empty]

(* discoverSecretKeysFromForm: the secret fields, or, when the form did not *)
(* fit the heap, every text field (the fail-safe).                          *)
Probed == {Secret, Fields}
Boots == [chip : Chips, vault : BOOLEAN, keys : Probed]

(* verifyDoc: both forms are good, a torn file is not. *)
Good(file) == file # None /\ file # Torn

(* SecretsVault::encrypt: an empty value stays empty. *)
Encrypted(v) == [by |-> IF v = Empty THEN Plain ELSE boot.chip, v |-> v]

(* SecretsVault::decrypt: a foreign key gives an empty text. *)
Decrypted(x, b) == IF x.by = b.chip THEN x.v ELSE Empty

(* encryptSecretsInPlace *)
Sealed(f) == IF boot.vault /\ f \in boot.keys THEN Encrypted(ram[f]) ELSE [by |-> Plain, v |-> ram[f]]

Written == [form |-> "meta", data |-> [f \in Fields |-> Sealed(f)]]

(* decryptSecretsInPlace: what the service gets. A record is opened by its *)
(* shape, whether its field is listed or not; without the vault it is      *)
(* cleared.                                                                *)
Opened_Listed(x, f, b) ==
  IF x.by = Plain THEN x.v
  ELSE IF f \notin b.keys THEN Blob
  ELSE IF b.vault THEN Decrypted(x, b) ELSE Empty
Opened(x, f, b) ==
  IF x.by = Plain THEN x.v
  ELSE IF b.vault THEN Decrypted(x, b) ELSE Empty

(* A record whose value does not fit the load's document is cleared too.    *)
Loads(file, b, tight) == [f \in Fields |-> IF f \in tight THEN Empty ELSE Opened(file.data[f], f, b)]
Records(file) == {f \in Fields : file.data[f].by # Plain}

(* ... and whether the file is to be written anew: a secret that was plain, *)
(* or a record in a field that is not secret and was opened.                *)
Misplaced(x, f, b) ==
  b.vault /\ IF f \in b.keys THEN x.by = Plain /\ x.v # Empty
             ELSE x.by # Plain /\ Decrypted(x, b) # Empty

(* loadOrRecover: the primary, else the backup copied over it. *)
Loaded == IF Good(primary) THEN primary ELSE IF Good(snapshot) THEN snapshot ELSE None

(* ensureLoaded's normalize save. *)
Normalizes(file, b, tight) ==
  \/ file.form = "legacy"
  \/ ~Good(primary)
  \/ \E f \in Fields \ tight : Misplaced(file.data[f], f, b)

TypeOK ==
  /\ boot \in Boots
  /\ phase \in {"off", "run", "restore", "import"}
  /\ primary \in Files \cup {None} /\ snapshot \in Files \cup {None}
  /\ dump \in Files \cup {None}
  /\ ram \in State /\ saved \in State \cup {None}
  /\ deferred \in BOOLEAN
  /\ asked \in Files \cup {None}
  /\ cleared \subseteq Fields /\ unfit \in BOOLEAN
  /\ ops \in 0..MaxOps /\ boots \in 0..MaxBoots

(* The device arrives with nothing, or with a file of a firmware before the *)
(* vault.                                                                   *)
Init ==
  /\ boot \in {b \in Boots : b.vault /\ b.keys = Secret}
  /\ phase = "off"
  /\ primary \in {None} \cup {[form |-> "legacy", data |-> [f \in Fields |-> [by |-> Plain, v |-> v]]] : v \in Values}
  /\ snapshot = None /\ dump = None
  /\ ram = Defaults /\ saved = None /\ deferred = FALSE
  /\ asked = None /\ cleared = {} /\ unfit = FALSE
  /\ ops = 0 /\ boots = 0

Op == ops < MaxOps /\ ops' = ops + 1

Unopened(file, b, tight) == {f \in Records(file) : Loads(file, b, tight)[f] = Empty}

(* ensureLoaded at the boot of firmware b. *)
Boot(b) ==
  /\ phase = "off" /\ boots < MaxBoots
  /\ boots' = boots + 1
  /\ boot' = b /\ phase' = "run" /\ asked' = None
  /\ IF Loaded = None
       THEN /\ ram' = Defaults /\ saved' = None /\ cleared' = {}
            /\ deferred' = (primary = None /\ snapshot = None)   \* a file that does not verify is kept
            /\ UNCHANGED primary
       ELSE \E tight \in SUBSET Records(Loaded) :
            /\ ram' = Loads(Loaded, b, tight)
            /\ cleared' = Unopened(Loaded, b, tight)
            /\ primary' = Loaded
            /\ deferred' = Normalizes(Loaded, b, tight)
            /\ saved' = IF Normalizes(Loaded, b, tight) THEN None ELSE ram'
  /\ UNCHANGED <<snapshot, dump, unfit, ops>>

(* saveStep and atomicWrite: the primary becomes the backup, then it is     *)
(* written. At once, or the FlashWriter's run of a deferred save, or the    *)
(* restart's flush.                                                         *)
Rotated == IF Good(primary) THEN primary ELSE snapshot
Save ==
  /\ phase # "off" /\ deferred
  /\ deferred' = FALSE
  /\ IF ram = saved THEN UNCHANGED <<primary, snapshot, saved>>
     ELSE primary' = Written /\ snapshot' = Rotated /\ saved' = ram
  /\ unfit' = (unfit /\ ram = saved)
  /\ UNCHANGED <<boot, phase, dump, ram, asked, cleared, ops, boots>>

(* A ciphertext that does not fit: nothing is written, and no retry.        *)
Dropped ==
  /\ phase # "off" /\ deferred /\ ram # saved
  /\ boot.vault /\ \E f \in boot.keys : ram[f] # Empty
  /\ deferred' = FALSE /\ unfit' = TRUE
  /\ UNCHANGED <<boot, phase, primary, snapshot, dump, ram, saved, asked, cleared, ops, boots>>

(* The power goes in the middle of that write. *)
Cut ==
  /\ phase # "off" /\ deferred /\ ram # saved
  /\ snapshot' = Rotated /\ primary' = Torn
  /\ phase' = "off" /\ deferred' = FALSE
  /\ UNCHANGED <<boot, dump, ram, saved, asked, cleared, ops, unfit, boots>>

(* An operator's change: the state, and a save asked for. *)
Change(f, v) ==
  /\ Op /\ phase = "run" /\ ram[f] # v
  /\ ram' = [ram EXCEPT ![f] = v]
  /\ cleared' = cleared \ {f}
  /\ deferred' = TRUE
  /\ UNCHANGED <<boot, phase, primary, snapshot, dump, saved, asked, unfit, boots>>

(* resetToDefaults *)
Reset ==
  /\ Op /\ phase = "run"
  /\ ram' = Defaults /\ saved' = None /\ deferred' = TRUE /\ cleared' = {}
  /\ UNCHANGED <<boot, phase, primary, snapshot, dump, asked, unfit, boots>>

(* restoreFromBackup: the backup copied over the primary, and loaded.       *)
RestoreEntry ==
  /\ Op /\ phase = "run" /\ Good(snapshot)
  /\ primary' = snapshot
  /\ \E tight \in SUBSET Records(snapshot) :
       LET again == \E f \in Fields \ tight : Misplaced(snapshot.data[f], f, boot) IN
       /\ ram' = Loads(snapshot, boot, tight)
       /\ cleared' = Unopened(snapshot, boot, tight)
       /\ saved' = IF snapshot.form = "legacy" \/ again THEN None ELSE ram'
       /\ deferred' = (deferred \/ snapshot.form = "legacy" \/ again)
  /\ UNCHANGED <<boot, phase, snapshot, dump, asked, unfit, boots>>

(* "Save Backup" (requestSnapshot): after the saves that wait. *)
Freeze ==
  /\ Op /\ phase = "run" /\ ~deferred /\ Good(primary)
  /\ snapshot' = primary
  /\ UNCHANGED <<boot, phase, primary, dump, ram, saved, deferred, asked, cleared, unfit, boots>>

(* dumpAll: the file as it is, its secrets encrypted. *)
Dump ==
  /\ Op /\ phase = "run" /\ Good(primary)
  /\ dump' = primary
  /\ UNCHANGED <<boot, phase, primary, snapshot, ram, saved, deferred, asked, cleared, unfit, boots>>

(* "Restore Backup": the backup is verified, the restart follows the answer. *)
AskRestore ==
  /\ Op /\ phase = "run" /\ Good(snapshot)
  /\ phase' = "restore" /\ asked' = snapshot
  /\ UNCHANGED <<boot, primary, snapshot, dump, ram, saved, deferred, cleared, unfit, boots>>

(* The mothership's restore of a dump (actionConfigRestore). *)
AskImport ==
  /\ Op /\ phase = "run" /\ dump # None
  /\ phase' = "import"
  /\ UNCHANGED <<boot, primary, snapshot, dump, ram, saved, deferred, asked, cleared, unfit, boots>>

(* The restart's step after the shutdown and its flush: the files, no RAM.  *)
(* restoreEntryFromSnapshot: only a backup that verifies, and then the      *)
(* primary is replaced by it as it is.                                      *)
Restorable(file) == Good(file)
RestoreSnapshot ==
  /\ phase = "restore" /\ ~deferred
  /\ phase' = "off"
  /\ primary' = IF Restorable(snapshot) THEN snapshot ELSE primary
  /\ UNCHANGED <<boot, snapshot, dump, ram, saved, deferred, asked, cleared, ops, unfit, boots>>

(* restoreAll: the dump's data as it is, under a new checksum, the old file *)
(* to the backup.                                                           *)
RestoreAll ==
  /\ phase = "import" /\ ~deferred
  /\ phase' = "off"
  /\ primary' = [dump EXCEPT !.form = "meta"]
  /\ snapshot' = Rotated
  /\ UNCHANGED <<boot, dump, ram, saved, deferred, asked, cleared, ops, unfit, boots>>

(* The flash turned the restart's flush away: the saves go with the reset.  *)
Unflushed ==
  /\ phase \in {"restore", "import"} /\ deferred
  /\ deferred' = FALSE
  /\ UNCHANGED <<boot, phase, primary, snapshot, dump, ram, saved, asked, cleared, ops, unfit, boots>>

(* A restart of any other reason, its saves flushed; another firmware or    *)
(* another board takes the flash from here.                                 *)
Restart ==
  /\ phase = "run" /\ ~deferred
  /\ phase' = "off"
  /\ UNCHANGED <<boot, primary, snapshot, dump, ram, saved, deferred, asked, cleared, ops, unfit, boots>>

Next ==
  \/ \E b \in Boots : Boot(b)
  \/ Save \/ Dropped \/ Cut
  \/ \E f \in Fields, v \in Values : Change(f, v)
  \/ Reset \/ RestoreEntry \/ Freeze \/ Dump
  \/ AskRestore \/ AskImport \/ RestoreSnapshot \/ RestoreAll \/ Unflushed \/ Restart

Spec == Init /\ [][Next]_vars

(***************************************************************************)
(* Properties                                                              *)
(***************************************************************************)

(* No service ever gets an ENC: record for a value, whatever firmware or    *)
(* probe wrote the file before.                                             *)
NeverLiteral == \A f \in Fields : ram[f] # Blob

(* Under a firmware with the vault, a secret is plain on flash only while a *)
(* save that encrypts it is still waiting, or was dropped because the       *)
(* ciphertext does not fit (ConfigManager.h:784-789).                       *)
SealedAtRest ==
  phase = "run" /\ boot.vault /\ ~deferred /\ ~unfit /\ Good(primary) =>
    \A f \in Secret : primary.data[f].by = Plain => primary.data[f].v = Empty

(* A record this boot could not open is still in the file until its own     *)
(* field is set ("The ENC: record on disk stays untouched (cleared in RAM   *)
(* only, no rewrite for this key)", ConfigManager.cpp:1091-1094).           *)
RecordStays ==
  \A f \in cleared : phase = "run" /\ Good(primary) => primary.data[f].by # Plain

(* The restart that restores a backup leaves the backup that was verified.  *)
BackupRestored ==
  phase = "off" /\ asked # None /\ Good(primary) => primary = asked
=============================================================================
