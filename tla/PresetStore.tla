---------------------------- MODULE PresetStore ----------------------------
(***************************************************************************)
(* The preset list: the configuration file, the private key files beside   *)
(* it, the copy in memory every controller and session reads, and the      *)
(* jobs that change all three: the startup normalisation, the PUT and the  *)
(* administrator's GET of the preset API.  A job holds the update lock of  *)
(* the repository and writes files one after another; the process may die  *)
(* between any two of its steps, and a write may fail.                     *)
(*                                                                         *)
(* A preset is of type SSH, its host in the form with a port (what         *)
(* normalizePresetHost makes of it), and of its Meta only what a secret,   *)
(* a fingerprint or the host decides is kept.  A fingerprint is named by   *)
(* the host that shows it.                                                 *)
(***************************************************************************)
EXTENDS Naturals, FiniteSets, Functions

CONSTANTS
  PresetIDs, Hosts,
  Passwords,         \* password texts
  KeyTexts,          \* private keys, as pasted
  KeyPaths,          \* the names a key file can get (a bound)
  OperatorKeys,      \* which of them the operator wrote before ShellPort ran
  InitialPresets,    \* what an entry of the operator's configuration may be
  MaxPuts,           \* bound: PUT requests the behaviour serves
  None,              \* no value, no file, no job
  Partial            \* what is in a key file while it is being written

ASSUME PresetStoreAssumption ==
  /\ MaxPuts \in Nat
  /\ OperatorKeys \subseteq KeyPaths
  /\ KeyTexts \intersect KeyPaths = {}
  /\ None \notin Hosts \union Passwords \union KeyTexts \union KeyPaths
  /\ Partial \notin KeyTexts \union KeyPaths \union {None}

VARIABLES
  file,        \* the presets of the configuration file, by ID
  keyFiles,    \* the directory of private keys: what each file holds
  server,      \* is the process serving
  mem,         \* the presets of the repository
  job,         \* what the holder of the update lock is doing
  dialled,     \* the fingerprint a browser has on its prompt, and for which preset
  hasKey,      \* SHELLPORT_PRESET_SECRET_KEY is set
  saveFailed,  \* since it started, the server has answered a save with an error
  puts         \* PUT requests so far

vars == <<file, keyFiles, server, mem, job, dialled, hasKey, saveFailed, puts>>

Optional(S) == S \union {None}

\* pass and enc are the Meta entries "Password" and "Encrypted Password": enc
\* names the text that decrypting it gives.  key is "Private Key": a text, or
\* the path of a file:// reference.
Preset == [host: Hosts, auth: {"Password", "Private Key"},
           pass: Optional(Passwords), enc: Optional(Passwords),
           key: Optional(KeyTexts \union KeyPaths \union {Partial}),
           fp: Optional(Hosts)]

Lists == UNION {[ids -> Preset] : ids \in SUBSET PresetIDs}
NoPresets == [id \in {} |-> None]

\* The operator refers to keys that are there, seals no password by hand, and
\* writes passwords only where they are used.
ASSUME OperatorAssumption == \A entry \in InitialPresets :
  /\ entry \in Preset /\ entry.enc = None
  /\ entry.key \in Optional(KeyTexts \union OperatorKeys)
  /\ entry.auth = "Private Key" => entry.pass = None

\* What a job is, and that it is something.
Kinds == {"start", "put", "fingerprint", "get"}
Jobs == [kind: Kinds, pc: {"keys", "keyfile", "replace", "publish"},
         current: Lists, next: Lists, doc: Lists, changed: BOOLEAN,
         writing: Optional([id: PresetIDs, path: KeyPaths]),
         request: Lists, clearPass: SUBSET PresetIDs, clearKey: SUBSET PresetIDs]

ASSUME JobAssumption == None \notin Jobs

---------------------------------------------------------------------------
(* What a configuration value resolves to.                                 *)

\* String.Parse: a reference is read from its file.
Parse(value) == IF value \in KeyPaths THEN keyFiles[value] ELSE value

\* The password a session logs in with.
PasswordOf(preset) == IF preset.pass # None THEN preset.pass ELSE preset.enc

\* The loader resolves every value of the file; it fails on a file that is not
\* there, and ApplyPresetSecrets on a sealed password it has no key for.
Loadable == \A id \in DOMAIN file :
  /\ file[id].key \in KeyPaths => keyFiles[file[id].key] # None
  /\ file[id].enc # None /\ file[id].pass = None => hasKey

Load == [id \in DOMAIN file |-> [file[id] EXCEPT !.key = Parse(@)]]

ApplySecrets(preset, sealing) ==
  IF preset.pass = None THEN preset
  ELSE IF sealing THEN [preset EXCEPT !.enc = preset.pass, !.pass = None]
  ELSE [preset EXCEPT !.enc = None]

ApplyPresetSecrets(list, sealing) ==
  [id \in DOMAIN list |-> ApplySecrets(list[id], sealing)]

---------------------------------------------------------------------------
(* What a save makes of the list it is sent.                               *)

\* Mutant: a password that is to be cleared is copied as well.
PreserveAll(list, clear) == [id \in DOMAIN list |->
  IF /\ id \in DOMAIN mem /\ list[id].auth = "Password" /\ mem[id].auth = "Password"
     /\ list[id].pass = None /\ list[id].enc = None
  THEN [list[id] EXCEPT !.pass = mem[id].pass, !.enc = mem[id].enc]
  ELSE list[id]]

\* Who edits a preset does not see its password: unless told to clear it, the
\* server copies it from the preset in memory.
PreserveHiddenPasswords(list, clear) == [id \in DOMAIN list |->
  IF /\ id \in DOMAIN mem \ clear
     /\ list[id].auth = "Password" /\ mem[id].auth = "Password"
     /\ list[id].pass = None /\ list[id].enc = None
  THEN [list[id] EXCEPT !.pass = mem[id].pass, !.enc = mem[id].enc]
  ELSE list[id]]

PreserveFingerprint(preset, raw) ==
  IF preset.fp = None /\ preset.host = raw.host
  THEN [preset EXCEPT !.fp = raw.fp] ELSE preset

PreserveKey(preset, id, clear) ==
  IF id \in clear \/ preset.auth # "Private Key" THEN [preset EXCEPT !.key = None]
  ELSE IF preset.key = None /\ id \in DOMAIN file
       THEN [preset EXCEPT !.key = file[id].key]
  ELSE preset

\* ... and copies fingerprint and key from the file.
PreserveFromFile(list, clear) == [id \in DOMAIN list |->
  PreserveKey(IF id \in DOMAIN file THEN PreserveFingerprint(list[id], file[id])
                                    ELSE list[id], id, clear)]

\* A text that the file's own reference resolves to becomes that reference.
AdoptReferences(list) == [id \in DOMAIN list |->
  IF /\ list[id].auth = "Private Key" /\ list[id].key # None
     /\ id \in DOMAIN file /\ file[id].key \in KeyPaths
     /\ keyFiles[file[id].key] = list[id].key
  THEN [list[id] EXCEPT !.key = file[id].key] ELSE list[id]]

NeedsKeyFile(preset) == preset.auth = "Private Key" /\ preset.key \in KeyTexts

\* The save's own entry wins, but one that the save does not change stays in
\* the file as it is written there.
Kept(raw, current, next) == IF next = current /\ raw # None THEN raw ELSE next

\* A reference in the file also stays when the save names the same key in clear.
KeptKey(raw, current, next) ==
  IF /\ raw.key \in KeyPaths /\ next.key \notin KeyPaths
     /\ next.key \in {current.key, keyFiles[raw.key]}
  THEN raw.key ELSE Kept(raw.key, current.key, next.key)

\* Mutant: a key goes with its kind of authentication, but not when cleared.
MergeKeyUncleared(raw, current, next, clear) ==
  IF next.key # None THEN KeptKey(raw, current, next)
  ELSE IF next.auth = "Private Key" THEN raw.key ELSE None

MergeKey(raw, current, next, clear) ==
  IF next.key # None THEN KeptKey(raw, current, next)
  ELSE IF next.auth = "Private Key" /\ ~clear THEN raw.key ELSE None

MergePassword(raw, current, next, clear, field) ==
  IF next[field] # None THEN Kept(raw[field], current[field], next[field])
  ELSE IF next.auth = "Password" /\ ~clear THEN raw[field] ELSE None

\* mergePresetInput with mergePresetMeta: what the file says of one preset.
MergePreset(raw, current, next, clearPass, clearKey) ==
  [host |-> Kept(raw.host, current.host, next.host),
   auth |-> Kept(raw.auth, current.auth, next.auth),
   pass |-> IF next.enc # None THEN None
            ELSE MergePassword(raw, current, next, clearPass, "pass"),
   enc  |-> MergePassword(raw, current, next, clearPass, "enc"),
   key  |-> MergeKey(raw, current, next, clearKey),
   fp   |-> IF next.fp = None THEN raw.fp ELSE Kept(raw.fp, current.fp, next.fp)]

\* Entries the runtime never knew stay, those it knew and the save left out go.
Merge(runtime, next, clearPass, clearKey) ==
  LET unknown == {id \in DOMAIN file \ DOMAIN next :
                    runtime = NoPresets \/ id \notin DOMAIN runtime}
  IN [id \in DOMAIN next \union unknown |->
        IF id \in unknown THEN file[id]
        ELSE IF id \in DOMAIN file \intersect DOMAIN runtime
             THEN MergePreset(file[id], runtime[id], next[id],
                              id \in clearPass, id \in clearKey)
        ELSE next[id]]

---------------------------------------------------------------------------
(* Jobs.  The three begin alike: MigratePresetPrivateKeysToFiles writes a   *)
(* key file for every key still in clear, then the references to them.      *)

\* next is the list the job will put in memory, doc the file as it will write
\* it when it has written the key files, current the list that memory had.
Job(kind, current, next, request, clearPass, clearKey) ==
  [kind |-> kind, pc |-> "keys", current |-> current,
   next |-> AdoptReferences(next), doc |-> file,
   changed |-> AdoptReferences(next) # next, writing |-> None,
   request |-> request, clearPass |-> clearPass, clearKey |-> clearKey]

Init ==
  /\ \E ids \in SUBSET PresetIDs : file \in [ids -> InitialPresets]
  /\ \E key \in KeyTexts :
       keyFiles = [path \in KeyPaths |-> IF path \in OperatorKeys THEN key ELSE None]
  /\ server = "down" /\ mem = NoPresets /\ job = None /\ dialled = None
  /\ hasKey \in BOOLEAN
  /\ saveFailed = FALSE /\ puts = 0

\* normalizeStartupPresets.  A restart may find the secret key set for the
\* first time.
Start ==
  /\ server = "down" /\ job = None /\ Loadable
  /\ \E sealing \in {hasKey, TRUE} :
       /\ hasKey' = sealing
       /\ job' = Job("start", Load, ApplyPresetSecrets(Load, sealing), NoPresets, {}, {})
  /\ UNCHANGED <<file, keyFiles, server, mem, dialled, saveFailed, puts>>

Locks == server = "up" /\ job = None
Puts == Locks /\ puts < MaxPuts /\ puts' = puts + 1

\* The administrator's editor sends the whole list.  It offers the key files
\* there are, and asks to clear what is no longer to be saved.
RequestPreset ==
  LET paths == {path \in KeyPaths : keyFiles[path] \in KeyTexts}
      Form(auth, passes, keys) == [host: Hosts, auth: {auth}, pass: passes,
                                   enc: {None}, key: keys, fp: {None}]
  IN Form("Password", Optional(Passwords), {None})
     \union Form("Private Key", {None}, Optional(KeyTexts \union paths))

PutList ==
  /\ Puts
  /\ \E ids \in SUBSET PresetIDs : \E request \in [ids -> RequestPreset] :
     \E clearPass \in SUBSET {id \in ids : request[id].auth = "Password"
                                           /\ request[id].pass = None},
        clearKey \in SUBSET {id \in ids : request[id].auth = "Private Key"
                                          /\ request[id].key = None} :
       job' = Job("put", mem,
                  ApplyPresetSecrets(
                    PreserveFromFile(
                      PreserveHiddenPasswords(request, clearPass), clearKey), hasKey),
                  request, clearPass, clearKey)
  /\ UNCHANGED <<file, keyFiles, server, mem, dialled, hasKey, saveFailed>>

\* Mutant: every preset of that host is given the fingerprint.
WithHostFingerprint(list, id, fp) ==
  [i \in DOMAIN list |-> IF list[i].host = fp THEN [list[i] EXCEPT !.fp = fp] ELSE list[i]]

WithFingerprint(list, id, fp) ==
  [i \in DOMAIN list |-> IF i = id THEN [list[i] EXCEPT !.fp = fp] ELSE list[i]]

\* A browser dials a preset and gets the fingerprint of the host it dialled.
Dial ==
  /\ server = "up" /\ dialled = None
  /\ \E id \in DOMAIN mem : dialled' = [id |-> id, fp |-> mem[id].host]
  /\ UNCHANGED <<file, keyFiles, server, mem, job, hasKey, saveFailed, puts>>

\* The user accepts it: the compact fingerprint PUT.  It is refused when it
\* changes nothing, or when the preset is gone.
SaveFingerprint ==
  /\ Puts /\ dialled # None
  /\ LET saved == WithFingerprint(mem, dialled.id, dialled.fp)
     IN IF saved = mem THEN job' = None
        ELSE job' = Job("fingerprint", mem,
                        ApplyPresetSecrets(PreserveFromFile(saved, {}), hasKey),
                        [id \in {dialled.id} |-> saved[id]], {}, {})
  /\ dialled' = None
  /\ UNCHANGED <<file, keyFiles, server, mem, hasKey, saveFailed>>

\* The administrator's GET.
GetList ==
  /\ Locks
  /\ job' = Job("get", mem, mem, NoPresets, {}, {})
  /\ UNCHANGED <<file, keyFiles, server, mem, dialled, hasKey, saveFailed, puts>>

---------------------------------------------------------------------------

\* Mutant: a name is free when this job has not used it.
UnusedPath(path) == path \notin {job.next[id].key : id \in DOMAIN job.next}

\* nextPresetPrivateKeyPath takes a name no file has.
FreePath(path) == keyFiles[path] = None

\* O_EXCL creates the file.
CreateKeyFile ==
  /\ job # None /\ job.pc = "keys"
  /\ \E id \in DOMAIN job.next, path \in KeyPaths :
       /\ NeedsKeyFile(job.next[id]) /\ FreePath(path)
       /\ keyFiles' = [keyFiles EXCEPT ![path] = Partial]
       /\ job' = [job EXCEPT !.pc = "keyfile", !.writing = [id |-> id, path |-> path]]
  /\ UNCHANGED <<file, server, mem, dialled, hasKey, saveFailed, puts>>

\* Of the file's own entry, only the key is changed to a reference.
Referring(doc, id, path) == [i \in DOMAIN doc |->
  IF i = id THEN [doc[i] EXCEPT !.key = path] ELSE doc[i]]

WrittenText(id) == job.next[id].key

FillKeyFile ==
  /\ job # None /\ job.pc = "keyfile"
  /\ LET id == job.writing.id
         path == job.writing.path
     IN /\ keyFiles' = [keyFiles EXCEPT ![path] = WrittenText(id)]
        /\ job' = [job EXCEPT !.pc = "keys", !.writing = None, !.changed = TRUE,
                              !.next[id].key = path,
                              !.doc = Referring(job.doc, id, path)]
  /\ UNCHANGED <<file, server, mem, dialled, hasKey, saveFailed, puts>>

\* The references are in the file before the rest of the save is.
WriteReferences ==
  /\ job # None /\ job.pc = "keys"
  /\ \A id \in DOMAIN job.next : ~NeedsKeyFile(job.next[id])
  /\ file' = IF job.changed THEN job.doc ELSE file
  /\ job' = [job EXCEPT !.pc = IF job.kind = "get" THEN "publish" ELSE "replace"]
  /\ UNCHANGED <<keyFiles, server, mem, dialled, hasKey, saveFailed, puts>>

\* What the merge compares with: a PUT gives it the list memory had, the
\* startup the list it had loaded, with the references already in it.
Runtime == IF job.kind # "start" THEN job.current
           ELSE [id \in DOMAIN job.current |->
                   [job.current[id] EXCEPT !.key = job.next[id].key]]

\* A PUT always rewrites the file; the startup when it changed something.
ReplaceFilePresets ==
  /\ job # None /\ job.pc = "replace"
  /\ file' = IF job.kind = "start" /\ job.next = job.current THEN file
             ELSE Merge(Runtime, job.next, job.clearPass, job.clearKey)
  /\ job' = [job EXCEPT !.pc = "publish"]
  /\ UNCHANGED <<keyFiles, server, mem, dialled, hasKey, saveFailed, puts>>

\* PresetRepository.Replace, and the answer.
Publish ==
  /\ job # None /\ job.pc = "publish"
  /\ mem' = job.next /\ server' = "up" /\ job' = None
  /\ UNCHANGED <<file, keyFiles, dialled, hasKey, saveFailed, puts>>

\* A write fails.  Of a key file nothing is left, unless only its mode could not
\* be set, and the configuration file stays as it was; the PUT is answered with
\* an error, the startup gives up.
Abort == /\ job' = None
         /\ saveFailed' = (job.kind # "start")
         /\ UNCHANGED <<file, server, mem, dialled, hasKey, puts>>

WriteFails ==
  \/ /\ job # None /\ job.pc = "keyfile" /\ Abort
     /\ \E left \in {None, WrittenText(job.writing.id)} :
          keyFiles' = [keyFiles EXCEPT ![job.writing.path] = left]
  \/ /\ job # None /\ ((job.pc = "keys" /\ job.changed) \/ job.pc = "replace") /\ Abort
     /\ UNCHANGED keyFiles

\* The process dies, or is restarted.
Crash ==
  /\ server = "up" \/ job # None
  /\ server' = "down" /\ mem' = NoPresets /\ job' = None /\ dialled' = None
  /\ saveFailed' = FALSE
  /\ UNCHANGED <<file, keyFiles, hasKey, puts>>

JobStep == \/ CreateKeyFile \/ FillKeyFile \/ WriteReferences
           \/ ReplaceFilePresets \/ Publish \/ WriteFails

Next == \/ Start \/ PutList \/ Dial \/ SaveFingerprint \/ GetList
        \/ JobStep \/ Crash

Spec == Init /\ [][Next]_vars

---------------------------------------------------------------------------
(* Properties.                                                             *)

\* Wherever the process dies, what it leaves is one list and can be loaded:
\* every reference of the file names a key file that is there and whole
\* (preset_private_key.go:105 writes the key before :121 refers to it), no
\* password is sealed that cannot be opened, and in the course of a save the
\* file lists the old presets or the new ones, never some of each.  Only the key
\* of a preset may run ahead of the rest.
CrashLeavesOneList ==
  LET Settings(list) == [id \in DOMAIN list |->
        <<list[id].host, list[id].auth, PasswordOf(list[id])>>]
  IN /\ Loadable
     /\ \A id \in DOMAIN file :
          file[id].key \in KeyPaths => keyFiles[file[id].key] # Partial
     /\ job # None => Settings(file) \in {Settings(job.current), Settings(job.next)}

\* What a preset is worth to a session: where it goes and how it logs in.
Worth(preset) == [host |-> preset.host, auth |-> preset.auth,
                  password |-> IF preset.auth = "Password" THEN PasswordOf(preset) ELSE None,
                  key |-> IF preset.auth = "Private Key" THEN Parse(preset.key) ELSE None]
WorthOf(list) == [id \in DOMAIN list |-> Worth(list[id])]

\* What memory serves is what a restart would load: the merge into the file,
\* which keeps raw entries, and the list put in memory come to the same.  A
\* save that failed between its two writes of the file leaves the two apart
\* until the next start.
RestartLoadsWhatIsServed ==
  server = "up" /\ job = None /\ ~saveFailed => WorthOf(file) = WorthOf(mem)

\* Saving a fingerprint changes one fingerprint: no other preset, no other
\* entry, in the file or in memory, and no key file (CONFIGURATION.md:174).  But
\* the file keeps the fingerprint of a host that was edited away, and any save
\* of a fingerprint brings it back to memory; and after a save that failed it
\* brings what that save wrote.
OnlyTheFingerprint(old, new, id) ==
  /\ DOMAIN new = DOMAIN old
  /\ \A i \in DOMAIN old :
       /\ Worth(new[i]) = Worth(old[i])
       /\ i # id => \/ new[i].fp = old[i].fp
                    \/ old[i].fp = None /\ new[i].fp = file[i].fp
FingerprintSaveIsNarrow == [][
  job # None /\ job.kind = "fingerprint" /\ ~saveFailed /\ ~(server' = "down") =>
    \A id \in DOMAIN job.request :
      /\ OnlyTheFingerprint(file, file', id)
      /\ OnlyTheFingerprint(mem, mem', id)
      /\ keyFiles' = keyFiles]_vars

\* The secrets of a list that was saved are those the editor meant: a new one
\* where one was given, none where it was cleared or is not used, and else the
\* one the preset had.
Meant(id, old) ==
  LET asked == job.request[id]
      had == id \in DOMAIN old
  IN [password |-> IF asked.auth # "Password" THEN None
                   ELSE IF asked.pass # None THEN asked.pass
                   ELSE IF had /\ old[id].auth = "Password" /\ id \notin job.clearPass
                        THEN PasswordOf(old[id]) ELSE None,
      key |-> IF asked.auth # "Private Key" THEN None
              ELSE IF asked.key # None THEN Parse(asked.key)
              ELSE IF had /\ id \notin job.clearKey THEN Parse(old[id].key) ELSE None]
SavedSecretsAreThoseMeant == [][
  job # None /\ job.kind = "put" /\ job' = None /\ server' = "up" /\ ~saveFailed' =>
    /\ DOMAIN file = DOMAIN job.request /\ DOMAIN mem' = DOMAIN job.request
    /\ \A id \in DOMAIN job.request : \A preset \in {file[id], mem'[id]} :
         [password |-> PasswordOf(preset), key |-> Parse(preset.key)] = Meant(id, mem)]_vars
=============================================================================
