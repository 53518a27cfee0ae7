---------------------------- MODULE PresetProofs ----------------------------
(***************************************************************************)
(* The configuration file survives, memory serves what a restart would     *)
(* load, a save gives the presets the secrets its editor meant, and a      *)
(* fingerprint changes nothing else: for any presets, hosts, keys, key     *)
(* files and number of saves.                                              *)
(*                                                                         *)
(* CrashLeavesOneList comes first.                                         *)
(* The property speaks of the file alone, but whether a step keeps it      *)
(* depends on the lists a save carries along.  IInv says of each of these  *)
(* what the property says of the file: its references are whole and its    *)
(* passwords properly written; and it says how far the job has come, that  *)
(* is, which list the file agrees with.  The longest part of the proof is  *)
(* that the merge into the file and the list for memory, which are         *)
(* computed apart, have the same settings (MergeFacts): it needs that the  *)
(* new list lacks no password that it should have kept.                    *)
(***************************************************************************)
EXTENDS PresetStore, TLAPS

\* The state is within its types.
StoreTypeOK ==
  /\ file \in Lists /\ mem \in Lists
  /\ keyFiles \in [KeyPaths -> KeyTexts \union {None, Partial}]
  /\ server \in {"up", "down"} /\ hasKey \in BOOLEAN
  /\ job \in Optional(Jobs)
  /\ dialled \in Optional([id: PresetIDs, fp: Hosts])

\* Every reference names a key file that is there and whole ...
Whole(list) == \A id \in DOMAIN list :
  list[id].key \in KeyPaths => keyFiles[list[id].key] \in KeyTexts

\* ... and the one that is being written is none of them.
KeysAreWhole ==
  /\ Whole(file) /\ Whole(mem)
  /\ job # None =>
       /\ Whole(job.next) /\ Whole(job.doc)
       /\ job.pc = "keyfile" =>
            /\ job.writing \in [id: PresetIDs, path: KeyPaths]
            /\ job.writing.id \in DOMAIN job.next
            /\ NeedsKeyFile(job.next[job.writing.id])
            /\ keyFiles[job.writing.path] = Partial

\* A password is written in one way, where it is used, and sealed only with a key.
Proper(preset, sealing) ==
  /\ preset.pass = None \/ preset.enc = None
  /\ preset.auth = "Private Key" => preset.pass = None /\ preset.enc = None
  /\ ~sealing => preset.enc = None
AllProper(list, sealing) == \A id \in DOMAIN list : Proper(list[id], sealing)

\* ... and with a key, what memory gets is sealed.
AllSealed(list, sealing) == \A id \in DOMAIN list : sealing => list[id].pass = None

PasswordsAreProper ==
  /\ AllProper(file, hasKey) /\ AllProper(mem, hasKey) /\ AllSealed(mem, hasKey)
  /\ job # None => /\ AllProper(job.current, hasKey) /\ AllProper(job.next, hasKey)
                   /\ AllProper(job.doc, hasKey) /\ AllSealed(job.next, hasKey)

\* Two lists have the same settings.
Same(a, b) ==
  /\ DOMAIN a = DOMAIN b
  /\ \A id \in DOMAIN a : /\ a[id].host = b[id].host
                          /\ a[id].auth = b[id].auth
                          /\ PasswordOf(a[id]) = PasswordOf(b[id])

\* A password the new list lacks was not there or is to be cleared.
Remembered(new, old, clear) == \A id \in DOMAIN new \intersect DOMAIN old :
  (new[id].auth = "Password" /\ PasswordOf(new[id]) = None /\ id \notin clear)
    => PasswordOf(old[id]) = None
NothingIsForgotten == job # None => Remembered(job.next, job.current, job.clearPass)

\* How far a job has come: the file has the old settings until it is replaced, and
\* then those memory will have.
FileFollows ==
  /\ server = "down" => mem = NoPresets
  /\ job = None /\ server = "up" => Same(file, mem)
  /\ job # None =>
       /\ job.kind = "start" => server = "down"
       /\ job.kind # "start" => server = "up" /\ job.current = mem
       /\ job.pc # "publish" => Same(file, job.current)
       /\ job.pc \in {"keys", "keyfile"} => Same(job.doc, job.current)
       /\ job.pc = "publish" => Same(file, job.next)
       /\ job.kind \in {"start", "get"} => Same(job.next, job.current)

IInv == /\ StoreTypeOK /\ KeysAreWhole /\ PasswordsAreProper
        /\ NothingIsForgotten /\ FileFollows

USE PresetStoreAssumption

---------------------------------------------------------------------------
(* Lists                                                                   *)

\* A list is a function from some IDs to presets, and any such function is one.
LEMMA ListFacts ==
  ASSUME NEW list \in Lists
  PROVE  /\ DOMAIN list \subseteq PresetIDs
         /\ list = [id \in DOMAIN list |-> list[id]]
         /\ \A id \in DOMAIN list : list[id] \in Preset
  BY DEF Lists

LEMMA ListIntro ==
  ASSUME NEW list, DOMAIN list \subseteq PresetIDs, list = [id \in DOMAIN list |-> list[id]],
         \A id \in DOMAIN list : list[id] \in Preset
  PROVE  list \in Lists
<1>1. list \in [DOMAIN list -> Preset]
  OBVIOUS
<1> QED
  BY <1>1 DEF Lists

\* The empty list is the only one with no IDs.
LEMMA NoPresetsFacts ==
  /\ NoPresets \in Lists /\ DOMAIN NoPresets = {}
  /\ \A list : DOMAIN list = {} /\ list = [id \in DOMAIN list |-> list[id]] => list = NoPresets
<1>1. DOMAIN NoPresets = {}
  BY DEF NoPresets
<1>2. NoPresets \in Lists
  BY <1>1, ListIntro DEF NoPresets
<1>3. ASSUME NEW list, DOMAIN list = {}, list = [id \in DOMAIN list |-> list[id]]
      PROVE  list = NoPresets
  BY <1>3 DEF NoPresets
<1> QED
  BY <1>1, <1>2, <1>3

\* A preset by its fields.
LEMMA PresetFacts ==
  ASSUME NEW preset \in Preset
  PROVE  /\ preset.host \in Hosts /\ preset.auth \in {"Password", "Private Key"}
         /\ preset.pass \in Optional(Passwords) /\ preset.enc \in Optional(Passwords)
         /\ preset.key \in Optional(KeyTexts \union KeyPaths \union {Partial})
         /\ preset.fp \in Optional(Hosts)
  BY DEF Preset

\* The same settings, as a relation and as CrashLeavesOneList says it.
LEMMA SameIsAnEquivalence ==
  /\ \A a : Same(a, a)
  /\ \A a, b : Same(a, b) => Same(b, a)
  /\ \A a, b, c : Same(a, b) /\ Same(b, c) => Same(a, c)
  BY DEF Same

---------------------------------------------------------------------------
(* What a save does to one preset                                          *)

MergedPreset(raw, current, next, id, clearPass, clearKey) ==
  MergePreset(raw, current, next, id \in clearPass, id \in clearKey)

\* An entry of the file, what is known of it, and the preset it is to become.
Mergeable(raw, current, next, id, clearPass, sealing) ==
  /\ raw \in Preset /\ current \in Preset /\ next \in Preset
  /\ Proper(raw, sealing) /\ Proper(current, sealing) /\ Proper(next, sealing)
  /\ sealing => next.pass = None
  /\ raw.host = current.host /\ raw.auth = current.auth
  /\ PasswordOf(raw) = PasswordOf(current)
  /\ (next.auth = "Password" /\ PasswordOf(next) = None /\ id \notin clearPass)
       => PasswordOf(current) = None

\* The merge gives the file the settings that memory gets, whatever it keeps of what
\* was written there.
LEMMA MergePresetFacts ==
  ASSUME NEW raw, NEW current, NEW next, NEW id, NEW clearPass, NEW clearKey,
         NEW sealing \in BOOLEAN, Mergeable(raw, current, next, id, clearPass, sealing),
         NEW merged, merged = MergedPreset(raw, current, next, id, clearPass, clearKey)
  PROVE  /\ merged \in Preset
         /\ merged.host = next.host /\ merged.auth = next.auth
         /\ PasswordOf(merged) = PasswordOf(next)
         /\ Proper(merged, sealing)
         /\ merged.key \in {raw.key, next.key, None}
<1> USE DEF Mergeable, MergedPreset, MergePreset
<1>1. merged.host = next.host /\ merged.auth = next.auth
  BY DEF Kept
<1>2. merged.key \in {raw.key, next.key, None}
  BY DEF MergeKey, KeptKey, Kept
<1>3. merged.fp \in {raw.fp, next.fp}
  BY DEF Kept
<1>4. /\ merged.pass \in Optional(Passwords) /\ merged.enc \in Optional(Passwords)
      /\ PasswordOf(merged) = PasswordOf(next) /\ Proper(merged, sealing)
  <2> USE PresetFacts DEF MergePassword, Kept, PasswordOf, Proper, Optional
  <2>1. CASE next.enc # None
    BY <1>1, <2>1
  <2>2. CASE next.enc = None /\ next.pass # None
    BY <1>1, <2>2
  <2>3. CASE next.enc = None /\ next.pass = None
    BY <1>1, <2>3
  <2> QED
    BY <2>1, <2>2, <2>3
<1>5. merged \in Preset
  <2>1. merged = [host |-> merged.host, auth |-> merged.auth, pass |-> merged.pass,
                  enc |-> merged.enc, key |-> merged.key, fp |-> merged.fp]
    OBVIOUS
  <2>2. merged.key \in Optional(KeyTexts \union KeyPaths \union {Partial})
    BY <1>2, PresetFacts DEF Optional
  <2> QED
    BY <1>1, <1>3, <1>4, <2>1, <2>2, PresetFacts DEF Preset
<1> QED
  BY <1>1, <1>2, <1>4, <1>5

\* Sealing changes how a password is written.
LEMMA ApplySecretsFacts ==
  ASSUME NEW preset \in Preset, NEW sealing \in BOOLEAN, NEW wasSealing \in BOOLEAN,
         Proper(preset, wasSealing), wasSealing => sealing,
         NEW applied, applied = ApplySecrets(preset, sealing)
  PROVE  /\ applied \in Preset
         /\ applied.host = preset.host /\ applied.auth = preset.auth
         /\ applied.key = preset.key
         /\ PasswordOf(applied) = PasswordOf(preset)
         /\ Proper(applied, sealing)
         /\ sealing => applied.pass = None
  BY PresetFacts DEF ApplySecrets, Preset, Proper, PasswordOf, Optional

---------------------------------------------------------------------------
(* What a save does to a list                                              *)

\* Sealing changes how passwords are written, and nothing else.
LEMMA ApplyPresetSecretsFacts ==
  ASSUME NEW list \in Lists, NEW sealing \in BOOLEAN, NEW wasSealing \in BOOLEAN,
         AllProper(list, wasSealing), wasSealing => sealing,
         NEW applied, applied = ApplyPresetSecrets(list, sealing)
  PROVE  /\ applied \in Lists /\ Same(applied, list)
         /\ \A id \in DOMAIN list : applied[id].key = list[id].key
         /\ AllProper(applied, sealing) /\ AllSealed(applied, sealing)
<1>1. /\ DOMAIN applied = DOMAIN list /\ applied = [id \in DOMAIN applied |-> applied[id]]
      /\ \A id \in DOMAIN list : applied[id] = ApplySecrets(list[id], sealing)
  BY DEF ApplyPresetSecrets
<1>2. ASSUME NEW id \in DOMAIN list
      PROVE  /\ applied[id] \in Preset
             /\ applied[id].host = list[id].host /\ applied[id].auth = list[id].auth
             /\ applied[id].key = list[id].key
             /\ PasswordOf(applied[id]) = PasswordOf(list[id])
             /\ Proper(applied[id], sealing)
             /\ sealing => applied[id].pass = None
  BY <1>1, ListFacts, ApplySecretsFacts DEF AllProper
<1>3. applied \in Lists
  BY <1>1, <1>2, ListFacts, ListIntro
<1> QED
  BY <1>1, <1>2, <1>3 DEF Same, AllProper, AllSealed

\* A reference is adopted from the file: keys are not changed otherwise.
LEMMA AdoptReferencesFacts ==
  ASSUME StoreTypeOK, Whole(file), NEW list \in Lists,
         NEW adopted, adopted = AdoptReferences(list)
  PROVE  /\ adopted \in Lists /\ Same(adopted, list)
         /\ Whole(list) => Whole(adopted)
         /\ \A sealing \in BOOLEAN :
              /\ AllProper(list, sealing) => AllProper(adopted, sealing)
              /\ AllSealed(list, sealing) => AllSealed(adopted, sealing)
<1>1. /\ DOMAIN adopted = DOMAIN list /\ adopted = [id \in DOMAIN adopted |-> adopted[id]]
      /\ \A id \in DOMAIN list :
           \/ adopted[id] = list[id]
           \/ /\ id \in DOMAIN file /\ file[id].key \in KeyPaths
              /\ adopted[id] = [list[id] EXCEPT !.key = file[id].key]
  BY DEF AdoptReferences
<1>2. ASSUME NEW id \in DOMAIN list
      PROVE  /\ adopted[id] \in Preset
             /\ adopted[id].host = list[id].host /\ adopted[id].auth = list[id].auth
             /\ adopted[id].pass = list[id].pass /\ adopted[id].enc = list[id].enc
             /\ adopted[id].key \in KeyPaths =>
                  adopted[id].key = list[id].key \/ keyFiles[adopted[id].key] \in KeyTexts
  <2>1. list[id] \in Preset
    BY ListFacts
  <2>2. CASE adopted[id] = list[id]
    BY <2>1, <2>2
  <2>3. CASE /\ id \in DOMAIN file /\ file[id].key \in KeyPaths
             /\ adopted[id] = [list[id] EXCEPT !.key = file[id].key]
    <3>1. keyFiles[file[id].key] \in KeyTexts
      BY <2>3 DEF Whole
    <3> QED
      BY <2>1, <2>3, <3>1 DEF Preset, Optional
  <2> QED
    BY <1>1, <2>2, <2>3
<1>3. adopted \in Lists
  BY <1>1, <1>2, ListFacts, ListIntro
<1>4. Same(adopted, list)
  BY <1>1, <1>2 DEF Same, PasswordOf
<1>5. Whole(list) => Whole(adopted)
  BY <1>1, <1>2 DEF Whole
<1>6. ASSUME NEW sealing \in BOOLEAN
      PROVE  /\ AllProper(list, sealing) => AllProper(adopted, sealing)
             /\ AllSealed(list, sealing) => AllSealed(adopted, sealing)
  BY <1>1, <1>2 DEF AllProper, AllSealed, Proper
<1> QED
  BY <1>3, <1>4, <1>5, <1>6

\* What an editor can send: passwords in clear, and only where they are used.
InTheOpen(list) == \A id \in DOMAIN list :
  list[id].enc = None /\ (list[id].auth = "Private Key" => list[id].pass = None)

\* A hidden password is that of memory, and one that is missing was so there or is to
\* be cleared.
LEMMA PreserveHiddenPasswordsFacts ==
  ASSUME StoreTypeOK, PasswordsAreProper, NEW list \in Lists, NEW clear \in SUBSET PresetIDs,
         InTheOpen(list), NEW kept, kept = PreserveHiddenPasswords(list, clear)
  PROVE  /\ kept \in Lists /\ DOMAIN kept = DOMAIN list
         /\ AllProper(kept, hasKey)
         /\ \A id \in DOMAIN list : kept[id].key = list[id].key
         /\ Remembered(kept, mem, clear)
<1>1. /\ DOMAIN kept = DOMAIN list /\ kept = [id \in DOMAIN kept |-> kept[id]]
      /\ \A id \in DOMAIN list : kept[id] =
           IF /\ id \in DOMAIN mem \ clear
              /\ list[id].auth = "Password" /\ mem[id].auth = "Password"
              /\ list[id].pass = None /\ list[id].enc = None
           THEN [list[id] EXCEPT !.pass = mem[id].pass, !.enc = mem[id].enc]
           ELSE list[id]
  BY DEF PreserveHiddenPasswords
<1>2. ASSUME NEW id \in DOMAIN list
      PROVE  /\ kept[id] \in Preset /\ Proper(kept[id], hasKey) /\ kept[id].key = list[id].key
             /\ id \in DOMAIN mem /\ kept[id].auth = "Password"
                  /\ PasswordOf(kept[id]) = None /\ id \notin clear
                => PasswordOf(mem[id]) = None
  <2>1. list[id] \in Preset /\ list[id].enc = None
        /\ (list[id].auth = "Private Key" => list[id].pass = None)
    BY ListFacts DEF InTheOpen
  <2>2. id \in DOMAIN mem => mem[id] \in Preset /\ Proper(mem[id], hasKey)
    BY ListFacts DEF StoreTypeOK, PasswordsAreProper, AllProper
  <2>3. CASE /\ id \in DOMAIN mem \ clear
             /\ list[id].auth = "Password" /\ mem[id].auth = "Password"
             /\ list[id].pass = None /\ list[id].enc = None
    <3>1. kept[id] = [list[id] EXCEPT !.pass = mem[id].pass, !.enc = mem[id].enc]
      BY <1>1, <2>3
    <3>2. /\ kept[id].pass = mem[id].pass /\ kept[id].enc = mem[id].enc
          /\ kept[id].key = list[id].key /\ kept[id].auth = "Password"
          /\ kept[id].host = list[id].host /\ kept[id].fp = list[id].fp
          /\ kept[id] = [host |-> kept[id].host, auth |-> kept[id].auth, pass |-> kept[id].pass,
                         enc |-> kept[id].enc, key |-> kept[id].key, fp |-> kept[id].fp]
      BY <2>1, <2>3, <3>1 DEF Preset
    <3>3. kept[id] \in Preset
      BY <2>1, <2>2, <2>3, <3>2 DEF Preset
    <3> QED
      BY <2>2, <2>3, <3>2, <3>3 DEF Proper, PasswordOf
  <2>4. CASE ~(/\ id \in DOMAIN mem \ clear
               /\ list[id].auth = "Password" /\ mem[id].auth = "Password"
               /\ list[id].pass = None /\ list[id].enc = None)
    <3>1. kept[id] = list[id]
      BY <1>1, <2>4
    <3> QED
      BY <2>1, <2>2, <2>4, <3>1, PresetFacts DEF Proper, PasswordOf
  <2> QED
    BY <2>3, <2>4
<1>3. kept \in Lists
  BY <1>1, <1>2, ListFacts, ListIntro
<1> QED
  BY <1>1, <1>2, <1>3 DEF AllProper, Remembered

\* Only keys and fingerprints come from the file, and its keys are whole.
LEMMA PreserveFromFileFacts ==
  ASSUME StoreTypeOK, Whole(file), NEW list \in Lists, Whole(list),
         NEW clear \in SUBSET PresetIDs, NEW kept, kept = PreserveFromFile(list, clear)
  PROVE  /\ kept \in Lists /\ Same(kept, list) /\ Whole(kept)
         /\ AllProper(list, hasKey) => AllProper(kept, hasKey)
<1> DEFINE trusted(id) == IF id \in DOMAIN file THEN PreserveFingerprint(list[id], file[id])
                                                ELSE list[id]
<1>1. /\ DOMAIN kept = DOMAIN list /\ kept = [id \in DOMAIN kept |-> kept[id]]
      /\ \A id \in DOMAIN list : kept[id] = PreserveKey(trusted(id), id, clear)
  BY DEF PreserveFromFile
<1>2. ASSUME NEW id \in DOMAIN list
      PROVE  /\ kept[id] \in Preset
             /\ kept[id].host = list[id].host /\ kept[id].auth = list[id].auth
             /\ kept[id].pass = list[id].pass /\ kept[id].enc = list[id].enc
             /\ kept[id].key \in KeyPaths => keyFiles[kept[id].key] \in KeyTexts
  <2>1. list[id] \in Preset
    BY ListFacts
  <2>2. id \in DOMAIN file => file[id] \in Preset
    BY ListFacts DEF StoreTypeOK
  <2>3. /\ trusted(id) \in Preset
        /\ trusted(id).host = list[id].host /\ trusted(id).auth = list[id].auth
        /\ trusted(id).pass = list[id].pass /\ trusted(id).enc = list[id].enc
        /\ trusted(id).key = list[id].key
    BY <2>1, <2>2 DEF PreserveFingerprint, Preset
  <2>4. /\ list[id].key \in KeyPaths => keyFiles[list[id].key] \in KeyTexts
        /\ id \in DOMAIN file /\ file[id].key \in KeyPaths => keyFiles[file[id].key] \in KeyTexts
    BY DEF Whole
  <2> HIDE DEF trusted
  <2>5. \/ kept[id] = trusted(id)
        \/ kept[id] = [trusted(id) EXCEPT !.key = None]
        \/ id \in DOMAIN file /\ kept[id] = [trusted(id) EXCEPT !.key = file[id].key]
    BY <1>1 DEF PreserveKey
  <2>6. CASE kept[id] = trusted(id)
    BY <2>3, <2>4, <2>6
  <2>7. CASE kept[id] = [trusted(id) EXCEPT !.key = None]
    BY <2>3, <2>7 DEF Preset, Optional
  <2>8. CASE id \in DOMAIN file /\ kept[id] = [trusted(id) EXCEPT !.key = file[id].key]
    BY <2>2, <2>3, <2>4, <2>8 DEF Preset
  <2> QED
    BY <2>5, <2>6, <2>7, <2>8
<1> HIDE DEF trusted
<1>3. kept \in Lists
  BY <1>1, <1>2, ListFacts, ListIntro
<1>4. Same(kept, list)
  BY <1>1, <1>2 DEF Same, PasswordOf
<1>5. Whole(kept)
  BY <1>1, <1>2 DEF Whole
<1>6. AllProper(list, hasKey) => AllProper(kept, hasKey)
  BY <1>1, <1>2 DEF AllProper, Proper
<1> QED
  BY <1>3, <1>4, <1>5, <1>6

---------------------------------------------------------------------------
(* Jobs                                                                    *)

\* The fields of a job.
LEMMA JobFields ==
  ASSUME NEW j \in Jobs
  PROVE  /\ j.kind \in Kinds /\ j.pc \in {"keys", "keyfile", "replace", "publish"}
         /\ j.current \in Lists /\ j.next \in Lists /\ j.doc \in Lists
         /\ j.changed \in BOOLEAN
         /\ j.writing \in Optional([id: PresetIDs, path: KeyPaths])
         /\ j.request \in Lists
         /\ j.clearPass \in SUBSET PresetIDs /\ j.clearKey \in SUBSET PresetIDs
         /\ j # None
  BY JobAssumption DEF Jobs

\* A list in which one key has become a reference.
LEMMA ReferringFacts ==
  ASSUME NEW list \in Lists, NEW id, NEW path \in KeyPaths,
         NEW referring, referring = Referring(list, id, path)
  PROVE  /\ referring \in Lists /\ Same(referring, list)
         /\ \A i \in DOMAIN list : referring[i].key = (IF i = id THEN path ELSE list[i].key)
         /\ \A sealing \in BOOLEAN :
              /\ AllProper(list, sealing) => AllProper(referring, sealing)
              /\ AllSealed(list, sealing) => AllSealed(referring, sealing)
<1>1. /\ DOMAIN referring = DOMAIN list /\ referring = [i \in DOMAIN referring |-> referring[i]]
      /\ \A i \in DOMAIN list :
           referring[i] = IF i = id THEN [list[i] EXCEPT !.key = path] ELSE list[i]
  BY DEF Referring
<1>2. ASSUME NEW i \in DOMAIN list
      PROVE  /\ referring[i] \in Preset
             /\ referring[i].host = list[i].host /\ referring[i].auth = list[i].auth
             /\ referring[i].pass = list[i].pass /\ referring[i].enc = list[i].enc
             /\ referring[i].key = (IF i = id THEN path ELSE list[i].key)
  <2>1. list[i] \in Preset
    BY ListFacts
  <2>2. CASE i = id
    <3>1. path \in Optional(KeyTexts \union KeyPaths \union {Partial})
      BY DEF Optional
    <3>2. referring[i] = [list[i] EXCEPT !.key = path]
      BY <1>1, <2>2
    <3> QED
      BY <2>1, <2>2, <3>1, <3>2 DEF Preset
  <2>3. CASE i # id
    BY <1>1, <2>1, <2>3
  <2> QED
    BY <2>2, <2>3
<1>3. referring \in Lists
  BY <1>1, <1>2, ListFacts, ListIntro
<1>4. Same(referring, list)
  BY <1>1, <1>2 DEF Same, PasswordOf
<1>5. ASSUME NEW sealing \in BOOLEAN
      PROVE  /\ AllProper(list, sealing) => AllProper(referring, sealing)
             /\ AllSealed(list, sealing) => AllSealed(referring, sealing)
  BY <1>1, <1>2 DEF AllProper, AllSealed, Proper
<1> QED
  BY <1>2, <1>3, <1>4, <1>5

\* What the loader makes of the file: the same, with texts for references.
LEMMA LoadFacts ==
  ASSUME IInv, NEW loaded, loaded = Load
  PROVE  /\ loaded \in Lists /\ Same(file, loaded) /\ Whole(loaded)
         /\ AllProper(loaded, hasKey)
<1>1. /\ DOMAIN loaded = DOMAIN file /\ loaded = [id \in DOMAIN loaded |-> loaded[id]]
      /\ \A id \in DOMAIN file : loaded[id] = [file[id] EXCEPT !.key = Parse(file[id].key)]
  BY DEF Load
<1>2. file \in Lists /\ Whole(file) /\ AllProper(file, hasKey)
  BY DEF IInv, StoreTypeOK, KeysAreWhole, PasswordsAreProper
<1>3. ASSUME NEW id \in DOMAIN file
      PROVE  /\ loaded[id] \in Preset
             /\ loaded[id].host = file[id].host /\ loaded[id].auth = file[id].auth
             /\ loaded[id].pass = file[id].pass /\ loaded[id].enc = file[id].enc
             /\ loaded[id].key \notin KeyPaths
  <2>1. file[id] \in Preset
    BY <1>2, ListFacts
  <2>2. Parse(file[id].key) \in Optional(KeyTexts \union {Partial}) /\ Parse(file[id].key) \notin KeyPaths
    BY <1>2, <2>1, PresetStoreAssumption DEF Parse, Whole, Preset, Optional
  <2>3. PICK key : /\ key \in Optional(KeyTexts \union {Partial}) /\ key \notin KeyPaths
                   /\ loaded[id] = [file[id] EXCEPT !.key = key]
    BY <1>1, <2>2, Zenon
  <2>4. key \in Optional(KeyTexts \union KeyPaths \union {Partial})
    BY <2>3 DEF Optional
  <2>5. loaded[id] \in Preset /\ loaded[id].key = key
    BY <2>1, <2>3, <2>4 DEF Preset
  <2>6. /\ loaded[id].host = file[id].host /\ loaded[id].auth = file[id].auth
        /\ loaded[id].pass = file[id].pass /\ loaded[id].enc = file[id].enc
    BY <2>1, <2>3 DEF Preset
  <2> QED
    BY <2>3, <2>5, <2>6
<1>4. loaded \in Lists
  BY <1>1, <1>2, <1>3, ListFacts, ListIntro
<1> QED
  BY <1>1, <1>2, <1>3, <1>4 DEF Same, PasswordOf, Whole, AllProper, Proper

\* A job begins: its list is one that memory may get, and the file has the settings it
\* starts from.
LEMMA JobStarts ==
  ASSUME IInv, job = None, NEW kind \in Kinds, NEW sealing \in {hasKey, TRUE},
         NEW current \in Lists, NEW next \in Lists, NEW request \in Lists,
         NEW clearPass \in SUBSET PresetIDs, NEW clearKey \in SUBSET PresetIDs,
         AllProper(current, sealing), AllProper(next, sealing), AllSealed(next, sealing),
         Whole(next), Same(file, current),
         kind \in {"start", "get"} => Same(next, current),
         kind = "start" => server = "down",
         kind # "start" => server = "up" /\ current = mem /\ sealing = hasKey,
         Remembered(next, current, clearPass),
         hasKey' = sealing, job' = Job(kind, current, next, request, clearPass, clearKey),
         dialled' \in Optional([id: PresetIDs, fp: Hosts]),
         UNCHANGED <<file, keyFiles, server, mem>>
  PROVE  IInv'
<1> DEFINE adopted == AdoptReferences(next)
<1>1. StoreTypeOK /\ KeysAreWhole /\ PasswordsAreProper /\ FileFollows /\ sealing \in BOOLEAN
  BY DEF IInv, StoreTypeOK
<1>2. /\ adopted \in Lists /\ Same(adopted, next) /\ Whole(adopted)
      /\ AllProper(adopted, sealing) /\ AllSealed(adopted, sealing)
  BY <1>1, AdoptReferencesFacts DEF KeysAreWhole
<1>3. job' = [kind |-> kind, pc |-> "keys", current |-> current,
              next |-> adopted, doc |-> file,
              changed |-> adopted # next, writing |-> None,
              request |-> request, clearPass |-> clearPass, clearKey |-> clearKey]
  BY DEF Job
<1> HIDE DEF adopted
<1>4. /\ job'.kind = kind /\ job'.pc = "keys" /\ job'.current = current
      /\ job'.next = adopted /\ job'.doc = file /\ job'.clearPass = clearPass
  BY <1>3
<1>5. job' \in Jobs
  BY <1>1, <1>2, <1>3 DEF Jobs, Optional, StoreTypeOK
<1>6. StoreTypeOK'
  BY <1>1, <1>5 DEF StoreTypeOK, Optional
<1>7. KeysAreWhole'
  BY <1>1, <1>2, <1>4 DEF KeysAreWhole, Whole
<1>8. PasswordsAreProper'
  <2>1. AllProper(file, sealing) /\ AllProper(mem, sealing)
    <3>1. ~sealing => ~hasKey
      OBVIOUS
    <3> QED
      BY <1>1, <3>1 DEF PasswordsAreProper, AllProper, Proper
  <2>2. AllSealed(mem, sealing)
    <3>1. CASE sealing = hasKey
      BY <1>1, <3>1 DEF PasswordsAreProper
    <3>2. CASE kind = "start"
      BY <1>1, <3>2, NoPresetsFacts DEF FileFollows, AllSealed
    <3> QED
      BY <3>1, <3>2
  <2> QED
    BY <1>2, <1>4, <2>1, <2>2 DEF PasswordsAreProper
<1>9. NothingIsForgotten'
  BY <1>2, <1>4 DEF NothingIsForgotten, Remembered, Same
<1>10. FileFollows'
  <2>1. kind \in {"start", "get"} => Same(adopted, current)
    BY <1>2, SameIsAnEquivalence
  <2> QED
    BY <1>1, <1>4, <1>5, <2>1, JobFields DEF FileFollows
<1> QED
  BY <1>6, <1>7, <1>8, <1>9, <1>10 DEF IInv

\* The four that begin a job, and the dial, which begins none.
LEMMA StartStep == ASSUME IInv, Start PROVE IInv'
<1>1. PICK sealing \in {hasKey, TRUE} :
        /\ hasKey' = sealing
        /\ job' = Job("start", Load, ApplyPresetSecrets(Load, sealing), NoPresets, {}, {})
  BY DEF Start
<1>2. /\ job = None /\ server = "down" /\ UNCHANGED <<file, keyFiles, server, mem, dialled>>
      /\ hasKey \in BOOLEAN /\ dialled \in Optional([id: PresetIDs, fp: Hosts])
  BY DEF Start, IInv, StoreTypeOK
<1> DEFINE loaded == Load
           next == ApplyPresetSecrets(loaded, sealing)
<1>3. /\ loaded \in Lists /\ Same(file, loaded) /\ Whole(loaded)
      /\ AllProper(loaded, hasKey)
  BY LoadFacts
<1> HIDE DEF loaded
<1>4. /\ next \in Lists /\ Same(next, loaded)
      /\ \A id \in DOMAIN loaded : next[id].key = loaded[id].key
      /\ AllProper(next, sealing) /\ AllSealed(next, sealing)
  <2>1. sealing \in BOOLEAN /\ (hasKey => sealing)
    BY <1>2
  <2> QED
    BY <1>2, <1>3, <2>1, ApplyPresetSecretsFacts
<1> HIDE DEF next
<1>5. Whole(next) /\ AllProper(loaded, sealing)
  <2>1. ~sealing => ~hasKey
    OBVIOUS
  <2> QED
    BY <1>3, <1>4, <2>1 DEF Whole, Same, AllProper, Proper
<1>6. Remembered(next, loaded, {})
  BY <1>4 DEF Same, Remembered
<1>7. job' = Job("start", loaded, next, NoPresets, {}, {})
  BY <1>1 DEF loaded, next
<1>8. "start" \in Kinds /\ NoPresets \in Lists
  BY NoPresetsFacts DEF Kinds
<1> QED
  BY <1>1, <1>2, <1>3, <1>4, <1>5, <1>6, <1>7, <1>8, JobStarts

\* What the editor sends is a list like any other.
LEMMA RequestFacts ==
  ASSUME NEW preset \in RequestPreset
  PROVE  /\ preset \in Preset /\ preset.enc = None
         /\ (preset.auth = "Private Key" => preset.pass = None)
         /\ preset.key \in KeyPaths => keyFiles[preset.key] \in KeyTexts
<1> DEFINE paths == {path \in KeyPaths : keyFiles[path] \in KeyTexts}
<1>1. CASE preset \in [host: Hosts, auth: {"Password"}, pass: Optional(Passwords),
                       enc: {None}, key: {None}, fp: {None}]
  BY <1>1, PresetStoreAssumption DEF Preset, Optional
<1>2. CASE preset \in [host: Hosts, auth: {"Private Key"}, pass: {None},
                       enc: {None}, key: Optional(KeyTexts \union paths), fp: {None}]
  BY <1>2, PresetStoreAssumption DEF Preset, Optional
<1> QED
  BY <1>1, <1>2 DEF RequestPreset

LEMMA PutListStep == ASSUME IInv, PutList PROVE IInv'
<1>1. /\ job = None /\ server = "up" /\ UNCHANGED <<file, keyFiles, server, mem, dialled, hasKey>>
  BY DEF PutList, Puts, Locks
<1> DEFINE Starts(request, clearPass, clearKey) ==
        job' = Job("put", mem,
                   ApplyPresetSecrets(
                     PreserveFromFile(
                       PreserveHiddenPasswords(request, clearPass), clearKey), hasKey),
                   request, clearPass, clearKey)
<1>a. PICK ids \in SUBSET PresetIDs : \E request \in [ids -> RequestPreset] :
        \E clearPass \in SUBSET ids, clearKey \in SUBSET ids : Starts(request, clearPass, clearKey)
  <2>1. PICK ids \in SUBSET PresetIDs : \E request \in [ids -> RequestPreset] :
     \E clearPass \in SUBSET {id \in ids : request[id].auth = "Password"
                                           /\ request[id].pass = None},
        clearKey \in SUBSET {id \in ids : request[id].auth = "Private Key"
                                          /\ request[id].key = None} :
       Starts(request, clearPass, clearKey)
    BY DEF PutList
  <2> HIDE DEF Starts
  <2> QED
    BY <2>1
<1> HIDE DEF Starts
<1>2. PICK request \in [ids -> RequestPreset], clearPass \in SUBSET ids, clearKey \in SUBSET ids :
        Starts(request, clearPass, clearKey)
  BY <1>a
<1>3. /\ StoreTypeOK /\ KeysAreWhole /\ PasswordsAreProper /\ FileFollows
      /\ hasKey \in BOOLEAN /\ mem \in Lists /\ dialled \in Optional([id: PresetIDs, fp: Hosts])
      /\ AllProper(mem, hasKey) /\ Same(file, mem) /\ Whole(file)
  BY <1>1 DEF IInv, StoreTypeOK, PasswordsAreProper, FileFollows, KeysAreWhole
<1>4. request \in Lists /\ Whole(request) /\ InTheOpen(request)
  <2>1. DOMAIN request = ids /\ request = [id \in ids |-> request[id]]
        /\ \A id \in ids : request[id] \in RequestPreset
    OBVIOUS
  <2> QED
    BY <2>1, RequestFacts, ListIntro DEF Whole, InTheOpen
<1>5. clearPass \in SUBSET PresetIDs /\ clearKey \in SUBSET PresetIDs
  OBVIOUS
<1> DEFINE hidden == PreserveHiddenPasswords(request, clearPass)
           kept == PreserveFromFile(hidden, clearKey)
           next == ApplyPresetSecrets(kept, hasKey)
<1>6. /\ hidden \in Lists /\ DOMAIN hidden = DOMAIN request
      /\ AllProper(hidden, hasKey)
      /\ \A id \in DOMAIN request : hidden[id].key = request[id].key
      /\ Remembered(hidden, mem, clearPass)
  BY <1>3, <1>4, <1>5, PreserveHiddenPasswordsFacts
<1> HIDE DEF hidden
<1>7. Whole(hidden)
  BY <1>4, <1>6 DEF Whole
<1>8. /\ kept \in Lists /\ Same(kept, hidden) /\ Whole(kept) /\ AllProper(kept, hasKey)
  BY <1>3, <1>5, <1>6, <1>7, PreserveFromFileFacts
<1> HIDE DEF kept
<1>9. /\ next \in Lists /\ Same(next, kept)
      /\ \A id \in DOMAIN kept : next[id].key = kept[id].key
      /\ AllProper(next, hasKey) /\ AllSealed(next, hasKey)
  BY <1>3, <1>8, ApplyPresetSecretsFacts
<1> HIDE DEF next
<1>10. Whole(next)
  BY <1>8, <1>9 DEF Whole, Same
<1>11. Remembered(next, mem, clearPass)
  BY <1>6, <1>8, <1>9 DEF Same, Remembered
<1>12. job' = Job("put", mem, next, request, clearPass, clearKey)
  BY <1>2 DEF Starts, hidden, kept, next
<1>13. "put" \in Kinds /\ "put" \notin {"start", "get"} /\ hasKey \in {hasKey, TRUE} /\ hasKey' = hasKey
       /\ dialled' \in Optional([id: PresetIDs, fp: Hosts])
  BY <1>1, <1>3 DEF Kinds
<1> QED
  BY <1>1, <1>3, <1>4, <1>5, <1>9, <1>10, <1>11, <1>12, <1>13, JobStarts

\* With another fingerprint a list is the list it was.
LEMMA WithFingerprintFacts ==
  ASSUME NEW list \in Lists, NEW id, NEW fp \in Hosts,
         NEW saved, saved = WithFingerprint(list, id, fp)
  PROVE  /\ saved \in Lists /\ Same(saved, list)
         /\ \A i \in DOMAIN list : saved[i].key = list[i].key
         /\ \A sealing \in BOOLEAN : AllProper(list, sealing) => AllProper(saved, sealing)
         /\ id \notin DOMAIN list => saved = list
<1>1. /\ DOMAIN saved = DOMAIN list /\ saved = [i \in DOMAIN saved |-> saved[i]]
      /\ \A i \in DOMAIN list :
           saved[i] = IF i = id THEN [list[i] EXCEPT !.fp = fp] ELSE list[i]
  BY DEF WithFingerprint
<1>2. ASSUME NEW i \in DOMAIN list
      PROVE  /\ saved[i] \in Preset
             /\ saved[i].host = list[i].host /\ saved[i].auth = list[i].auth
             /\ saved[i].pass = list[i].pass /\ saved[i].enc = list[i].enc
             /\ saved[i].key = list[i].key
  <2>1. list[i] \in Preset /\ fp \in Optional(Hosts)
    BY ListFacts DEF Optional
  <2>2. CASE i = id
    <3>1. saved[i] = [list[i] EXCEPT !.fp = fp]
      BY <1>1, <2>2
    <3> QED
      BY <2>1, <3>1 DEF Preset
  <2>3. CASE i # id
    BY <1>1, <2>1, <2>3
  <2> QED
    BY <2>2, <2>3
<1>3. saved \in Lists
  BY <1>1, <1>2, ListFacts, ListIntro
<1>4. Same(saved, list)
  BY <1>1, <1>2 DEF Same, PasswordOf
<1>5. ASSUME NEW sealing \in BOOLEAN, AllProper(list, sealing) PROVE AllProper(saved, sealing)
  BY <1>1, <1>2, <1>5 DEF AllProper, Proper
<1>6. ASSUME id \notin DOMAIN list PROVE saved = list
  <2>1. list = [i \in DOMAIN list |-> list[i]]
    BY ListFacts
  <2> QED
    BY <1>1, <1>6, <2>1
<1> QED
  BY <1>2, <1>3, <1>4, <1>5, <1>6

LEMMA SaveFingerprintStep == ASSUME IInv, SaveFingerprint PROVE IInv'
<1>1. /\ job = None /\ server = "up" /\ dialled # None /\ dialled' = None
      /\ UNCHANGED <<file, keyFiles, server, mem, hasKey>>
  BY DEF SaveFingerprint, Puts, Locks
<1>2. /\ StoreTypeOK /\ KeysAreWhole /\ PasswordsAreProper /\ FileFollows
      /\ hasKey \in BOOLEAN /\ mem \in Lists
      /\ AllProper(mem, hasKey) /\ Same(file, mem) /\ Whole(file) /\ Whole(mem)
      /\ dialled \in [id: PresetIDs, fp: Hosts]
  BY <1>1 DEF IInv, StoreTypeOK, PasswordsAreProper, FileFollows, KeysAreWhole, Optional
<1> DEFINE saved == WithFingerprint(mem, dialled.id, dialled.fp)
<1>3. /\ saved \in Lists /\ Same(saved, mem)
      /\ \A i \in DOMAIN mem : saved[i].key = mem[i].key
      /\ AllProper(saved, hasKey)
      /\ dialled.id \notin DOMAIN mem => saved = mem
  <2>1. dialled.fp \in Hosts
    BY <1>2
  <2> QED
    BY <1>2, <2>1, WithFingerprintFacts
<1>4. CASE saved = mem
  <2>1. job' = None
    BY <1>4 DEF SaveFingerprint
  <2> QED
    BY <1>1, <1>2, <2>1 DEF IInv, StoreTypeOK, KeysAreWhole, Whole, PasswordsAreProper,
      NothingIsForgotten, FileFollows, Optional
<1>5. CASE saved # mem
  <2> DEFINE kept == PreserveFromFile(saved, {})
             next == ApplyPresetSecrets(kept, hasKey)
             request == [id \in {dialled.id} |-> saved[id]]
  <2>1. job' = Job("fingerprint", mem, next, request, {}, {})
    BY <1>5 DEF SaveFingerprint
  <2> HIDE DEF saved
  <2>2. request \in Lists
    <3>1. DOMAIN request = {dialled.id} /\ request = [id \in DOMAIN request |-> request[id]]
          /\ \A id \in DOMAIN request : request[id] = saved[id]
      OBVIOUS
    <3>2. dialled.id \in PresetIDs /\ dialled.id \in DOMAIN saved
      BY <1>2, <1>3, <1>5 DEF Same
    <3> HIDE DEF request
    <3> QED
      BY <1>3, <3>1, <3>2, ListFacts, ListIntro
  <2> HIDE DEF request
  <2>3. Whole(saved)
    BY <1>2, <1>3 DEF Whole, Same
  <2>4. {} \in SUBSET PresetIDs
    OBVIOUS
  <2>5. /\ kept \in Lists /\ Same(kept, saved) /\ Whole(kept) /\ AllProper(kept, hasKey)
    BY <1>2, <1>3, <2>3, <2>4, PreserveFromFileFacts
  <2> HIDE DEF kept
  <2>6. /\ next \in Lists /\ Same(next, kept)
        /\ \A id \in DOMAIN kept : next[id].key = kept[id].key
        /\ AllProper(next, hasKey) /\ AllSealed(next, hasKey)
    BY <1>2, <2>5, ApplyPresetSecretsFacts
  <2> HIDE DEF next
  <2>7. Whole(next)
    BY <2>5, <2>6 DEF Whole, Same
  <2>8. Remembered(next, mem, {})
    BY <1>3, <2>5, <2>6 DEF Same, Remembered
  <2>9. "fingerprint" \in Kinds /\ "fingerprint" \notin {"start", "get"}
        /\ hasKey \in {hasKey, TRUE} /\ hasKey' = hasKey
        /\ dialled' \in Optional([id: PresetIDs, fp: Hosts])
    BY <1>1 DEF Kinds, Optional
  <2> QED
    BY <1>1, <1>2, <2>1, <2>2, <2>4, <2>6, <2>7, <2>8, <2>9, JobStarts
<1> QED
  BY <1>4, <1>5

LEMMA GetListStep == ASSUME IInv, GetList PROVE IInv'
<1>1. /\ job = None /\ server = "up" /\ UNCHANGED <<file, keyFiles, server, mem, dialled, hasKey>>
      /\ job' = Job("get", mem, mem, NoPresets, {}, {})
  BY DEF GetList, Locks
<1>2. /\ hasKey \in BOOLEAN /\ mem \in Lists /\ dialled \in Optional([id: PresetIDs, fp: Hosts])
      /\ AllProper(mem, hasKey) /\ AllSealed(mem, hasKey) /\ Same(file, mem) /\ Whole(mem)
  BY <1>1 DEF IInv, StoreTypeOK, PasswordsAreProper, FileFollows, KeysAreWhole
<1>3. /\ "get" \in Kinds /\ "get" # "start" /\ hasKey \in {hasKey, TRUE} /\ hasKey' = hasKey
      /\ dialled' \in Optional([id: PresetIDs, fp: Hosts]) /\ {} \in SUBSET PresetIDs
      /\ NoPresets \in Lists
  BY <1>1, <1>2, NoPresetsFacts DEF Kinds
<1>4. Remembered(mem, mem, {}) /\ Same(mem, mem)
  BY SameIsAnEquivalence DEF Remembered
<1> QED
  BY <1>1, <1>2, <1>3, <1>4, JobStarts

LEMMA DialStep == ASSUME IInv, Dial PROVE IInv'
<1>1. PICK id \in DOMAIN mem : dialled' = [id |-> id, fp |-> mem[id].host]
  BY DEF Dial
<1>2. UNCHANGED <<file, keyFiles, server, mem, job, hasKey>>
  BY DEF Dial
<1>3. mem \in Lists
  BY DEF IInv, StoreTypeOK
<1>4. dialled' \in Optional([id: PresetIDs, fp: Hosts])
  BY <1>1, <1>3, ListFacts, PresetFacts DEF Optional
<1> QED
  BY <1>2, <1>4 DEF IInv, StoreTypeOK, KeysAreWhole, Whole, PasswordsAreProper,
    NothingIsForgotten, FileFollows

---------------------------------------------------------------------------
(* The steps of a job                                                      *)

\* A file that is created was nobody's, so no reference is to it.
LEMMA CreateKeyFileStep == ASSUME IInv, CreateKeyFile PROVE IInv'
<1>1. PICK id \in DOMAIN job.next, path \in KeyPaths :
        /\ NeedsKeyFile(job.next[id]) /\ FreePath(path)
        /\ keyFiles' = [keyFiles EXCEPT ![path] = Partial]
        /\ job' = [job EXCEPT !.pc = "keyfile", !.writing = [id |-> id, path |-> path]]
  BY DEF CreateKeyFile
<1>2. job # None /\ job.pc = "keys" /\ UNCHANGED <<file, server, mem, dialled, hasKey>>
  BY DEF CreateKeyFile
<1>3. StoreTypeOK /\ job \in Jobs /\ KeysAreWhole
  BY <1>2 DEF IInv, StoreTypeOK, Optional
<1>4. /\ job'.kind = job.kind /\ job'.pc = "keyfile" /\ job'.current = job.current
      /\ job'.next = job.next /\ job'.doc = job.doc /\ job'.clearPass = job.clearPass
      /\ job'.writing = [id |-> id, path |-> path]
  BY <1>1, <1>3 DEF Jobs
<1>5. job' \in Jobs
  <2>1. [id |-> id, path |-> path] \in [id: PresetIDs, path: KeyPaths]
    BY <1>3, JobFields, ListFacts
  <2> QED
    BY <1>1, <1>3, <2>1 DEF Jobs, Optional
<1>6. keyFiles' \in [KeyPaths -> KeyTexts \union {None, Partial}] /\ keyFiles'[path] = Partial
  BY <1>1, <1>3 DEF StoreTypeOK
<1>7. ASSUME NEW p \in KeyPaths, keyFiles[p] \in KeyTexts PROVE keyFiles'[p] \in KeyTexts
  BY <1>1, <1>3, <1>7, PresetStoreAssumption DEF StoreTypeOK, FreePath
<1>8. StoreTypeOK'
  BY <1>2, <1>3, <1>5, <1>6 DEF StoreTypeOK, Optional
<1>9. KeysAreWhole'
  <2>1. Whole(file)' /\ Whole(mem)' /\ Whole(job.next)' /\ Whole(job.doc)'
    BY <1>2, <1>3, <1>4, <1>7 DEF KeysAreWhole, Whole
  <2>2. /\ job'.writing \in [id: PresetIDs, path: KeyPaths]
        /\ job'.writing.id = id /\ job'.writing.path = path
    BY <1>3, <1>4, JobFields, ListFacts
  <2> QED
    BY <1>1, <1>4, <1>6, <2>1, <2>2 DEF KeysAreWhole, NeedsKeyFile
<1>10. PasswordsAreProper' /\ NothingIsForgotten' /\ FileFollows'
  BY <1>2, <1>4, <1>5, JobFields DEF IInv, PasswordsAreProper, NothingIsForgotten, FileFollows
<1> QED
  BY <1>8, <1>9, <1>10 DEF IInv

\* It is referred to once it is whole.
LEMMA FillKeyFileStep == ASSUME IInv, FillKeyFile PROVE IInv'
<1> DEFINE id == job.writing.id
           path == job.writing.path
<1>1. /\ job # None /\ job.pc = "keyfile" /\ UNCHANGED <<file, server, mem, dialled, hasKey>>
      /\ keyFiles' = [keyFiles EXCEPT ![path] = WrittenText(id)]
      /\ job' = [job EXCEPT !.pc = "keys", !.writing = None, !.changed = TRUE,
                            !.next[id].key = path, !.doc = Referring(job.doc, id, path)]
  BY DEF FillKeyFile
<1>2. /\ StoreTypeOK /\ job \in Jobs /\ KeysAreWhole /\ PasswordsAreProper
      /\ NothingIsForgotten /\ FileFollows /\ hasKey \in BOOLEAN
  BY <1>1 DEF IInv, StoreTypeOK, Optional
<1>3. /\ id \in DOMAIN job.next /\ path \in KeyPaths
      /\ WrittenText(id) \in KeyTexts /\ keyFiles[path] = Partial
  BY <1>1, <1>2 DEF KeysAreWhole, NeedsKeyFile, WrittenText
<1> HIDE DEF id, path
<1>4. /\ job.next \in Lists /\ job.doc \in Lists
  BY <1>2, JobFields
<1>5. /\ job'.kind = job.kind /\ job'.pc = "keys" /\ job'.current = job.current
      /\ job'.clearPass = job.clearPass /\ job'.doc = Referring(job.doc, id, path)
      /\ job'.next = [job.next EXCEPT ![id].key = path]
  BY <1>1, <1>2 DEF Jobs
<1>6. job'.next = Referring(job.next, id, path)
  <2>1. job.next = [i \in DOMAIN job.next |-> job.next[i]]
    BY <1>4, ListFacts
  <2> QED
    BY <1>3, <1>5, <2>1 DEF Referring
<1>7. /\ job'.next \in Lists /\ Same(job'.next, job.next)
      /\ \A i \in DOMAIN job.next : job'.next[i].key = (IF i = id THEN path ELSE job.next[i].key)
      /\ AllProper(job'.next, hasKey) /\ AllSealed(job'.next, hasKey)
  BY <1>1, <1>2, <1>3, <1>4, <1>6, ReferringFacts DEF PasswordsAreProper
<1>8. /\ job'.doc \in Lists /\ Same(job'.doc, job.doc)
      /\ \A i \in DOMAIN job.doc : job'.doc[i].key = (IF i = id THEN path ELSE job.doc[i].key)
      /\ AllProper(job'.doc, hasKey)
  BY <1>1, <1>2, <1>3, <1>4, <1>5, ReferringFacts DEF PasswordsAreProper
<1>9. job' \in Jobs
  <2>1. job' = [job EXCEPT !.pc = "keys", !.writing = None, !.changed = TRUE,
                           !.next = job'.next, !.doc = job'.doc]
    BY <1>1, <1>2, <1>5 DEF Jobs
  <2> QED
    BY <1>2, <1>7, <1>8, <2>1 DEF Jobs, Optional
<1>10. /\ keyFiles' \in [KeyPaths -> KeyTexts \union {None, Partial}]
       /\ keyFiles'[path] \in KeyTexts
       /\ \A p \in KeyPaths : keyFiles[p] \in KeyTexts => keyFiles'[p] \in KeyTexts
  BY <1>1, <1>2, <1>3 DEF StoreTypeOK
<1>11. StoreTypeOK'
  BY <1>1, <1>2, <1>9, <1>10 DEF StoreTypeOK, Optional
<1>12. KeysAreWhole'
  BY <1>1, <1>2, <1>5, <1>7, <1>8, <1>10 DEF KeysAreWhole, Whole, Same
<1>13. PasswordsAreProper'
  BY <1>1, <1>2, <1>5, <1>7, <1>8 DEF PasswordsAreProper
<1>14. NothingIsForgotten'
  BY <1>1, <1>2, <1>5, <1>7 DEF NothingIsForgotten, Remembered, Same
<1>15. FileFollows'
  BY <1>1, <1>2, <1>5, <1>7, <1>8, <1>9, JobFields, SameIsAnEquivalence DEF FileFollows
<1> QED
  BY <1>11, <1>12, <1>13, <1>14, <1>15 DEF IInv

\* The document with the references has the settings of the file.
LEMMA WriteReferencesStep == ASSUME IInv, WriteReferences PROVE IInv'
<1>1. /\ job # None /\ job.pc = "keys" /\ UNCHANGED <<keyFiles, server, mem, dialled, hasKey>>
      /\ file' \in {job.doc, file}
      /\ job' = [job EXCEPT !.pc = IF job.kind = "get" THEN "publish" ELSE "replace"]
  BY DEF WriteReferences
<1>2. /\ StoreTypeOK /\ job \in Jobs /\ KeysAreWhole /\ PasswordsAreProper
      /\ NothingIsForgotten /\ FileFollows
  BY <1>1 DEF IInv, StoreTypeOK, Optional
<1>3. /\ job'.kind = job.kind /\ job'.current = job.current /\ job'.next = job.next
      /\ job'.doc = job.doc /\ job'.clearPass = job.clearPass
      /\ job'.pc = IF job.kind = "get" THEN "publish" ELSE "replace"
  BY <1>1, <1>2 DEF Jobs
<1>4. job' \in Jobs /\ job' # None
  BY <1>1, <1>2, JobAssumption DEF Jobs
<1>5. /\ file' \in Lists /\ AllProper(file', hasKey) /\ Same(file', job.current)
  BY <1>1, <1>2, JobFields DEF StoreTypeOK, PasswordsAreProper, FileFollows
<1>6. Whole(file)'
  BY <1>1, <1>2 DEF KeysAreWhole, Whole
<1>7. StoreTypeOK'
  BY <1>1, <1>2, <1>4, <1>5 DEF StoreTypeOK, Optional
<1>8. KeysAreWhole'
  BY <1>1, <1>2, <1>3, <1>4, <1>6 DEF KeysAreWhole, Whole
<1>9. PasswordsAreProper' /\ NothingIsForgotten'
  BY <1>1, <1>2, <1>3, <1>5 DEF PasswordsAreProper, NothingIsForgotten
<1>10. FileFollows'
  BY <1>1, <1>2, <1>3, <1>4, <1>5, SameIsAnEquivalence DEF FileFollows
<1> QED
  BY <1>7, <1>8, <1>9, <1>10 DEF IInv

\* The merge compares with a list that has the settings the file has.
LEMMA RuntimeFacts ==
  ASSUME IInv, job # None, NEW runtime, runtime = Runtime
  PROVE  /\ runtime \in Lists /\ Same(runtime, job.current) /\ AllProper(runtime, hasKey)
<1>1. /\ job \in Jobs /\ job.current \in Lists /\ job.next \in Lists
      /\ AllProper(job.current, hasKey) /\ hasKey \in BOOLEAN
      /\ job.kind = "start" => Same(job.next, job.current)
  <2>1. job \in Jobs
    BY DEF IInv, StoreTypeOK, Optional
  <2> QED
    BY <2>1, JobFields DEF IInv, StoreTypeOK, PasswordsAreProper, FileFollows
<1>2. CASE job.kind # "start"
  BY <1>1, <1>2, SameIsAnEquivalence DEF Runtime
<1>3. CASE job.kind = "start"
  <2>1. /\ DOMAIN runtime = DOMAIN job.current /\ runtime = [id \in DOMAIN runtime |-> runtime[id]]
        /\ \A id \in DOMAIN job.current :
             runtime[id] = [job.current[id] EXCEPT !.key = job.next[id].key]
    BY <1>3 DEF Runtime
  <2>2. ASSUME NEW id \in DOMAIN job.current
        PROVE  /\ runtime[id] \in Preset
               /\ runtime[id].host = job.current[id].host /\ runtime[id].auth = job.current[id].auth
               /\ runtime[id].pass = job.current[id].pass /\ runtime[id].enc = job.current[id].enc
    <3>1. /\ job.current[id] \in Preset
          /\ job.next[id].key \in Optional(KeyTexts \union KeyPaths \union {Partial})
      BY <1>1, <1>3, ListFacts, PresetFacts DEF Same
    <3>2. runtime[id] = [job.current[id] EXCEPT !.key = job.next[id].key]
      BY <2>1
    <3> QED
      BY <3>1, <3>2 DEF Preset
  <2>3. runtime \in Lists
    BY <1>1, <2>1, <2>2, ListFacts, ListIntro
  <2>4. Same(runtime, job.current)
    BY <2>1, <2>2 DEF Same, PasswordOf
  <2>5. AllProper(runtime, hasKey)
    BY <1>1, <2>1, <2>2 DEF AllProper, Proper
  <2> QED
    BY <2>3, <2>4, <2>5
<1> QED
  BY <1>2, <1>3

\* The merged file has the settings of the list memory gets, and only references that
\* the file or that list had.
LEMMA MergeFacts ==
  ASSUME IInv, job # None, job.pc = "replace",
         NEW merged, merged = Merge(Runtime, job.next, job.clearPass, job.clearKey)
  PROVE  /\ merged \in Lists /\ Same(merged, job.next)
         /\ AllProper(merged, hasKey) /\ Whole(merged)
<1> DEFINE runtime == Runtime
           next == job.next
<1>1. /\ runtime \in Lists /\ Same(runtime, job.current) /\ AllProper(runtime, hasKey)
  BY RuntimeFacts
<1> HIDE DEF runtime
<1>2. job \in Jobs
  BY DEF IInv, StoreTypeOK, Optional
<1>3. /\ next \in Lists /\ file \in Lists /\ hasKey \in BOOLEAN
      /\ AllProper(next, hasKey) /\ AllSealed(next, hasKey) /\ AllProper(file, hasKey)
      /\ Whole(next) /\ Whole(file) /\ Same(file, job.current)
      /\ Remembered(next, job.current, job.clearPass)
  BY <1>2, JobFields DEF IInv, StoreTypeOK, PasswordsAreProper, KeysAreWhole, FileFollows,
    NothingIsForgotten
<1>4. merged = Merge(runtime, next, job.clearPass, job.clearKey)
  BY DEF runtime
<1> HIDE DEF next
<1>5. Same(file, runtime) /\ Remembered(next, runtime, job.clearPass)
  BY <1>1, <1>3 DEF Same, Remembered
<1>6. {id \in DOMAIN file \ DOMAIN next : runtime = NoPresets \/ id \notin DOMAIN runtime} = {}
  BY <1>5, NoPresetsFacts DEF Same
<1>7. /\ DOMAIN merged = DOMAIN next /\ merged = [id \in DOMAIN merged |-> merged[id]]
      /\ \A id \in DOMAIN next : merged[id] =
           IF id \in DOMAIN file \intersect DOMAIN runtime
           THEN MergePreset(file[id], runtime[id], next[id],
                            id \in job.clearPass, id \in job.clearKey)
           ELSE next[id]
  BY <1>4, <1>6 DEF Merge
<1>8. ASSUME NEW id \in DOMAIN next
      PROVE  /\ merged[id] \in Preset
             /\ merged[id].host = next[id].host /\ merged[id].auth = next[id].auth
             /\ PasswordOf(merged[id]) = PasswordOf(next[id])
             /\ Proper(merged[id], hasKey)
             /\ merged[id].key \in KeyPaths => keyFiles[merged[id].key] \in KeyTexts
  <2>1. /\ next[id] \in Preset /\ Proper(next[id], hasKey) /\ (hasKey => next[id].pass = None)
        /\ (next[id].key \in KeyPaths => keyFiles[next[id].key] \in KeyTexts)
    BY <1>3, ListFacts DEF AllProper, AllSealed, Whole
  <2>2. CASE id \in DOMAIN file \intersect DOMAIN runtime
    <3>1. /\ file[id] \in Preset /\ runtime[id] \in Preset
          /\ Proper(file[id], hasKey) /\ Proper(runtime[id], hasKey)
          /\ file[id].host = runtime[id].host /\ file[id].auth = runtime[id].auth
          /\ PasswordOf(file[id]) = PasswordOf(runtime[id])
          /\ (file[id].key \in KeyPaths => keyFiles[file[id].key] \in KeyTexts)
      BY <1>1, <1>3, <1>5, <2>2, ListFacts DEF AllProper, Same, Whole
    <3>2. next[id].auth = "Password" /\ PasswordOf(next[id]) = None /\ id \notin job.clearPass
            => PasswordOf(runtime[id]) = None
      BY <1>5, <2>2 DEF Remembered
    <3>3. merged[id] = MergePreset(file[id], runtime[id], next[id],
                                   id \in job.clearPass, id \in job.clearKey)
      BY <1>7, <2>2
    <3> DEFINE raw == file[id]
               current == runtime[id]
               new == next[id]
               made == merged[id]
    <3>4. /\ Mergeable(raw, current, new, id, job.clearPass, hasKey)
          /\ made = MergedPreset(raw, current, new, id, job.clearPass, job.clearKey)
      BY <1>3, <2>1, <3>1, <3>2, <3>3 DEF MergedPreset, Mergeable
    <3> HIDE DEF raw, current, new, made
    <3>5. /\ made \in Preset
          /\ made.host = new.host /\ made.auth = new.auth
          /\ PasswordOf(made) = PasswordOf(new)
          /\ Proper(made, hasKey)
          /\ made.key \in {raw.key, new.key, None}
      BY <1>3, <3>4, MergePresetFacts
    <3> QED
      BY <2>1, <3>1, <3>5, PresetStoreAssumption DEF raw, current, new, made
  <2>3. CASE id \notin DOMAIN file \intersect DOMAIN runtime
    BY <1>7, <2>1, <2>3
  <2> QED
    BY <2>2, <2>3
<1>9. merged \in Lists
  BY <1>3, <1>7, <1>8, ListFacts, ListIntro
<1>10. Same(merged, next) /\ AllProper(merged, hasKey) /\ Whole(merged)
  BY <1>7, <1>8 DEF Same, AllProper, Whole
<1> QED
  BY <1>9, <1>10 DEF next

\* From here on the file has the settings of the new list ...
LEMMA ReplaceFilePresetsStep == ASSUME IInv, ReplaceFilePresets PROVE IInv'
<1>1. /\ job # None /\ job.pc = "replace" /\ UNCHANGED <<keyFiles, server, mem, dialled, hasKey>>
      /\ job' = [job EXCEPT !.pc = "publish"]
  BY DEF ReplaceFilePresets
<1>2. /\ StoreTypeOK /\ job \in Jobs /\ KeysAreWhole /\ PasswordsAreProper
      /\ NothingIsForgotten /\ FileFollows
  BY <1>1 DEF IInv, StoreTypeOK, Optional
<1>3. /\ job'.kind = job.kind /\ job'.current = job.current /\ job'.next = job.next
      /\ job'.doc = job.doc /\ job'.clearPass = job.clearPass /\ job'.pc = "publish"
  BY <1>1, <1>2 DEF Jobs
<1>4. job' \in Jobs /\ job' # None
  BY <1>1, <1>2, JobAssumption DEF Jobs
<1>5. /\ file' \in Lists /\ AllProper(file', hasKey) /\ Same(file', job.next) /\ Whole(file')
  <2>1. CASE file' = file /\ job.next = job.current
    BY <1>1, <1>2, <2>1 DEF StoreTypeOK, KeysAreWhole, PasswordsAreProper, FileFollows
  <2>2. CASE file' = Merge(Runtime, job.next, job.clearPass, job.clearKey)
    BY <1>1, <2>2, MergeFacts
  <2> QED
    BY <2>1, <2>2 DEF ReplaceFilePresets
<1>6. StoreTypeOK'
  BY <1>1, <1>2, <1>4, <1>5 DEF StoreTypeOK, Optional
<1>7. KeysAreWhole'
  BY <1>1, <1>2, <1>3, <1>4, <1>5 DEF KeysAreWhole, Whole
<1>8. PasswordsAreProper' /\ NothingIsForgotten'
  BY <1>1, <1>2, <1>3, <1>5 DEF PasswordsAreProper, NothingIsForgotten
<1>9. FileFollows'
  BY <1>1, <1>2, <1>3, <1>4, <1>5 DEF FileFollows
<1> QED
  BY <1>6, <1>7, <1>8, <1>9 DEF IInv

\* ... which memory gets.
LEMMA PublishStep == ASSUME IInv, Publish PROVE IInv'
<1>1. /\ job # None /\ job.pc = "publish" /\ UNCHANGED <<file, keyFiles, dialled, hasKey>>
      /\ mem' = job.next /\ server' = "up" /\ job' = None
  BY DEF Publish
<1>2. /\ StoreTypeOK /\ job \in Jobs /\ KeysAreWhole /\ PasswordsAreProper
      /\ NothingIsForgotten /\ FileFollows
  BY <1>1 DEF IInv, StoreTypeOK, Optional
<1>3. StoreTypeOK'
  BY <1>1, <1>2, JobFields DEF StoreTypeOK, Optional
<1>4. KeysAreWhole' /\ PasswordsAreProper' /\ NothingIsForgotten'
  BY <1>1, <1>2 DEF KeysAreWhole, Whole, PasswordsAreProper, NothingIsForgotten
<1>5. FileFollows'
  BY <1>1, <1>2 DEF FileFollows
<1> QED
  BY <1>3, <1>4, <1>5 DEF IInv

\* A job that ends without its lists leaves what it started from.
LEMMA AbortStep ==
  ASSUME IInv, job # None, job.pc # "publish", Abort,
         keyFiles' \in [KeyPaths -> KeyTexts \union {None, Partial}],
         \A path \in KeyPaths : keyFiles[path] \in KeyTexts => keyFiles'[path] \in KeyTexts
  PROVE  IInv'
<1>1. job' = None /\ UNCHANGED <<file, server, mem, dialled, hasKey>>
  BY DEF Abort
<1>2. StoreTypeOK /\ KeysAreWhole /\ PasswordsAreProper /\ FileFollows
  BY DEF IInv
<1>3. StoreTypeOK'
  BY <1>1, <1>2 DEF StoreTypeOK, Optional
<1>4. KeysAreWhole' /\ PasswordsAreProper' /\ NothingIsForgotten'
  BY <1>1, <1>2 DEF KeysAreWhole, Whole, PasswordsAreProper, NothingIsForgotten
<1>5. FileFollows'
  BY <1>1, <1>2 DEF FileFollows
<1> QED
  BY <1>3, <1>4, <1>5 DEF IInv

\* What a failing write leaves of a key file nobody refers to.
LEMMA WriteFailsStep == ASSUME IInv, WriteFails PROVE IInv'
<1>1. StoreTypeOK /\ KeysAreWhole
  BY DEF IInv
<1>2. ASSUME job # None, job.pc = "keyfile", Abort,
             NEW left \in {None, WrittenText(job.writing.id)},
             keyFiles' = [keyFiles EXCEPT ![job.writing.path] = left]
      PROVE  IInv'
  <2>1. /\ job.writing.path \in KeyPaths /\ left \in KeyTexts \union {None}
        /\ keyFiles[job.writing.path] = Partial
    BY <1>1, <1>2 DEF KeysAreWhole, NeedsKeyFile, WrittenText
  <2>2. /\ keyFiles' \in [KeyPaths -> KeyTexts \union {None, Partial}]
        /\ \A path \in KeyPaths : keyFiles[path] \in KeyTexts => keyFiles'[path] \in KeyTexts
    BY <1>1, <1>2, <2>1 DEF StoreTypeOK
  <2> QED
    BY <1>2, <2>2, AbortStep
<1>3. ASSUME job # None, job.pc \in {"keys", "replace"}, Abort, UNCHANGED keyFiles
      PROVE  IInv'
  BY <1>1, <1>3, AbortStep DEF StoreTypeOK
<1> QED
  BY <1>2, <1>3 DEF WriteFails

\* A crash takes memory and job, and nothing of the files.
LEMMA CrashStep == ASSUME IInv, Crash PROVE IInv'
<1>1. /\ server' = "down" /\ mem' = NoPresets /\ job' = None /\ dialled' = None
      /\ UNCHANGED <<file, keyFiles, hasKey>>
  BY DEF Crash
<1>2. StoreTypeOK /\ KeysAreWhole /\ PasswordsAreProper
  BY DEF IInv
<1>3. StoreTypeOK'
  BY <1>1, <1>2, NoPresetsFacts DEF StoreTypeOK, Optional
<1>4. KeysAreWhole' /\ PasswordsAreProper' /\ NothingIsForgotten'
  BY <1>1, <1>2, NoPresetsFacts DEF KeysAreWhole, Whole, PasswordsAreProper, AllProper, AllSealed,
    NothingIsForgotten
<1>5. FileFollows'
  BY <1>1 DEF FileFollows
<1> QED
  BY <1>3, <1>4, <1>5 DEF IInv

---------------------------------------------------------------------------
(* The theorem                                                             *)

\* The operator's configuration is as OperatorAssumption says.
LEMMA InitHolds == ASSUME Init PROVE IInv
<1>1. PICK ids \in SUBSET PresetIDs : file \in [ids -> InitialPresets]
  BY DEF Init
<1>2. PICK key \in KeyTexts :
        keyFiles = [path \in KeyPaths |-> IF path \in OperatorKeys THEN key ELSE None]
  BY DEF Init
<1>3. /\ server = "down" /\ mem = NoPresets /\ job = None /\ dialled = None /\ hasKey \in BOOLEAN
  BY DEF Init
<1>4. ASSUME NEW id \in DOMAIN file
      PROVE  /\ file[id] \in Preset /\ file[id].enc = None
             /\ file[id].key \in Optional(KeyTexts \union OperatorKeys)
             /\ (file[id].auth = "Private Key" => file[id].pass = None)
  BY <1>1, OperatorAssumption
<1>5. file \in Lists
  BY <1>1, <1>4, ListIntro
<1>6. StoreTypeOK
  BY <1>2, <1>3, <1>5, NoPresetsFacts DEF StoreTypeOK, Optional
<1>7. Whole(file)
  BY <1>2, <1>4 DEF Whole, Optional
<1>8. AllProper(file, hasKey)
  BY <1>4 DEF AllProper, Proper
<1>9. KeysAreWhole /\ PasswordsAreProper /\ NothingIsForgotten /\ FileFollows
  BY <1>3, <1>7, <1>8, NoPresetsFacts DEF KeysAreWhole, Whole, PasswordsAreProper, AllProper,
    AllSealed, NothingIsForgotten, FileFollows
<1> QED
  BY <1>6, <1>9 DEF IInv

\* Every step keeps the invariant.
LEMMA Consecution == ASSUME IInv, [Next]_vars PROVE IInv'
<1>1. CASE Next
  BY <1>1, StartStep, PutListStep, DialStep, SaveFingerprintStep, GetListStep, CreateKeyFileStep,
    FillKeyFileStep, WriteReferencesStep, ReplaceFilePresetsStep, PublishStep, WriteFailsStep,
    CrashStep DEF Next, JobStep
<1>2. CASE UNCHANGED vars
  BY <1>2 DEF vars, IInv, StoreTypeOK, KeysAreWhole, Whole, PasswordsAreProper,
    NothingIsForgotten, FileFollows
<1> QED
  BY <1>1, <1>2

\* What the invariant says of the file.
LEMMA Consequence == ASSUME IInv PROVE CrashLeavesOneList
<1> DEFINE Settings(list) == [id \in DOMAIN list |->
             <<list[id].host, list[id].auth, PasswordOf(list[id])>>]
<1>1. StoreTypeOK /\ Whole(file) /\ AllProper(file, hasKey) /\ FileFollows
  BY DEF IInv, KeysAreWhole, PasswordsAreProper
<1>2. ASSUME NEW id \in DOMAIN file, file[id].key \in KeyPaths
      PROVE  keyFiles[file[id].key] # None /\ keyFiles[file[id].key] # Partial
  BY <1>1, <1>2 DEF Whole
<1>3. ASSUME NEW id \in DOMAIN file, file[id].enc # None PROVE hasKey
  BY <1>1, <1>3 DEF AllProper, Proper
<1>4. Loadable
  BY <1>2, <1>3 DEF Loadable
<1>5. ASSUME NEW a, NEW b, Same(a, b) PROVE Settings(a) = Settings(b)
  BY <1>5 DEF Same
<1>6. ASSUME job # None PROVE Settings(file) \in {Settings(job.current), Settings(job.next)}
  <2>1. Same(file, job.current) \/ Same(file, job.next)
    BY <1>1, <1>6 DEF FileFollows
  <2> HIDE DEF Settings
  <2> QED
    BY <1>5, <2>1
<1> QED
  BY <1>2, <1>4, <1>6 DEF CrashLeavesOneList

\* For any presets, keys, key files and saves, whatever fails and wherever the process
\* dies, the configuration file can be loaded and is the list of before or after the save.
THEOREM FileSurvives == Spec => []CrashLeavesOneList
<1>1. Init => IInv
  BY InitHolds
<1>2. IInv /\ [Next]_vars => IInv'
  BY Consecution
<1>3. IInv => CrashLeavesOneList
  BY Consequence
<1> QED
  BY <1>1, <1>2, <1>3, PTL DEF Spec

---------------------------------------------------------------------------
(* Keys, which are harder than the settings: a key is a text in one list   *)
(* and the file it was moved to in another, and the merge decides by       *)
(* comparing the two ways to write it.  So keys are compared by what they  *)
(* resolve to, with the directory as it is and as it will be: a whole key  *)
(* file never changes (Settled), so what a whole list is worth survives    *)
(* every step (KeysStay).                                                  *)

\* Parse, with a given directory of keys.
Resolve(files, value) == IF value \in KeyPaths THEN files[value] ELSE value

SameKeys(files, a, b) ==
  /\ DOMAIN a = DOMAIN b
  /\ \A id \in DOMAIN a : Resolve(files, a[id].key) = Resolve(files, b[id].key)

\* What the merge needs to know of an entry of the file: it says what memory says, or
\* already what the save says; and it has no key where the save found none.
Carried(files, raw, current, next, clear) ==
  /\ Resolve(files, raw.key) = Resolve(files, current.key) \/ raw.key = next.key
  /\ next.key = None /\ next.auth = "Private Key" /\ ~clear => raw.key = None
Carries(files, list, j) == \A id \in DOMAIN list \intersect DOMAIN j.next :
  Carried(files, list[id], j.current[id], j.next[id], id \in j.clearKey)

\* How far a job has come with the keys, while no save has failed.
KeysFollow ==
  /\ saveFailed \in BOOLEAN
  /\ server = "down" => ~saveFailed
  /\ ~saveFailed /\ job = None /\ server = "up" => SameKeys(keyFiles, file, mem)
  /\ ~saveFailed /\ job # None =>
       /\ job.pc = "publish" => SameKeys(keyFiles, file, job.next)
       /\ job.kind \in {"start", "get"} /\ job.pc # "publish" =>
            SameKeys(keyFiles, file, job.next) /\ SameKeys(keyFiles, job.doc, job.next)
       /\ job.kind \in {"put", "fingerprint"} =>
            /\ job.pc \in {"keys", "keyfile"} =>
                 /\ SameKeys(keyFiles, file, job.current)
                 /\ Carries(keyFiles, file, job) /\ Carries(keyFiles, job.doc, job)
            /\ job.pc = "replace" => Carries(keyFiles, file, job)

\* The list of a PUT has the secrets its editor meant.
MeantPassword(j, id) ==
  LET asked == j.request[id]
  IN IF asked.auth # "Password" THEN None
     ELSE IF asked.pass # None THEN asked.pass
     ELSE IF /\ id \in DOMAIN j.current /\ j.current[id].auth = "Password"
             /\ id \notin j.clearPass
          THEN PasswordOf(j.current[id]) ELSE None
MeantKey(files, j, id) ==
  LET asked == j.request[id]
  IN IF asked.auth # "Private Key" THEN None
     ELSE IF asked.key # None THEN Resolve(files, asked.key)
     ELSE IF id \in DOMAIN j.current /\ id \notin j.clearKey
          THEN Resolve(files, j.current[id].key) ELSE None
SaveIsMeant == job # None /\ job.kind = "put" =>
  /\ Whole(job.request) /\ DOMAIN job.next = DOMAIN job.request
  /\ \A id \in DOMAIN job.request :
       /\ PasswordOf(job.next[id]) = MeantPassword(job, id)
       /\ ~saveFailed => Resolve(keyFiles, job.next[id].key) = MeantKey(keyFiles, job, id)

\* No key of a list is still to be moved to a file.
AllMoved(list) == \A id \in DOMAIN list : ~NeedsKeyFile(list[id])

\* A fingerprint that one list has the other has as well.
Trusts(a, b) == \A id \in DOMAIN b : b[id].fp # None => a[id].fp = b[id].fp
SameFingerprints(a, b) == \A id \in DOMAIN b : a[id].fp = b[id].fp

\* What memory gets has its keys in files, and trusts no host the file does not.
MemoryFollows ==
  /\ AllMoved(mem)
  /\ job = None /\ server = "up" => Trusts(file, mem)
  /\ job # None =>
       /\ job.kind = "get" => job.pc # "replace"
       /\ job.pc \in {"replace", "publish"} => AllMoved(job.next)
       /\ job.pc # "publish" => /\ SameFingerprints(job.doc, file)
                                /\ Trusts(file, job.current)
       /\ job.kind \in {"start", "get"} => SameFingerprints(job.next, job.current)
       /\ job.pc = "publish" => Trusts(file, job.next)

\* A fingerprint that is saved leaves the rest as it is.
Untouched(files, current, next) ==
  /\ next.auth = "Private Key" => Resolve(files, next.key) = Resolve(files, current.key)
  /\ ~NeedsKeyFile(next)
KnownFingerprint(raw, current, next) ==
  next.fp = current.fp \/ (current.fp = None /\ next.fp = raw.fp)
FingerprintIsSaved == job # None /\ job.kind = "fingerprint" =>
  /\ Same(job.next, job.current)
  /\ \A id, other \in DOMAIN job.request : id = other
  /\ \A id \in DOMAIN job.next : id \notin DOMAIN job.request =>
       KnownFingerprint(file[id], job.current[id], job.next[id])
  /\ ~saveFailed => /\ job.pc # "keyfile"
                    /\ job.pc = "keys" => job.doc = file
                    /\ \A id \in DOMAIN job.next :
                         Untouched(keyFiles, job.current[id], job.next[id])

KeysInv == /\ IInv /\ KeysFollow /\ SaveIsMeant /\ MemoryFollows /\ FingerprintIsSaved

---------------------------------------------------------------------------
(* What a key resolves to                                                  *)

LEMMA ParseIsResolve == \A value : Parse(value) = Resolve(keyFiles, value)
  BY DEF Parse, Resolve

\* A directory in which every whole key file is what it was.
Settled(files) == \A path \in KeyPaths : keyFiles[path] \in KeyTexts => files[path] = keyFiles[path]

LEMMA KeysStay ==
  ASSUME NEW files, Settled(files), NEW list, Whole(list)
  PROVE  \A id \in DOMAIN list :
           Resolve(files, list[id].key) = Resolve(keyFiles, list[id].key)
  BY DEF Settled, Whole, Resolve

\* Whole lists with the same keys keep them.
LEMMA SameKeysStay ==
  ASSUME NEW files, Settled(files), NEW a, NEW b, Whole(a), Whole(b), SameKeys(keyFiles, a, b)
  PROVE  SameKeys(files, a, b)
  BY KeysStay DEF SameKeys

\* What resolves to nothing is no reference.
LEMMA NoKeyIsNone ==
  ASSUME NEW list, Whole(list), NEW id \in DOMAIN list, Resolve(keyFiles, list[id].key) = None
  PROVE  list[id].key = None
  BY PresetStoreAssumption DEF Whole, Resolve

LEMMA SameKeysIsAnEquivalence ==
  ASSUME NEW files
  PROVE  /\ \A a : SameKeys(files, a, a)
         /\ \A a, b : SameKeys(files, a, b) => SameKeys(files, b, a)
         /\ \A a, b, c : SameKeys(files, a, b) /\ SameKeys(files, b, c) => SameKeys(files, a, c)
  BY DEF SameKeys

\* The merge gives the file a key that is worth what memory gets, whichever way to
\* write it the merge keeps.
LEMMA MergeKeyFacts ==
  ASSUME NEW raw, NEW current, NEW next, NEW clear,
         Carried(keyFiles, raw, current, next, clear),
         raw.key \in KeyPaths => keyFiles[raw.key] \in KeyTexts
  PROVE  Resolve(keyFiles, MergeKey(raw, current, next, clear)) = Resolve(keyFiles, next.key)
<1> DEFINE key == MergeKey(raw, current, next, clear)
<1>1. CASE next.key = None
  BY <1>1, PresetStoreAssumption DEF MergeKey, Carried, Resolve
<1>2. CASE /\ next.key # None /\ raw.key \in KeyPaths /\ next.key \notin KeyPaths
           /\ next.key \in {current.key, keyFiles[raw.key]}
  <2>1. key = raw.key
    BY <1>2 DEF MergeKey, KeptKey
  <2>2. Resolve(keyFiles, next.key) = next.key /\ Resolve(keyFiles, raw.key) = keyFiles[raw.key]
    BY <1>2 DEF Resolve
  <2>3. CASE next.key = current.key
    BY <1>2, <2>1, <2>2, <2>3 DEF Carried
  <2>4. CASE next.key = keyFiles[raw.key]
    BY <2>1, <2>2, <2>4
  <2> QED
    BY <1>2, <2>3, <2>4
<1>3. CASE /\ next.key # None
           /\ ~(/\ raw.key \in KeyPaths /\ next.key \notin KeyPaths
                /\ next.key \in {current.key, keyFiles[raw.key]})
  <2>1. key = Kept(raw.key, current.key, next.key)
    BY <1>3 DEF MergeKey, KeptKey
  <2> QED
    BY <2>1 DEF Kept, Carried
<1> QED
  BY <1>1, <1>2, <1>3

---------------------------------------------------------------------------
(* The lists a save begins with                                            *)

\* A record with another key, and a list of such.
LEMMA WithKey ==
  ASSUME NEW preset \in Preset, NEW key, NEW with, with = [preset EXCEPT !.key = key]
  PROVE  /\ with.key = key /\ with.host = preset.host /\ with.auth = preset.auth
         /\ with.pass = preset.pass /\ with.enc = preset.enc /\ with.fp = preset.fp
  BY DEF Preset

\* The loader puts texts for references.
LEMMA LoadKeys ==
  ASSUME IInv, NEW loaded, loaded = Load
  PROVE  SameKeys(keyFiles, file, loaded) /\ SameFingerprints(loaded, file)
<1>1. /\ DOMAIN loaded = DOMAIN file
      /\ \A id \in DOMAIN file : loaded[id] = [file[id] EXCEPT !.key = Parse(file[id].key)]
  BY DEF Load
<1>2. file \in Lists /\ Whole(file)
  BY DEF IInv, StoreTypeOK, KeysAreWhole
<1>3. ASSUME NEW id \in DOMAIN file
      PROVE  /\ loaded[id].fp = file[id].fp
             /\ Resolve(keyFiles, file[id].key) = Resolve(keyFiles, loaded[id].key)
  <2>1. loaded[id].key = Parse(file[id].key) /\ loaded[id].fp = file[id].fp
    <3>1. file[id] \in Preset
      BY <1>2, ListFacts
    <3>2. loaded[id] = [file[id] EXCEPT !.key = Parse(file[id].key)]
      BY <1>1
    <3> QED
      BY <3>1, <3>2, WithKey
  <2>2. Parse(file[id].key) \notin KeyPaths
    BY <1>2, PresetStoreAssumption DEF Parse, Whole
  <2> QED
    BY <2>1, <2>2, ParseIsResolve DEF Resolve
<1> QED
  BY <1>1, <1>3 DEF SameKeys, SameFingerprints

\* Sealing passwords leaves keys and fingerprints.
LEMMA ApplySecretsKeys ==
  ASSUME NEW list \in Lists, NEW sealing \in BOOLEAN,
         NEW applied, applied = ApplyPresetSecrets(list, sealing)
  PROVE  /\ DOMAIN applied = DOMAIN list
         /\ \A id \in DOMAIN list :
              applied[id].key = list[id].key /\ applied[id].fp = list[id].fp
<1>1. /\ DOMAIN applied = DOMAIN list
      /\ \A id \in DOMAIN list : applied[id] = ApplySecrets(list[id], sealing)
  BY DEF ApplyPresetSecrets
<1>2. ASSUME NEW id \in DOMAIN list
      PROVE  applied[id].key = list[id].key /\ applied[id].fp = list[id].fp
  <2>1. list[id] \in Preset
    BY ListFacts
  <2> QED
    BY <1>1, <2>1 DEF ApplySecrets, Preset
<1> QED
  BY <1>1, <1>2

\* An adopted reference is worth the text it is adopted for.
LEMMA AdoptKeys ==
  ASSUME StoreTypeOK, Whole(file), NEW list \in Lists,
         NEW adopted, adopted = AdoptReferences(list)
  PROVE  /\ SameKeys(keyFiles, adopted, list) /\ SameFingerprints(adopted, list)
         /\ \A id \in DOMAIN list :
              /\ adopted[id].auth = list[id].auth
              /\ adopted[id].key = None <=> list[id].key = None
         /\ AllMoved(list) => adopted = list
<1> DEFINE Adopts(id) == /\ list[id].auth = "Private Key" /\ list[id].key # None
                         /\ id \in DOMAIN file /\ file[id].key \in KeyPaths
                         /\ keyFiles[file[id].key] = list[id].key
<1>1. /\ DOMAIN adopted = DOMAIN list /\ adopted = [id \in DOMAIN adopted |-> adopted[id]]
      /\ \A id \in DOMAIN list : adopted[id] =
           IF Adopts(id) THEN [list[id] EXCEPT !.key = file[id].key] ELSE list[id]
  BY DEF AdoptReferences
<1>2. \A id \in DOMAIN list : Adopts(id) => list[id].key \in KeyTexts
  BY DEF Whole
<1>3. ASSUME NEW id \in DOMAIN list
      PROVE  /\ adopted[id].auth = list[id].auth /\ adopted[id].fp = list[id].fp
             /\ adopted[id].key = None <=> list[id].key = None
             /\ Resolve(keyFiles, adopted[id].key) = Resolve(keyFiles, list[id].key)
  <2>1. CASE Adopts(id)
    <3>1. /\ adopted[id].key = file[id].key /\ adopted[id].auth = list[id].auth
          /\ adopted[id].fp = list[id].fp
      <4>1. list[id] \in Preset
        BY ListFacts
      <4>2. adopted[id] = [list[id] EXCEPT !.key = file[id].key]
        BY <1>1, <2>1
      <4> HIDE DEF Adopts
      <4> QED
        BY <4>1, <4>2, WithKey
    <3>2. list[id].key \in KeyTexts
      BY <1>2, <2>1
    <3> QED
      BY <2>1, <3>1, <3>2, PresetStoreAssumption DEF Resolve
  <2>2. CASE ~Adopts(id)
    BY <1>1, <2>2
  <2> QED
    BY <2>1, <2>2
<1>4. ASSUME AllMoved(list) PROVE adopted = list
  <2>1. \A id \in DOMAIN list : ~Adopts(id)
    BY <1>2, <1>4 DEF AllMoved, NeedsKeyFile
  <2>2. \A id \in DOMAIN list : adopted[id] = list[id]
    BY <1>1, <2>1
  <2>3. list = [id \in DOMAIN list |-> list[id]]
    BY ListFacts
  <2> HIDE DEF Adopts
  <2> QED
    BY <1>1, <2>2, <2>3
<1> HIDE DEF Adopts
<1> QED
  BY <1>1, <1>3, <1>4 DEF SameKeys, SameFingerprints

\* Where a key and a fingerprint come from.
FromFile(kept, list, clear) == \A id \in DOMAIN list :
  /\ kept[id].auth = list[id].auth
  /\ kept[id].key = IF id \in clear \/ list[id].auth # "Private Key" THEN None
                    ELSE IF list[id].key = None /\ id \in DOMAIN file
                         THEN file[id].key ELSE list[id].key
  /\ kept[id].fp = IF /\ id \in DOMAIN file /\ list[id].fp = None
                      /\ list[id].host = file[id].host
                   THEN file[id].fp ELSE list[id].fp

LEMMA PreserveFromFileKeys ==
  ASSUME StoreTypeOK, NEW list \in Lists, NEW clear,
         NEW kept, kept = PreserveFromFile(list, clear)
  PROVE  DOMAIN kept = DOMAIN list /\ FromFile(kept, list, clear)
<1> DEFINE trusted(id) == IF id \in DOMAIN file THEN PreserveFingerprint(list[id], file[id])
                                                ELSE list[id]
<1>1. /\ DOMAIN kept = DOMAIN list
      /\ \A id \in DOMAIN list : kept[id] = PreserveKey(trusted(id), id, clear)
  BY DEF PreserveFromFile
<1>2. ASSUME NEW id \in DOMAIN list
      PROVE  /\ trusted(id) \in Preset /\ trusted(id).auth = list[id].auth
             /\ trusted(id).key = list[id].key
             /\ trusted(id).fp = IF /\ id \in DOMAIN file /\ list[id].fp = None
                                    /\ list[id].host = file[id].host
                                 THEN file[id].fp ELSE list[id].fp
  <2>1. list[id] \in Preset /\ (id \in DOMAIN file => file[id] \in Preset)
    BY ListFacts DEF StoreTypeOK
  <2> QED
    BY <2>1 DEF PreserveFingerprint, Preset
<1> HIDE DEF trusted
<1>3. ASSUME NEW id \in DOMAIN list
      PROVE  /\ kept[id].auth = list[id].auth /\ kept[id].fp = trusted(id).fp
             /\ kept[id].key = IF id \in clear \/ list[id].auth # "Private Key" THEN None
                               ELSE IF list[id].key = None /\ id \in DOMAIN file
                                    THEN file[id].key ELSE list[id].key
  <2> DEFINE preset == trusted(id)
             made == kept[id]
  <2>1. /\ preset \in Preset /\ preset.auth = list[id].auth /\ preset.key = list[id].key
        /\ made = PreserveKey(preset, id, clear)
    BY <1>1, <1>2
  <2> HIDE DEF preset, made
  <2>2. CASE id \in clear \/ preset.auth # "Private Key"
    <3>1. made = [preset EXCEPT !.key = None]
      BY <2>1, <2>2 DEF PreserveKey
    <3>2. made.key = None /\ made.auth = preset.auth /\ made.fp = preset.fp
      BY <2>1, <3>1, WithKey
    <3> QED
      BY <2>1, <2>2, <3>2 DEF preset, made
  <2>3. CASE /\ ~(id \in clear \/ preset.auth # "Private Key")
             /\ preset.key = None /\ id \in DOMAIN file
    <3>1. made = [preset EXCEPT !.key = file[id].key]
      BY <2>1, <2>3 DEF PreserveKey
    <3>2. made.key = file[id].key /\ made.auth = preset.auth /\ made.fp = preset.fp
      BY <2>1, <3>1, WithKey
    <3> QED
      BY <2>1, <2>3, <3>2 DEF preset, made
  <2>4. CASE /\ ~(id \in clear \/ preset.auth # "Private Key")
             /\ ~(preset.key = None /\ id \in DOMAIN file)
    <3>1. made = preset
      BY <2>1, <2>4 DEF PreserveKey
    <3> QED
      BY <2>1, <2>4, <3>1 DEF preset, made
  <2> QED
    BY <2>2, <2>3, <2>4
<1> QED
  BY <1>1, <1>2, <1>3 DEF FromFile

\* The password a save gives a preset is the one its editor meant.
LEMMA HiddenPasswordsAreMeant ==
  ASSUME StoreTypeOK, NEW j, j.request \in Lists, j.current = mem, InTheOpen(j.request),
         NEW kept, kept = PreserveHiddenPasswords(j.request, j.clearPass)
  PROVE  /\ DOMAIN kept = DOMAIN j.request
         /\ \A id \in DOMAIN j.request : /\ PasswordOf(kept[id]) = MeantPassword(j, id)
                                        /\ kept[id].auth = j.request[id].auth
<1> DEFINE list == j.request
           Hidden(id) == /\ id \in DOMAIN mem \ j.clearPass
                         /\ list[id].auth = "Password" /\ mem[id].auth = "Password"
                         /\ list[id].pass = None /\ list[id].enc = None
<1>1. /\ DOMAIN kept = DOMAIN list
      /\ \A id \in DOMAIN list : kept[id] =
           IF Hidden(id) THEN [list[id] EXCEPT !.pass = mem[id].pass, !.enc = mem[id].enc]
                         ELSE list[id]
  BY DEF PreserveHiddenPasswords
<1>2. ASSUME NEW id \in DOMAIN list
      PROVE  PasswordOf(kept[id]) = MeantPassword(j, id) /\ kept[id].auth = list[id].auth
  <2>1. /\ list[id] \in Preset /\ list[id].enc = None
        /\ (list[id].auth = "Private Key" => list[id].pass = None)
    BY ListFacts DEF InTheOpen
  <2>2. list[id].auth \in {"Password", "Private Key"}
    BY <2>1, PresetFacts
  <2>3. CASE Hidden(id)
    <3>1. kept[id] = [list[id] EXCEPT !.pass = mem[id].pass, !.enc = mem[id].enc]
      BY <1>1, <2>3
    <3>2. /\ kept[id].pass = mem[id].pass /\ kept[id].enc = mem[id].enc
          /\ kept[id].auth = list[id].auth
      BY <2>1, <3>1 DEF Preset
    <3> QED
      BY <2>3, <3>2 DEF MeantPassword, PasswordOf
  <2>4. CASE ~Hidden(id)
    <3>1. kept[id] = list[id]
      BY <1>1, <2>4
    <3> QED
      BY <2>1, <2>2, <2>4, <3>1 DEF MeantPassword, PasswordOf
  <2> QED
    BY <2>3, <2>4
<1> QED
  BY <1>1, <1>2

---------------------------------------------------------------------------
(* A job begins                                                            *)

LEMMA JobParts ==
  ASSUME NEW kind, NEW current, NEW next, NEW request, NEW clearPass, NEW clearKey,
         NEW j, j = Job(kind, current, next, request, clearPass, clearKey)
  PROVE  /\ j.kind = kind /\ j.pc = "keys" /\ j.current = current
         /\ j.next = AdoptReferences(next) /\ j.doc = file /\ j.request = request
         /\ j.clearPass = clearPass /\ j.clearKey = clearKey
  BY DEF Job

\* Whatever begins it: the file has the keys it starts from.
LEMMA JobStartsKeys ==
  ASSUME KeysInv, job = None, NEW kind \in Kinds, NEW current \in Lists, NEW next \in Lists,
         NEW request, NEW clearPass, NEW clearKey,
         Same(file, current), Trusts(file, current),
         kind # "start" => server = "up" /\ current = mem,
         kind = "start" => server = "down",
         kind \in {"start", "get"} => /\ ~saveFailed => SameKeys(keyFiles, file, next)
                                      /\ SameFingerprints(next, current)
                                      /\ DOMAIN next = DOMAIN current,
         kind \in {"put", "fingerprint"} => \A id \in DOMAIN next \intersect DOMAIN file :
           (next[id].key = None /\ next[id].auth = "Private Key" /\ id \notin clearKey)
             => file[id].key = None,
         job' = Job(kind, current, next, request, clearPass, clearKey), job' # None,
         UNCHANGED <<file, keyFiles, server, mem, saveFailed>>
  PROVE  KeysFollow' /\ MemoryFollows'
<1> DEFINE adopted == AdoptReferences(next)
<1>1. /\ StoreTypeOK /\ Whole(file) /\ KeysFollow /\ MemoryFollows
  BY DEF KeysInv, IInv, KeysAreWhole
<1>2. /\ SameKeys(keyFiles, adopted, next) /\ SameFingerprints(adopted, next)
      /\ \A id \in DOMAIN next :
           /\ adopted[id].auth = next[id].auth
           /\ adopted[id].key = None <=> next[id].key = None
  BY <1>1, AdoptKeys
<1>4. /\ job'.kind = kind /\ job'.pc = "keys" /\ job'.current = current
      /\ job'.next = adopted /\ job'.doc = file /\ job'.clearKey = clearKey
  <2> DEFINE j == job'
  <2>1. j = Job(kind, current, next, request, clearPass, clearKey)
    OBVIOUS
  <2> HIDE DEF j, adopted
  <2>2. /\ j.kind = kind /\ j.pc = "keys" /\ j.current = current
        /\ j.next = AdoptReferences(next) /\ j.doc = file /\ j.clearKey = clearKey
    BY ONLY <2>1, JobParts
  <2> QED
    BY <2>2 DEF j, adopted
<1> HIDE DEF adopted
<1>5. ASSUME kind \in {"start", "get"}, ~saveFailed PROVE SameKeys(keyFiles, file, adopted)
  BY <1>2, <1>5, SameKeysIsAnEquivalence
<1>6. ASSUME kind \in {"put", "fingerprint"}, ~saveFailed
      PROVE  SameKeys(keyFiles, file, current) /\ Carries(keyFiles, file, job')
  <2>1. SameKeys(keyFiles, file, current)
    BY <1>1, <1>6 DEF KeysFollow
  <2>2. DOMAIN adopted = DOMAIN next
    BY <1>2 DEF SameKeys
  <2>3. ASSUME NEW id \in DOMAIN file \intersect DOMAIN adopted
        PROVE  Carried(keyFiles, file[id], current[id], adopted[id], id \in clearKey)
    BY <1>2, <1>6, <2>1, <2>2, <2>3 DEF Carried, SameKeys
  <2> QED
    BY <1>4, <2>1, <2>3 DEF Carries
<1>7. KeysFollow'
  <2>1. saveFailed' \in BOOLEAN /\ (server' = "down" => ~saveFailed')
    BY <1>1 DEF KeysFollow
  <2>2. ASSUME ~saveFailed', kind \in {"start", "get"}
        PROVE  SameKeys(keyFiles', file', job'.next) /\ SameKeys(keyFiles', job'.doc, job'.next)
    BY <1>4, <1>5, <2>2
  <2>3. ASSUME ~saveFailed', kind \in {"put", "fingerprint"}
        PROVE  /\ SameKeys(keyFiles', file', job'.current)
               /\ Carries(keyFiles', file', job') /\ Carries(keyFiles', job'.doc, job')
    BY <1>4, <1>6, <2>3
  <2> QED
    BY <1>4, <2>1, <2>2, <2>3 DEF KeysFollow
<1>8. MemoryFollows'
  <2>1. kind \in {"start", "get"} => SameFingerprints(adopted, current)
    BY <1>2 DEF SameFingerprints, SameKeys
  <2> QED
    BY <1>1, <1>4, <2>1 DEF MemoryFollows, SameFingerprints
<1> QED
  BY <1>7, <1>8

LEMMA JobIsSome ==
  ASSUME StoreTypeOK, Whole(file), NEW kind \in Kinds, NEW current \in Lists, NEW next \in Lists,
         NEW request \in Lists, NEW clearPass \in SUBSET PresetIDs, NEW clearKey \in SUBSET PresetIDs
  PROVE  Job(kind, current, next, request, clearPass, clearKey) # None
<1> DEFINE adopted == AdoptReferences(next)
<1>1. adopted \in Lists
  BY AdoptReferencesFacts
<1>2. file \in Lists
  BY DEF StoreTypeOK
<1> HIDE DEF adopted
<1>3. [kind |-> kind, pc |-> "keys", current |-> current, next |-> adopted, doc |-> file,
       changed |-> adopted # next, writing |-> None,
       request |-> request, clearPass |-> clearPass, clearKey |-> clearKey] \in Jobs
  BY <1>1, <1>2 DEF Jobs, Optional
<1> QED
  BY <1>3, JobAssumption DEF Job, adopted

\* Kinds are different.
LEMMA KindFacts == /\ "start" \in Kinds /\ "put" \in Kinds /\ "fingerprint" \in Kinds
                   /\ "get" \in Kinds
  BY DEF Kinds

\* At the start both lists have the keys and the fingerprints of the file.
LEMMA StartKeepsKeys == ASSUME KeysInv, Start, IInv' PROVE KeysInv'
<1>1. PICK sealing \in {hasKey, TRUE} :
        job' = Job("start", Load, ApplyPresetSecrets(Load, sealing), NoPresets, {}, {})
  BY DEF Start
<1>2. /\ job = None /\ server = "down" /\ UNCHANGED <<file, keyFiles, server, mem, saveFailed>>
      /\ IInv /\ StoreTypeOK /\ Whole(file) /\ sealing \in BOOLEAN
  BY DEF Start, KeysInv, IInv, StoreTypeOK, KeysAreWhole
<1> DEFINE loaded == Load
           next == ApplyPresetSecrets(loaded, sealing)
<1>3. /\ loaded \in Lists /\ Same(file, loaded) /\ AllProper(loaded, hasKey)
      /\ SameKeys(keyFiles, file, loaded) /\ SameFingerprints(loaded, file)
  BY <1>2, LoadFacts, LoadKeys
<1> HIDE DEF loaded
<1>4. /\ next \in Lists /\ DOMAIN next = DOMAIN loaded
      /\ \A id \in DOMAIN loaded : next[id].key = loaded[id].key /\ next[id].fp = loaded[id].fp
  <2>1. hasKey => sealing
    OBVIOUS
  <2>2. hasKey \in BOOLEAN
    BY <1>2 DEF StoreTypeOK
  <2> QED
    BY <1>2, <1>3, <2>1, <2>2, ApplySecretsKeys, ApplyPresetSecretsFacts
<1> HIDE DEF next
<1>5. SameKeys(keyFiles, file, next) /\ SameFingerprints(next, loaded) /\ Trusts(file, loaded)
  BY <1>3, <1>4 DEF SameKeys, SameFingerprints, Trusts
<1>6. job' = Job("start", loaded, next, NoPresets, {}, {}) /\ job' # None
  BY <1>1, <1>2, <1>3, <1>4, NoPresetsFacts, KindFacts, JobIsSome DEF loaded, next
<1>7. KeysFollow' /\ MemoryFollows'
  BY <1>2, <1>3, <1>4, <1>5, <1>6, KindFacts, JobStartsKeys
<1>8. job'.kind = "start"
  BY <1>6, JobParts
<1> QED
  BY <1>7, <1>8 DEF KeysInv, SaveIsMeant, FingerprintIsSaved

\* The list that is shown is the one memory has.
LEMMA GetKeepsKeys == ASSUME KeysInv, GetList, IInv' PROVE KeysInv'
<1>1. /\ job = None /\ server = "up" /\ UNCHANGED <<file, keyFiles, server, mem, saveFailed>>
      /\ job' = Job("get", mem, mem, NoPresets, {}, {})
  BY DEF GetList, Locks
<1>2. /\ StoreTypeOK /\ Whole(file) /\ mem \in Lists /\ Same(file, mem) /\ Trusts(file, mem)
      /\ ~saveFailed => SameKeys(keyFiles, file, mem)
      /\ SameFingerprints(mem, mem)
  BY <1>1 DEF KeysInv, IInv, StoreTypeOK, KeysAreWhole, FileFollows, KeysFollow, MemoryFollows,
    SameFingerprints
<1>3. job' # None
  BY <1>1, <1>2, NoPresetsFacts, KindFacts, JobIsSome
<1>4. KeysFollow' /\ MemoryFollows'
  BY <1>1, <1>2, <1>3, KindFacts, JobStartsKeys
<1>5. job'.kind = "get"
  BY <1>1, JobParts
<1> QED
  BY <1>4, <1>5 DEF KeysInv, SaveIsMeant, FingerprintIsSaved

\* What the editor means is what the save carries: its lists are made from the request,
\* memory and the file by the rules MeantPassword and MeantKey state.
LEMMA PutKeepsKeys == ASSUME KeysInv, PutList, IInv' PROVE KeysInv'
<1>1. /\ job = None /\ server = "up" /\ UNCHANGED <<file, keyFiles, server, mem, saveFailed>>
  BY DEF PutList, Puts, Locks
<1> DEFINE Starts(request, clearPass, clearKey) ==
        job' = Job("put", mem,
                   ApplyPresetSecrets(
                     PreserveFromFile(
                       PreserveHiddenPasswords(request, clearPass), clearKey), hasKey),
                   request, clearPass, clearKey)
           Clearable(ids, request) == {id \in ids : request[id].auth = "Private Key"
                                                   /\ request[id].key = None}
<1>2. PICK ids \in SUBSET PresetIDs : \E request \in [ids -> RequestPreset] :
        \E clearPass \in SUBSET ids, clearKey \in SUBSET Clearable(ids, request) :
          Starts(request, clearPass, clearKey)
  <2>1. PICK ids \in SUBSET PresetIDs : \E request \in [ids -> RequestPreset] :
     \E clearPass \in SUBSET {id \in ids : request[id].auth = "Password"
                                           /\ request[id].pass = None},
        clearKey \in SUBSET Clearable(ids, request) :
       Starts(request, clearPass, clearKey)
    BY DEF PutList
  <2> HIDE DEF Starts, Clearable
  <2> QED
    BY <2>1
<1> HIDE DEF Starts
<1>a. PICK request \in [ids -> RequestPreset] :
        \E clearPass \in SUBSET ids, clearKey \in SUBSET Clearable(ids, request) :
          Starts(request, clearPass, clearKey)
  BY <1>2
<1>3. PICK clearPass \in SUBSET ids, clearKey \in SUBSET Clearable(ids, request) :
        Starts(request, clearPass, clearKey)
  BY <1>a
<1>4. /\ StoreTypeOK /\ PasswordsAreProper /\ hasKey \in BOOLEAN
      /\ mem \in Lists /\ Whole(file)
  BY DEF KeysInv, IInv, StoreTypeOK, KeysAreWhole
<1>b. /\ Same(file, mem) /\ Trusts(file, mem)
      /\ ~saveFailed => SameKeys(keyFiles, file, mem)
  BY <1>1 DEF KeysInv, IInv, StoreTypeOK, KeysAreWhole, FileFollows, KeysFollow, MemoryFollows
<1>5. request \in Lists /\ DOMAIN request = ids /\ Whole(request) /\ InTheOpen(request)
  <2>1. DOMAIN request = ids /\ request = [id \in ids |-> request[id]]
        /\ \A id \in ids : request[id] \in RequestPreset
    OBVIOUS
  <2> QED
    BY <2>1, RequestFacts, ListIntro DEF Whole, InTheOpen
<1>6. clearPass \in SUBSET PresetIDs /\ clearKey \in SUBSET PresetIDs
  OBVIOUS
<1>c. \A id \in clearKey : request[id].auth = "Private Key" /\ request[id].key = None
  OBVIOUS
<1> HIDE DEF Clearable
<1> DEFINE hidden == PreserveHiddenPasswords(request, clearPass)
           kept == PreserveFromFile(hidden, clearKey)
           next == ApplyPresetSecrets(kept, hasKey)
           j == job'
<1>7. /\ hidden \in Lists /\ DOMAIN hidden = ids /\ AllProper(hidden, hasKey)
      /\ \A id \in ids : hidden[id].key = request[id].key
  BY <1>4, <1>5, <1>6, PreserveHiddenPasswordsFacts
<1> HIDE DEF hidden
<1>8. Whole(hidden)
  BY <1>5, <1>7 DEF Whole
<1>9. /\ kept \in Lists /\ Same(kept, hidden) /\ AllProper(kept, hasKey)
  BY <1>4, <1>6, <1>7, <1>8, PreserveFromFileFacts
<1>d. FromFile(kept, hidden, clearKey)
  BY <1>4, <1>7, PreserveFromFileKeys
<1> HIDE DEF kept
<1>10. /\ next \in Lists /\ Same(next, kept)
       /\ \A id \in DOMAIN kept : next[id].key = kept[id].key
  BY <1>4, <1>9, ApplyPresetSecretsFacts
<1> HIDE DEF next
<1>11. j = Job("put", mem, next, request, clearPass, clearKey) /\ j # None
  BY <1>3, <1>4, <1>5, <1>6, <1>10, KindFacts, JobIsSome DEF Starts, hidden, kept, next
<1>12. ASSUME NEW id \in DOMAIN next \intersect DOMAIN file,
              next[id].key = None, next[id].auth = "Private Key", id \notin clearKey
       PROVE  file[id].key = None
  <2>1. id \in DOMAIN kept /\ id \in DOMAIN hidden /\ id \in DOMAIN file
    BY <1>9, <1>10, <1>12, Zenon DEF Same
  <2>2. /\ next[id].key = kept[id].key /\ next[id].auth = kept[id].auth
        /\ kept[id].auth = hidden[id].auth
    BY <1>9, <1>10, <2>1, Zenon DEF Same
  <2> QED
    BY <1>12, <1>d, <2>1, <2>2 DEF FromFile
<1> HIDE DEF j
<1>13. KeysFollow' /\ MemoryFollows'
  BY <1>1, <1>4, <1>b, <1>10, <1>11, <1>12, KindFacts, JobStartsKeys DEF KeysInv, j
<1>14. /\ j.kind = "put" /\ j.request = request /\ j.current = mem
       /\ j.clearPass = clearPass /\ j.clearKey = clearKey /\ j.next = AdoptReferences(next)
  BY ONLY <1>11, JobParts
<1> DEFINE adopted == AdoptReferences(next)
<1>15. /\ Same(adopted, next) /\ SameKeys(keyFiles, adopted, next)
  BY <1>4, <1>10, AdoptReferencesFacts, AdoptKeys
<1> HIDE DEF adopted
<1>16. ASSUME NEW id \in ids
       PROVE  /\ PasswordOf(hidden[id]) = MeantPassword(j, id)
              /\ hidden[id].auth = request[id].auth
  BY <1>4, <1>5, <1>14, HiddenPasswordsAreMeant DEF hidden
<1>17. ASSUME NEW id \in ids
       PROVE  PasswordOf(adopted[id]) = MeantPassword(j, id)
  BY <1>7, <1>9, <1>10, <1>15, <1>16 DEF Same
<1>18. ASSUME NEW id \in ids, ~saveFailed
       PROVE  Resolve(keyFiles, adopted[id].key) = MeantKey(keyFiles, j, id)
  <2>1. Resolve(keyFiles, adopted[id].key) = Resolve(keyFiles, kept[id].key)
    BY <1>7, <1>9, <1>10, <1>15 DEF Same, SameKeys
  <2>2. Resolve(keyFiles, None) = None
    BY PresetStoreAssumption DEF Resolve
  <2>3. CASE request[id].auth # "Private Key"
    BY <1>d, <1>14, <1>16, <2>1, <2>2, <2>3, <1>7 DEF MeantKey, FromFile
  <2>4. CASE request[id].auth = "Private Key" /\ request[id].key # None
    <3>1. id \notin clearKey /\ hidden[id].key = request[id].key
          /\ hidden[id].auth = "Private Key"
      BY <1>c, <1>7, <1>16, <2>4
    <3>2. kept[id].key = request[id].key
      BY <1>d, <1>7, <2>4, <3>1 DEF FromFile
    <3>3. MeantKey(keyFiles, j, id) = Resolve(keyFiles, request[id].key)
      BY <1>14, <2>4 DEF MeantKey
    <3> QED
      BY <2>1, <3>2, <3>3
  <2>5. CASE request[id].auth = "Private Key" /\ request[id].key = None
    <3>1. DOMAIN mem = DOMAIN file
          /\ \A i \in DOMAIN file : Resolve(keyFiles, file[i].key) = Resolve(keyFiles, mem[i].key)
      BY <1>b, <1>18 DEF SameKeys
    <3>2. kept[id].key = IF id \notin clearKey /\ id \in DOMAIN file THEN file[id].key ELSE None
      BY <1>d, <1>7, <1>16, <2>5 DEF FromFile
    <3>3. MeantKey(keyFiles, j, id) = IF id \in DOMAIN mem /\ id \notin clearKey
                                     THEN Resolve(keyFiles, mem[id].key) ELSE None
      BY <1>14, <2>5 DEF MeantKey
    <3> QED
      BY <2>1, <2>2, <3>1, <3>2, <3>3
  <2> QED
    BY <2>3, <2>4, <2>5
<1>19. SaveIsMeant'
  <2>1. j.next = adopted /\ DOMAIN adopted = ids /\ j.request = request
    BY <1>7, <1>9, <1>10, <1>14, <1>15 DEF Same, adopted
  <2>2. Whole(job.request)'
    BY <1>1, <1>5, <2>1 DEF Whole, j
  <2> QED
    BY <1>1, <1>5, <1>17, <1>18, <2>1, <2>2 DEF SaveIsMeant, j
<1>20. FingerprintIsSaved'
  BY <1>14 DEF FingerprintIsSaved, j
<1> QED
  BY <1>13, <1>19, <1>20 DEF KeysInv

\* With another fingerprint an entry has the keys it had, and only that one another
\* fingerprint.
AsBefore(saved, list, id) == \A i \in DOMAIN list :
  /\ saved[i].key = list[i].key /\ saved[i].auth = list[i].auth
  /\ i # id => saved[i].fp = list[i].fp

LEMMA WithFingerprintKeys ==
  ASSUME NEW list \in Lists, NEW id, NEW fp,
         NEW saved, saved = WithFingerprint(list, id, fp)
  PROVE  DOMAIN saved = DOMAIN list /\ AsBefore(saved, list, id)
<1>1. /\ DOMAIN saved = DOMAIN list
      /\ \A i \in DOMAIN list :
           saved[i] = IF i = id THEN [list[i] EXCEPT !.fp = fp] ELSE list[i]
  BY DEF WithFingerprint
<1>2. \A i \in DOMAIN list : list[i] \in Preset
  BY ListFacts
<1> QED
  BY <1>1, <1>2 DEF Preset, AsBefore

\* A fingerprint is saved with the list memory has: no key is to be moved, and what the
\* file still knows of another host is all that can change besides.
LEMMA FingerprintKeepsKeys == ASSUME KeysInv, SaveFingerprint, IInv' PROVE KeysInv'
<1>1. /\ job = None /\ server = "up" /\ dialled # None
      /\ UNCHANGED <<file, keyFiles, server, mem, hasKey, saveFailed>>
  BY DEF SaveFingerprint, Puts, Locks
<1>2. /\ StoreTypeOK /\ hasKey \in BOOLEAN /\ mem \in Lists /\ AllProper(mem, hasKey)
      /\ Whole(file) /\ Whole(mem) /\ dialled \in [id: PresetIDs, fp: Hosts]
  BY <1>1 DEF KeysInv, IInv, StoreTypeOK, PasswordsAreProper, KeysAreWhole, Optional
<1>3. /\ Same(file, mem) /\ Trusts(file, mem) /\ AllMoved(mem)
      /\ ~saveFailed => SameKeys(keyFiles, file, mem)
  BY <1>1 DEF KeysInv, IInv, FileFollows, KeysFollow, MemoryFollows
<1> DEFINE saved == WithFingerprint(mem, dialled.id, dialled.fp)
<1>4. CASE saved = mem
  <2>1. job' = None
    BY <1>4 DEF SaveFingerprint
  <2>2. KeysFollow' /\ MemoryFollows'
    BY <1>1, <2>1 DEF KeysInv, KeysFollow, SameKeys, MemoryFollows, AllMoved, Trusts
  <2> QED
    BY <2>1, <2>2 DEF KeysInv, SaveIsMeant, FingerprintIsSaved
<1>5. CASE saved # mem
  <2> DEFINE kept == PreserveFromFile(saved, {})
             next == ApplyPresetSecrets(kept, hasKey)
             request == [id \in {dialled.id} |-> saved[id]]
             j == job'
  <2>1. j = Job("fingerprint", mem, next, request, {}, {})
    BY <1>5 DEF SaveFingerprint
  <2>2. dialled.fp \in Hosts /\ dialled.id \in PresetIDs
    BY <1>2
  <2>3. /\ saved \in Lists /\ Same(saved, mem) /\ AllProper(saved, hasKey)
        /\ dialled.id \in DOMAIN mem
    BY <1>2, <1>5, <2>2, WithFingerprintFacts
  <2>4. /\ DOMAIN saved = DOMAIN mem
        /\ AsBefore(saved, mem, dialled.id)
    BY <1>2, WithFingerprintKeys
  <2> HIDE DEF saved
  <2>5. request \in Lists /\ DOMAIN request = {dialled.id}
    <3>1. DOMAIN request = {dialled.id} /\ request = [id \in DOMAIN request |-> request[id]]
          /\ \A id \in DOMAIN request : request[id] = saved[id]
      OBVIOUS
    <3> HIDE DEF request
    <3> QED
      BY <2>2, <2>3, <2>4, <3>1, ListFacts, ListIntro
  <2> HIDE DEF request
  <2>6. Whole(saved) /\ {} \in SUBSET PresetIDs
    BY <1>2, <2>4 DEF Whole, AsBefore
  <2>7. /\ kept \in Lists /\ Same(kept, saved) /\ AllProper(kept, hasKey)
    BY <1>2, <2>3, <2>6, PreserveFromFileFacts
  <2>8. FromFile(kept, saved, {})
    BY <1>2, <2>3, PreserveFromFileKeys
  <2> HIDE DEF kept
  <2>9. next \in Lists /\ Same(next, kept)
    BY <1>2, <2>7, ApplyPresetSecretsFacts
  <2>10. /\ DOMAIN next = DOMAIN kept
         /\ \A i \in DOMAIN kept : next[i].key = kept[i].key /\ next[i].fp = kept[i].fp
    BY <1>2, <2>7, ApplySecretsKeys
  <2> HIDE DEF next, j
  <2>11. Same(next, mem)
    BY <2>3, <2>7, <2>9, SameIsAnEquivalence
  <2>12. DOMAIN next = DOMAIN mem /\ DOMAIN file = DOMAIN mem
    BY <1>3, <2>11 DEF Same
  <2>13. ASSUME NEW i \in DOMAIN mem
         PROVE  /\ next[i].auth = mem[i].auth
                /\ next[i].auth = "Private Key" =>
                     next[i].key = IF mem[i].key = None THEN file[i].key ELSE mem[i].key
                /\ i # dialled.id => KnownFingerprint(file[i], mem[i], next[i])
    <3>1. next[i].auth = mem[i].auth
      BY <2>11, <2>12 DEF Same
    <3>2. next[i].key = kept[i].key /\ next[i].fp = kept[i].fp
      BY <2>10, <2>12
    <3> QED
      BY <2>4, <2>8, <2>12, <3>1, <3>2 DEF FromFile, AsBefore, KnownFingerprint
  <2>14. ASSUME NEW i \in DOMAIN next \intersect DOMAIN file,
                next[i].key = None, next[i].auth = "Private Key", i \notin {}
         PROVE  file[i].key = None
    BY <2>12, <2>13, <2>14
  <2>15. j # None
    BY <1>2, <2>1, <2>5, <2>6, <2>9, KindFacts, JobIsSome
  <2>16. KeysFollow' /\ MemoryFollows'
    BY <1>1, <1>2, <1>3, <2>1, <2>9, <2>14, <2>15, KindFacts, JobStartsKeys DEF j
  <2>17. /\ j.kind = "fingerprint" /\ j.pc = "keys" /\ j.request = request /\ j.current = mem
         /\ j.doc = file /\ j.next = AdoptReferences(next)
    BY ONLY <2>1, JobParts
  <2> DEFINE adopted == AdoptReferences(next)
  <2>18. /\ Same(adopted, next) /\ SameKeys(keyFiles, adopted, next)
         /\ SameFingerprints(adopted, next)
         /\ AllMoved(next) => adopted = next
    BY <1>2, <2>9, AdoptReferencesFacts, AdoptKeys
  <2> HIDE DEF adopted
  <2>19. Same(adopted, mem)
    BY <2>11, <2>18, SameIsAnEquivalence
  <2>20. ASSUME NEW i \in DOMAIN mem, i # dialled.id
         PROVE  KnownFingerprint(file[i], mem[i], adopted[i])
    BY <2>12, <2>13, <2>18, <2>20 DEF SameFingerprints, KnownFingerprint
  <2>21. ASSUME ~saveFailed, NEW i \in DOMAIN mem
         PROVE  Untouched(keyFiles, mem[i], next[i])
    <3>1. SameKeys(keyFiles, file, mem)
      BY <1>3, <2>21
    <3>2. mem[i].key = None => file[i].key = None
      BY <1>2, <2>12, <3>1, PresetStoreAssumption, NoKeyIsNone DEF SameKeys, Resolve
    <3>3. next[i].auth = "Private Key" => next[i].key = mem[i].key
      BY <2>13, <3>2
    <3> QED
      BY <1>3, <2>13, <3>3 DEF Untouched, NeedsKeyFile, AllMoved
  <2>22. ASSUME ~saveFailed PROVE adopted = next
    BY <2>12, <2>18, <2>21, <2>22 DEF AllMoved, Untouched
  <2>23. FingerprintIsSaved'
    <3>1. DOMAIN adopted = DOMAIN mem
      BY <2>19 DEF Same
    <3> QED
      BY <1>1, <2>5, <2>17, <2>19, <2>20, <2>21, <2>22, <3>1 DEF FingerprintIsSaved, j, adopted
  <2> QED
    BY <2>16, <2>17, <2>23 DEF KeysInv, SaveIsMeant, j
<1> QED
  BY <1>4, <1>5

---------------------------------------------------------------------------
(* The steps of a job                                                      *)

LEMMA DialKeepsKeys == ASSUME KeysInv, Dial, IInv' PROVE KeysInv'
<1>1. UNCHANGED <<file, keyFiles, server, mem, job, saveFailed>>
  BY DEF Dial
<1> QED
  BY <1>1 DEF KeysInv, KeysFollow, SaveIsMeant, Whole, MemoryFollows, FingerprintIsSaved

\* What is carried stays so while key files are written ...
LEMMA CarriesStay ==
  ASSUME NEW files, Settled(files), NEW list, Whole(list),
         NEW j, Whole(j.current), DOMAIN list = DOMAIN j.current, Carries(keyFiles, list, j)
  PROVE  Carries(files, list, j)
<1>1. ASSUME NEW id \in DOMAIN list
      PROVE  /\ Resolve(files, list[id].key) = Resolve(keyFiles, list[id].key)
             /\ Resolve(files, j.current[id].key) = Resolve(keyFiles, j.current[id].key)
  BY KeysStay
<1> QED
  BY <1>1 DEF Carries, Carried

\* ... and so does what is meant.
LEMMA MeantStays ==
  ASSUME NEW files, Settled(files), NEW j, Whole(j.request), Whole(j.current),
         NEW id \in DOMAIN j.request
  PROVE  MeantKey(files, j, id) = MeantKey(keyFiles, j, id)
<1>1. /\ Resolve(files, j.request[id].key) = Resolve(keyFiles, j.request[id].key)
      /\ id \in DOMAIN j.current =>
           Resolve(files, j.current[id].key) = Resolve(keyFiles, j.current[id].key)
  BY KeysStay
<1> QED
  BY <1>1 DEF MeantKey

\* A job and its lists, in a directory where another key file is begun or filled.
LEMMA KeysAge ==
  ASSUME KeysInv, job # None, job.pc \in {"keys", "keyfile"}, NEW files, Settled(files)
  PROVE  /\ ~saveFailed /\ job.kind \in {"start", "get"} =>
              SameKeys(files, file, job.next) /\ SameKeys(files, job.doc, job.next)
         /\ ~saveFailed /\ job.kind \in {"put", "fingerprint"} =>
              /\ SameKeys(files, file, job.current)
              /\ Carries(files, file, job) /\ Carries(files, job.doc, job)
         /\ job.kind = "put" =>
              \A id \in DOMAIN job.request :
                /\ PasswordOf(job.next[id]) = MeantPassword(job, id)
                /\ ~saveFailed => Resolve(files, job.next[id].key) = MeantKey(files, job, id)
<1>1. /\ Whole(file) /\ Whole(mem) /\ Whole(job.next) /\ Whole(job.doc)
      /\ Same(file, job.current) /\ Same(job.doc, job.current)
      /\ job.kind # "start" => Whole(job.current)
  BY DEF KeysInv, IInv, KeysAreWhole, FileFollows
<1>2. ASSUME ~saveFailed, job.kind \in {"start", "get"}
      PROVE  SameKeys(files, file, job.next) /\ SameKeys(files, job.doc, job.next)
  BY <1>1, <1>2, SameKeysStay DEF KeysInv, KeysFollow
<1>3. ASSUME ~saveFailed, job.kind \in {"put", "fingerprint"}
      PROVE  /\ SameKeys(files, file, job.current)
             /\ Carries(files, file, job) /\ Carries(files, job.doc, job)
  <2>1. /\ SameKeys(keyFiles, file, job.current)
        /\ Carries(keyFiles, file, job) /\ Carries(keyFiles, job.doc, job)
    BY <1>3 DEF KeysInv, KeysFollow
  <2>2. Whole(job.current) /\ DOMAIN file = DOMAIN job.current /\ DOMAIN job.doc = DOMAIN job.current
    BY <1>1, <1>3 DEF Same
  <2> QED
    BY <1>1, <2>1, <2>2, SameKeysStay, CarriesStay
<1>4. ASSUME job.kind = "put", NEW id \in DOMAIN job.request
      PROVE  /\ PasswordOf(job.next[id]) = MeantPassword(job, id)
             /\ ~saveFailed => Resolve(files, job.next[id].key) = MeantKey(files, job, id)
  <2>1. /\ Whole(job.request) /\ Whole(job.current) /\ DOMAIN job.next = DOMAIN job.request
        /\ PasswordOf(job.next[id]) = MeantPassword(job, id)
        /\ ~saveFailed => Resolve(keyFiles, job.next[id].key) = MeantKey(keyFiles, job, id)
    BY <1>1, <1>4 DEF KeysInv, SaveIsMeant
  <2>2. MeantKey(files, job, id) = MeantKey(keyFiles, job, id)
    BY <2>1, MeantStays
  <2>3. Resolve(files, job.next[id].key) = Resolve(keyFiles, job.next[id].key)
    BY <1>1, <2>1, KeysStay
  <2> QED
    BY <2>1, <2>2, <2>3
<1> QED
  BY <1>2, <1>3, <1>4

\* The fields of a job that a step leaves alone.
Unchanging(j, i) == /\ j.kind = i.kind /\ j.current = i.current /\ j.request = i.request
                    /\ j.clearPass = i.clearPass /\ j.clearKey = i.clearKey

LEMMA MeantUnchanged ==
  ASSUME NEW j, NEW i, Unchanging(j, i), NEW id, NEW files
  PROVE  /\ MeantPassword(j, id) = MeantPassword(i, id)
         /\ MeantKey(files, j, id) = MeantKey(files, i, id)
  BY DEF Unchanging, MeantPassword, MeantKey

\* A new key file changes none there was.
LEMMA CreateKeepsKeys == ASSUME KeysInv, CreateKeyFile, IInv' PROVE KeysInv'
<1>1. PICK id \in DOMAIN job.next, path \in KeyPaths :
        /\ NeedsKeyFile(job.next[id]) /\ FreePath(path)
        /\ keyFiles' = [keyFiles EXCEPT ![path] = Partial]
        /\ job' = [job EXCEPT !.pc = "keyfile", !.writing = [id |-> id, path |-> path]]
  BY DEF CreateKeyFile
<1>2. /\ job # None /\ job.pc = "keys" /\ UNCHANGED <<file, server, mem, saveFailed>>
      /\ StoreTypeOK /\ job \in Jobs /\ KeysFollow /\ SaveIsMeant /\ MemoryFollows
      /\ FingerprintIsSaved
  BY DEF CreateKeyFile, KeysInv, IInv, StoreTypeOK, Optional
<1>3. /\ job'.pc = "keyfile" /\ job'.next = job.next /\ job'.doc = job.doc
      /\ Unchanging(job', job) /\ job' # None
  <2>1. /\ job'.pc = "keyfile" /\ job'.next = job.next /\ job'.doc = job.doc
        /\ Unchanging(job', job)
    BY <1>1, <1>2 DEF Jobs, Unchanging
  <2>2. job' # None
    <3>1. [id |-> id, path |-> path] \in [id: PresetIDs, path: KeyPaths]
      BY <1>2, JobFields, ListFacts
    <3>2. job' \in Jobs
      BY <1>1, <1>2, <3>1 DEF Jobs, Optional
    <3> QED
      BY <3>2, JobAssumption
  <2> QED
    BY <2>1, <2>2
<1>4. Settled(keyFiles')
  BY <1>1, <1>2, PresetStoreAssumption DEF StoreTypeOK, FreePath, Settled
<1>5. KeysFollow'
  <2>1. ASSUME ~saveFailed, job.kind \in {"start", "get"}
        PROVE  SameKeys(keyFiles', file, job.next) /\ SameKeys(keyFiles', job.doc, job.next)
    BY <1>2, <1>4, <2>1, KeysAge
  <2>2. ASSUME ~saveFailed, job.kind \in {"put", "fingerprint"}
        PROVE  /\ SameKeys(keyFiles', file, job'.current)
               /\ Carries(keyFiles', file, job') /\ Carries(keyFiles', job.doc, job')
    <3>1. /\ SameKeys(keyFiles', file, job.current)
          /\ Carries(keyFiles', file, job) /\ Carries(keyFiles', job.doc, job)
      BY <1>2, <1>4, <2>2, KeysAge
    <3> QED
      BY <1>3, <3>1 DEF Carries, Unchanging
  <2> QED
    BY <1>2, <1>3, <2>1, <2>2 DEF KeysFollow, Unchanging
<1>6. SaveIsMeant'
  <2>1. ASSUME job.kind = "put", NEW i \in DOMAIN job.request
        PROVE  /\ PasswordOf(job.next[i]) = MeantPassword(job', i)
               /\ ~saveFailed => Resolve(keyFiles', job.next[i].key) = MeantKey(keyFiles', job', i)
    BY <1>2, <1>3, <1>4, <2>1, KeysAge, MeantUnchanged
  <2>2. job.kind = "put" => Whole(job.request)'
    BY <1>2, <1>3, <1>4 DEF SaveIsMeant, Whole, Settled, Unchanging
  <2> QED
    BY <1>2, <1>3, <2>1, <2>2 DEF SaveIsMeant, Unchanging
<1>7. MemoryFollows'
  BY <1>2, <1>3 DEF MemoryFollows, Unchanging
<1>8. FingerprintIsSaved'
  <2>1. job.kind = "fingerprint" => saveFailed
    BY <1>1, <1>2 DEF FingerprintIsSaved, Untouched
  <2> QED
    BY <1>2, <1>3, <2>1 DEF FingerprintIsSaved, Unchanging
<1> QED
  BY <1>5, <1>6, <1>7, <1>8 DEF KeysInv

\* A reference changes no fingerprint.
LEMMA ReferringFingerprints ==
  ASSUME NEW list \in Lists, NEW id, NEW path,
         NEW referring, referring = Referring(list, id, path)
  PROVE  SameFingerprints(referring, list)
<1>1. \A i \in DOMAIN list :
        /\ list[i] \in Preset
        /\ referring[i] = IF i = id THEN [list[i] EXCEPT !.key = path] ELSE list[i]
  BY ListFacts DEF Referring
<1>2. ASSUME NEW i \in DOMAIN list PROVE referring[i].fp = list[i].fp
  <2>1. CASE i = id
    <3>1. list[i] \in Preset /\ referring[i] = [list[i] EXCEPT !.key = path]
      BY <1>1, <2>1
    <3> QED
      BY <3>1, WithKey
  <2> QED
    BY <1>1, <2>1
<1> QED
  BY <1>2 DEF SameFingerprints

\* The file that is filled was nobody's, and its reference is worth the text it replaces.
LEMMA FillKeepsKeys == ASSUME KeysInv, FillKeyFile, IInv' PROVE KeysInv'
<1> DEFINE id == job.writing.id
           path == job.writing.path
           files == keyFiles'
           j == job'
<1>1. /\ job # None /\ job.pc = "keyfile" /\ UNCHANGED <<file, server, mem, hasKey, saveFailed>>
      /\ keyFiles' = [keyFiles EXCEPT ![path] = WrittenText(id)]
      /\ job' = [job EXCEPT !.pc = "keys", !.writing = None, !.changed = TRUE,
                            !.next[id].key = path, !.doc = Referring(job.doc, id, path)]
  BY DEF FillKeyFile
<1>2. /\ StoreTypeOK /\ job \in Jobs /\ KeysAreWhole /\ FileFollows /\ KeysFollow /\ SaveIsMeant
      /\ MemoryFollows /\ FingerprintIsSaved
  BY <1>1 DEF KeysInv, IInv, StoreTypeOK, Optional
<1>3. /\ id \in DOMAIN job.next /\ path \in KeyPaths /\ keyFiles[path] = Partial
      /\ WrittenText(id) = job.next[id].key /\ job.next[id].key \in KeyTexts
      /\ NeedsKeyFile(job.next[id])
  <2>1. NeedsKeyFile(job.next[id])
    BY <1>1, <1>2 DEF KeysAreWhole
  <2>2. job.next[id].key \in KeyTexts
    BY <2>1 DEF NeedsKeyFile
  <2> QED
    BY <1>1, <1>2, <2>1, <2>2 DEF KeysAreWhole, WrittenText
<1> HIDE DEF id, path
<1>4. /\ job.next \in Lists /\ job.doc \in Lists /\ Same(file, job.current)
      /\ Same(job.doc, job.current)
  BY <1>1, <1>2, JobFields DEF FileFollows
<1>5. /\ j.pc = "keys" /\ Unchanging(j, job) /\ j # None
      /\ j.doc = Referring(job.doc, id, path) /\ j.next = Referring(job.next, id, path)
  <2>1. /\ j.pc = "keys" /\ Unchanging(j, job) /\ j.doc = Referring(job.doc, id, path)
        /\ j.next = [job.next EXCEPT ![id].key = path]
    BY <1>1, <1>2 DEF Jobs, Unchanging
  <2>2. j.next = Referring(job.next, id, path)
    <3>1. job.next = [i \in DOMAIN job.next |-> job.next[i]]
      BY <1>4, ListFacts
    <3> QED
      BY <1>3, <2>1, <3>1 DEF Referring
  <2>3. j.next \in Lists /\ j.doc \in Lists
    BY <1>3, <1>4, <2>1, <2>2, ReferringFacts
  <2>4. j = [job EXCEPT !.pc = "keys", !.writing = None, !.changed = TRUE,
                        !.next = j.next, !.doc = j.doc]
    BY <1>1, <1>2, <2>1 DEF Jobs
  <2>5. j \in Jobs
    BY <1>2, <2>3, <2>4 DEF Jobs, Optional
  <2> QED
    BY <2>1, <2>2, <2>5, JobAssumption
<1> HIDE DEF j
<1>6. /\ Same(j.next, job.next) /\ SameFingerprints(j.next, job.next)
      /\ \A i \in DOMAIN job.next : j.next[i].key = (IF i = id THEN path ELSE job.next[i].key)
  BY <1>3, <1>4, <1>5, ReferringFacts, ReferringFingerprints
<1>7. /\ Same(j.doc, job.doc) /\ SameFingerprints(j.doc, job.doc)
      /\ \A i \in DOMAIN job.doc : j.doc[i].key = (IF i = id THEN path ELSE job.doc[i].key)
  BY <1>3, <1>4, <1>5, ReferringFacts, ReferringFingerprints
<1>8. Settled(files) /\ files[path] = job.next[id].key
  <2>1. keyFiles \in [KeyPaths -> KeyTexts \union {None, Partial}] /\ Partial \notin KeyTexts
    BY <1>2, PresetStoreAssumption DEF StoreTypeOK
  <2>2. files = [keyFiles EXCEPT ![path] = job.next[id].key]
    BY <1>1, <1>3
  <2> HIDE DEF files
  <2> QED
    BY <1>3, <2>1, <2>2 DEF Settled
<1> HIDE DEF files
<1>9. SameKeys(files, j.next, job.next)
  <2>1. Resolve(files, path) = Resolve(files, job.next[id].key)
    <3>1. job.next[id].key \notin KeyPaths
      BY <1>3, PresetStoreAssumption
    <3> QED
      BY <1>3, <1>8, <3>1 DEF Resolve
  <2> QED
    BY <1>6, <2>1 DEF SameKeys, Same
<1>10. ASSUME ~saveFailed, job.kind \in {"start", "get"}
       PROVE  SameKeys(files, file, j.next) /\ SameKeys(files, j.doc, j.next)
  <2>1. SameKeys(files, file, job.next) /\ SameKeys(files, job.doc, job.next)
    BY <1>1, <1>8, <1>10, KeysAge
  <2>2. SameKeys(files, j.doc, j.next)
    BY <1>6, <1>7, <2>1 DEF SameKeys, Same
  <2> QED
    BY <1>9, <2>1, <2>2, SameKeysIsAnEquivalence
<1>11. ASSUME ~saveFailed, job.kind \in {"put", "fingerprint"}
       PROVE  /\ SameKeys(files, file, j.current)
              /\ Carries(files, file, j) /\ Carries(files, j.doc, j)
  <2>1. /\ SameKeys(files, file, job.current)
        /\ Carries(files, file, job) /\ Carries(files, job.doc, job)
    BY <1>1, <1>8, <1>11, KeysAge
  <2>2. /\ DOMAIN file = DOMAIN job.current /\ DOMAIN j.doc = DOMAIN job.current
        /\ DOMAIN job.doc = DOMAIN job.current /\ DOMAIN j.next = DOMAIN job.next
        /\ path # None
    BY <1>3, <1>4, <1>6, <1>7, PresetStoreAssumption DEF Same
  <2>3. ASSUME NEW i \in DOMAIN file \intersect DOMAIN j.next
        PROVE  Carried(files, file[i], job.current[i], j.next[i], i \in job.clearKey)
    <3>1. Carried(files, file[i], job.current[i], job.next[i], i \in job.clearKey)
      BY <2>1, <2>2 DEF Carries
    <3>2. Resolve(files, file[i].key) = Resolve(files, job.current[i].key)
      BY <2>1 DEF SameKeys
    <3>3. j.next[i].auth = job.next[i].auth
          /\ j.next[i].key = (IF i = id THEN path ELSE job.next[i].key)
      BY <1>6, <2>2 DEF Same
    <3>4. j.next[i].key = None => job.next[i].key = None
      BY <2>2, <3>3
    <3> QED
      BY ONLY <3>1, <3>2, <3>3, <3>4 DEF Carried
  <2>4. ASSUME NEW i \in DOMAIN j.doc \intersect DOMAIN j.next
        PROVE  Carried(files, j.doc[i], job.current[i], j.next[i], i \in job.clearKey)
    <3>1. Carried(files, job.doc[i], job.current[i], job.next[i], i \in job.clearKey)
      BY <2>1, <2>2 DEF Carries
    <3>2. /\ j.next[i].auth = job.next[i].auth
          /\ j.next[i].key = (IF i = id THEN path ELSE job.next[i].key)
          /\ j.doc[i].key = (IF i = id THEN path ELSE job.doc[i].key)
      BY <1>6, <1>7, <2>2 DEF Same
    <3>3. CASE i = id
      <4>1. j.doc[i].key = j.next[i].key /\ j.next[i].key # None
        BY <2>2, <3>2, <3>3
      <4> QED
        BY ONLY <4>1 DEF Carried
    <3>4. CASE i # id
      <4>1. j.doc[i].key = job.doc[i].key /\ j.next[i].key = job.next[i].key
            /\ j.next[i].auth = job.next[i].auth
        BY <3>2, <3>4
      <4> QED
        BY ONLY <3>1, <4>1 DEF Carried
    <3> QED
      BY <3>3, <3>4
  <2> QED
    BY <1>5, <2>1, <2>3, <2>4 DEF Carries, Unchanging
<1>12. KeysFollow'
  BY <1>1, <1>2, <1>5, <1>10, <1>11 DEF KeysFollow, Unchanging, files, j
<1>13. SaveIsMeant'
  <2>1. ASSUME job.kind = "put", NEW i \in DOMAIN job.request
        PROVE  /\ PasswordOf(j.next[i]) = MeantPassword(j, i)
               /\ ~saveFailed => Resolve(files, j.next[i].key) = MeantKey(files, j, i)
    <3>1. /\ PasswordOf(job.next[i]) = MeantPassword(job, i)
          /\ ~saveFailed => Resolve(files, job.next[i].key) = MeantKey(files, job, i)
      BY <1>1, <1>8, <2>1, KeysAge
    <3>2. i \in DOMAIN job.next
      BY <1>1, <1>2, <2>1 DEF SaveIsMeant
    <3>3. PasswordOf(j.next[i]) = PasswordOf(job.next[i])
      BY <1>6, <3>2 DEF Same
    <3>4. Resolve(files, j.next[i].key) = Resolve(files, job.next[i].key)
      BY <1>6, <1>9, <3>2 DEF SameKeys, Same
    <3> QED
      BY <1>5, <3>1, <3>3, <3>4, MeantUnchanged
  <2>2. job.kind = "put" => Whole(job.request)'
    BY <1>1, <1>2, <1>5, <1>8 DEF SaveIsMeant, Whole, Settled, Unchanging, files, j
  <2>3. job.kind = "put" => DOMAIN j.next = DOMAIN job.request
    BY <1>1, <1>2, <1>6 DEF SaveIsMeant, Same
  <2> QED
    BY <1>1, <1>5, <2>1, <2>2, <2>3 DEF SaveIsMeant, Unchanging, files, j
<1>14. MemoryFollows'
  <2>1. SameFingerprints(j.doc, file)
    BY <1>1, <1>2, <1>4, <1>7 DEF MemoryFollows, SameFingerprints, Same
  <2>2. job.kind \in {"start", "get"} => SameFingerprints(j.next, job.current)
    <3>1. job.kind \in {"start", "get"} => DOMAIN job.current = DOMAIN job.next
      BY <1>1, <1>2 DEF FileFollows, Same
    <3> QED
      BY <1>1, <1>2, <1>6, <3>1 DEF MemoryFollows, SameFingerprints
  <2> QED
    BY <1>1, <1>2, <1>5, <2>1, <2>2 DEF MemoryFollows, Unchanging, j
<1>15. FingerprintIsSaved'
  <2>1. job.kind = "fingerprint" => /\ saveFailed /\ Same(job.next, job.current)
                                    /\ DOMAIN j.next = DOMAIN job.next
    BY <1>1, <1>2, <1>6 DEF FingerprintIsSaved, Same
  <2>2. job.kind = "fingerprint" => Same(j.next, job.current)
    BY <1>6, <2>1, SameIsAnEquivalence
  <2>3. ASSUME job.kind = "fingerprint", NEW i \in DOMAIN j.next, i \notin DOMAIN job.request
        PROVE  KnownFingerprint(file[i], job.current[i], j.next[i])
    BY <1>1, <1>2, <1>6, <2>1, <2>3 DEF FingerprintIsSaved, KnownFingerprint, SameFingerprints
  <2>4. job.kind = "fingerprint" => \A i, other \in DOMAIN job.request : i = other
    BY <1>1, <1>2 DEF FingerprintIsSaved
  <2> QED
    BY <1>1, <1>5, <2>1, <2>2, <2>3, <2>4 DEF FingerprintIsSaved, Unchanging, j
<1> QED
  BY <1>12, <1>13, <1>14, <1>15 DEF KeysInv

\* The references are written: nothing but the way the keys are written changes.
LEMMA WriteReferencesKeepsKeys == ASSUME KeysInv, WriteReferences, IInv' PROVE KeysInv'
<1> DEFINE j == job'
           written == file'
<1>1. /\ job # None /\ job.pc = "keys" /\ UNCHANGED <<keyFiles, server, mem, hasKey, saveFailed>>
      /\ written \in {job.doc, file} /\ AllMoved(job.next)
      /\ job' = [job EXCEPT !.pc = IF job.kind = "get" THEN "publish" ELSE "replace"]
  BY DEF WriteReferences, AllMoved
<1>2. /\ StoreTypeOK /\ job \in Jobs /\ FileFollows /\ KeysFollow /\ SaveIsMeant
      /\ MemoryFollows /\ FingerprintIsSaved
  BY <1>1 DEF KeysInv, IInv, StoreTypeOK, Optional
<1>3. /\ Unchanging(j, job) /\ j.next = job.next /\ j.doc = job.doc /\ j # None
      /\ j.pc = IF job.kind = "get" THEN "publish" ELSE "replace"
  BY <1>1, <1>2, JobAssumption DEF Jobs, Unchanging
<1> HIDE DEF j, written
<1>4. Same(file, job.current) /\ Same(job.doc, job.current)
  BY <1>1, <1>2 DEF FileFollows
<1>5. job.kind \in Kinds
  BY <1>2, JobFields
<1>6. KeysFollow'
  <2>1. ASSUME ~saveFailed, job.kind \in {"start", "get"} PROVE SameKeys(keyFiles, written, job.next)
    BY <1>1, <1>2, <2>1 DEF KeysFollow
  <2>2. ASSUME ~saveFailed, job.kind \in {"start", "get"} PROVE SameKeys(keyFiles, job.doc, job.next)
    BY <1>1, <1>2, <2>2 DEF KeysFollow
  <2>3. ASSUME ~saveFailed, job.kind \in {"put", "fingerprint"} PROVE Carries(keyFiles, written, j)
    BY <1>1, <1>2, <1>3, <2>3 DEF KeysFollow, Carries, Unchanging
  <2> QED
    BY <1>1, <1>2, <1>3, <2>1, <2>2, <2>3 DEF KeysFollow, Unchanging, j, written
<1>7. SaveIsMeant'
  <2>1. ASSUME NEW i
        PROVE  MeantPassword(j, i) = MeantPassword(job, i)
               /\ MeantKey(keyFiles, j, i) = MeantKey(keyFiles, job, i)
    BY <1>3, MeantUnchanged
  <2> QED
    BY <1>1, <1>2, <1>3, <2>1 DEF SaveIsMeant, Whole, Unchanging, j
<1>8. SameFingerprints(written, file) /\ SameFingerprints(job.doc, file)
  BY <1>1, <1>2 DEF MemoryFollows, SameFingerprints
<1>9. /\ DOMAIN file = DOMAIN job.current /\ DOMAIN written = DOMAIN job.current
      /\ DOMAIN job.doc = DOMAIN job.current
  BY <1>1, <1>4 DEF Same
<1>10. Trusts(written, job.current) /\ SameFingerprints(job.doc, written)
  BY <1>1, <1>2, <1>8, <1>9 DEF MemoryFollows, Trusts, SameFingerprints
<1>11. MemoryFollows'
  <2>1. ASSUME job.kind = "get" PROVE Trusts(written, job.next)
    <3>1. DOMAIN job.next = DOMAIN job.current /\ SameFingerprints(job.next, job.current)
      BY <1>1, <1>2, <2>1 DEF FileFollows, Same, MemoryFollows
    <3> QED
      BY <1>10, <3>1 DEF Trusts, SameFingerprints
  <2> QED
    BY <1>1, <1>2, <1>3, <1>10, <2>1 DEF MemoryFollows, Unchanging, j, written
<1>12. FingerprintIsSaved'
  <2>1. ASSUME job.kind = "fingerprint", NEW i \in DOMAIN job.next, i \notin DOMAIN job.request
        PROVE  KnownFingerprint(written[i], job.current[i], job.next[i])
    <3>1. i \in DOMAIN file
      BY <1>1, <1>2, <1>9, <2>1 DEF FingerprintIsSaved, Same
    <3>2. written[i].fp = file[i].fp
      BY <1>8, <3>1 DEF SameFingerprints
    <3> QED
      BY <1>1, <1>2, <2>1, <3>2 DEF FingerprintIsSaved, KnownFingerprint
  <2> QED
    BY <1>1, <1>2, <1>3, <2>1 DEF FingerprintIsSaved, Unchanging, j, written
<1> QED
  BY <1>6, <1>7, <1>11, <1>12 DEF KeysInv

\* What the merge makes of an entry the file has, and that it leaves the new ones.
FromMerge(merged, runtime, j) == \A id \in DOMAIN j.next :
  /\ id \in DOMAIN file =>
       /\ merged[id].key = MergeKey(file[id], runtime[id], j.next[id], id \in j.clearKey)
       /\ merged[id].fp = IF j.next[id].fp = None THEN file[id].fp
                          ELSE Kept(file[id].fp, runtime[id].fp, j.next[id].fp)
  /\ id \notin DOMAIN file => merged[id] = j.next[id]

LEMMA MergedEntries ==
  ASSUME IInv, job # None, job.pc = "replace",
         NEW merged, merged = Merge(Runtime, job.next, job.clearPass, job.clearKey)
  PROVE  DOMAIN merged = DOMAIN job.next /\ FromMerge(merged, Runtime, job)
<1> DEFINE runtime == Runtime
           next == job.next
<1>1. DOMAIN file = DOMAIN runtime
  <2>1. Same(runtime, job.current) /\ Same(file, job.current)
    BY RuntimeFacts DEF IInv, FileFollows
  <2> QED
    BY <2>1 DEF Same
<1>2. runtime \in Lists
  BY RuntimeFacts
<1> HIDE DEF runtime, next
<1>3. merged = Merge(runtime, next, job.clearPass, job.clearKey)
  BY DEF runtime, next
<1>4. {id \in DOMAIN file \ DOMAIN next : runtime = NoPresets \/ id \notin DOMAIN runtime} = {}
  BY <1>1, NoPresetsFacts
<1>5. /\ DOMAIN merged = DOMAIN next
      /\ \A id \in DOMAIN next : merged[id] =
           IF id \in DOMAIN file
           THEN MergePreset(file[id], runtime[id], next[id],
                            id \in job.clearPass, id \in job.clearKey)
           ELSE next[id]
  BY <1>1, <1>3, <1>4 DEF Merge
<1>6. ASSUME NEW id \in DOMAIN next, id \in DOMAIN file
      PROVE  /\ merged[id].key = MergeKey(file[id], runtime[id], next[id], id \in job.clearKey)
             /\ merged[id].fp = IF next[id].fp = None THEN file[id].fp
                                ELSE Kept(file[id].fp, runtime[id].fp, next[id].fp)
  <2> DEFINE made == merged[id]
             raw == file[id]
             current == runtime[id]
             new == next[id]
             clearPass == id \in job.clearPass
             clearKey == id \in job.clearKey
  <2>1. made = MergePreset(raw, current, new, clearPass, clearKey)
    BY <1>5, <1>6
  <2> HIDE DEF made, raw, current, new, clearPass, clearKey
  <2>2. /\ made.key = MergeKey(raw, current, new, clearKey)
        /\ made.fp = IF new.fp = None THEN raw.fp ELSE Kept(raw.fp, current.fp, new.fp)
    BY <2>1 DEF MergePreset
  <2> QED
    BY <2>2 DEF made, raw, current, new, clearKey
<1>7. FromMerge(merged, runtime, job)
  BY <1>5, <1>6 DEF FromMerge, next
<1> QED
  BY <1>5, <1>7 DEF runtime, next

\* What it compares with has the keys and the fingerprints it should.
LEMMA RuntimeKeys ==
  ASSUME IInv, job # None, NEW id \in DOMAIN job.current
  PROVE  /\ Runtime[id].fp = job.current[id].fp
         /\ Runtime[id].key = IF job.kind = "start" THEN job.next[id].key
                              ELSE job.current[id].key
<1>1. job.current \in Lists
  BY JobFields DEF IInv, StoreTypeOK, Optional
<1>2. CASE job.kind # "start"
  BY <1>2 DEF Runtime
<1>3. CASE job.kind = "start"
  <2> DEFINE current == job.current[id]
             with == Runtime[id]
             key == job.next[id].key
  <2>1. with = [current EXCEPT !.key = key] /\ current \in Preset
    BY <1>1, <1>3, ListFacts DEF Runtime
  <2> HIDE DEF current, with, key
  <2>2. with.key = key /\ with.fp = current.fp
    BY <2>1, WithKey
  <2> QED
    BY <1>3, <2>2 DEF current, with, key
<1> QED
  BY <1>2, <1>3

\* The merged file has the keys memory gets, and every fingerprint.
LEMMA MergeKeeps ==
  ASSUME KeysInv, job # None, job.pc = "replace",
         NEW merged, merged = Merge(Runtime, job.next, job.clearPass, job.clearKey)
  PROVE  /\ ~saveFailed => SameKeys(keyFiles, merged, job.next)
         /\ Trusts(merged, job.next)
         /\ job.kind = "fingerprint" =>
              \A id \in DOMAIN job.next : id \notin DOMAIN job.request =>
                KnownFingerprint(merged[id], job.current[id], job.next[id])
<1> DEFINE runtime == Runtime
<1>1. /\ IInv /\ job \in Jobs /\ Whole(file) /\ KeysFollow /\ MemoryFollows /\ FingerprintIsSaved
      /\ Same(file, job.current)
  BY DEF KeysInv, IInv, StoreTypeOK, Optional, KeysAreWhole, FileFollows
<1>2. DOMAIN merged = DOMAIN job.next /\ FromMerge(merged, runtime, job)
  BY <1>1, MergedEntries
<1>3. DOMAIN file = DOMAIN job.current
  BY <1>1 DEF Same
<1>4. ASSUME NEW id \in DOMAIN file
      PROVE  /\ runtime[id].fp = job.current[id].fp
             /\ runtime[id].key = IF job.kind = "start" THEN job.next[id].key
                                  ELSE job.current[id].key
  BY <1>1, <1>3, RuntimeKeys
<1> HIDE DEF runtime
<1>5. job.kind \in Kinds /\ job.kind # "get"
  BY <1>1, JobFields DEF MemoryFollows
<1>6. ASSUME ~saveFailed, NEW id \in DOMAIN job.next \intersect DOMAIN file
      PROVE  Carried(keyFiles, file[id], runtime[id], job.next[id], id \in job.clearKey)
  <2>1. CASE job.kind \in {"put", "fingerprint"}
    <3>1. Carried(keyFiles, file[id], job.current[id], job.next[id], id \in job.clearKey)
      BY <1>1, <1>6, <2>1 DEF KeysFollow, Carries
    <3>2. runtime[id].key = job.current[id].key
      BY <1>4, <1>6, <2>1
    <3> QED
      BY <3>1, <3>2 DEF Carried
  <2>2. CASE job.kind = "start"
    <3>1. SameKeys(keyFiles, file, job.next)
      BY <1>1, <1>6, <2>2 DEF KeysFollow
    <3>2. Resolve(keyFiles, file[id].key) = Resolve(keyFiles, job.next[id].key)
      BY <1>6, <3>1 DEF SameKeys
    <3>3. runtime[id].key = job.next[id].key
      BY <1>4, <1>6, <2>2
    <3>4. job.next[id].key = None => file[id].key = None
      <4>1. Resolve(keyFiles, None) = None
        BY PresetStoreAssumption DEF Resolve
      <4> QED
        BY <1>1, <1>6, <3>2, <4>1, NoKeyIsNone
    <3> QED
      BY <3>2, <3>3, <3>4 DEF Carried
  <2> QED
    BY <1>5, <2>1, <2>2 DEF Kinds
<1>7. ASSUME ~saveFailed PROVE SameKeys(keyFiles, merged, job.next)
  <2>1. ASSUME NEW id \in DOMAIN job.next, id \in DOMAIN file
        PROVE  Resolve(keyFiles, merged[id].key) = Resolve(keyFiles, job.next[id].key)
    <3> DEFINE raw == file[id]
               current == runtime[id]
               next == job.next[id]
               clear == id \in job.clearKey
    <3>1. /\ Carried(keyFiles, raw, current, next, clear)
          /\ raw.key \in KeyPaths => keyFiles[raw.key] \in KeyTexts
      BY <1>1, <1>6, <1>7, <2>1 DEF Whole
    <3>2. merged[id].key = MergeKey(raw, current, next, clear)
      BY <1>2, <2>1 DEF FromMerge
    <3> HIDE DEF raw, current, next, clear
    <3>3. Resolve(keyFiles, MergeKey(raw, current, next, clear)) = Resolve(keyFiles, next.key)
      BY <3>1, MergeKeyFacts
    <3> QED
      BY <3>2, <3>3 DEF next
  <2>2. ASSUME NEW id \in DOMAIN job.next, id \notin DOMAIN file PROVE merged[id] = job.next[id]
    BY <1>2, <2>2 DEF FromMerge
  <2> QED
    BY <1>2, <2>1, <2>2 DEF SameKeys
<1>8. ASSUME NEW id \in DOMAIN job.next, job.next[id].fp # None
      PROVE  merged[id].fp = job.next[id].fp
  <2>1. CASE id \in DOMAIN file
    <3>1. merged[id].fp = Kept(file[id].fp, job.current[id].fp, job.next[id].fp)
      BY <1>2, <1>4, <1>8, <2>1 DEF FromMerge
    <3>2. job.current[id].fp # None => file[id].fp = job.current[id].fp
      BY <1>1, <1>3, <2>1 DEF MemoryFollows, Trusts
    <3> QED
      BY <1>8, <3>1, <3>2 DEF Kept
  <2>2. CASE id \notin DOMAIN file
    BY <1>2, <2>2 DEF FromMerge
  <2> QED
    BY <2>1, <2>2
<1>9. ASSUME job.kind = "fingerprint", NEW id \in DOMAIN job.next, id \notin DOMAIN job.request
      PROVE  KnownFingerprint(merged[id], job.current[id], job.next[id])
  <2>1. id \in DOMAIN file /\ KnownFingerprint(file[id], job.current[id], job.next[id])
    BY <1>1, <1>3, <1>9 DEF FingerprintIsSaved, Same
  <2>2. merged[id].fp = IF job.next[id].fp = None THEN file[id].fp
                        ELSE Kept(file[id].fp, job.current[id].fp, job.next[id].fp)
    BY <1>2, <1>4, <2>1 DEF FromMerge
  <2> QED
    BY <2>1, <2>2 DEF KnownFingerprint, Kept
<1> QED
  BY <1>7, <1>8, <1>9 DEF Trusts

LEMMA ReplaceKeepsKeys == ASSUME KeysInv, ReplaceFilePresets, IInv' PROVE KeysInv'
<1> DEFINE j == job'
           merged == file'
<1>1. /\ job # None /\ job.pc = "replace" /\ UNCHANGED <<keyFiles, server, mem, hasKey, saveFailed>>
      /\ job' = [job EXCEPT !.pc = "publish"]
      /\ \/ merged = file /\ job.kind = "start" /\ job.next = job.current
         \/ merged = Merge(Runtime, job.next, job.clearPass, job.clearKey)
  BY DEF ReplaceFilePresets
<1>2. /\ job \in Jobs /\ KeysFollow /\ SaveIsMeant /\ MemoryFollows /\ FingerprintIsSaved
  BY <1>1 DEF KeysInv, IInv, StoreTypeOK, Optional
<1>3. /\ Unchanging(j, job) /\ j.next = job.next /\ j.doc = job.doc /\ j # None
      /\ j.pc = "publish"
  BY <1>1, <1>2, JobAssumption DEF Jobs, Unchanging
<1> HIDE DEF j, merged
<1>4. /\ ~saveFailed => SameKeys(keyFiles, merged, job.next)
      /\ Trusts(merged, job.next)
  <2>1. CASE merged = file /\ job.kind = "start" /\ job.next = job.current
    BY <1>1, <1>2, <2>1 DEF KeysFollow, MemoryFollows
  <2>2. CASE merged = Merge(Runtime, job.next, job.clearPass, job.clearKey)
    BY <1>1, <2>2, MergeKeeps
  <2> QED
    BY <1>1, <2>1, <2>2
<1>5. job.kind = "fingerprint" =>
        \A id \in DOMAIN job.next : id \notin DOMAIN job.request =>
          KnownFingerprint(merged[id], job.current[id], job.next[id])
  BY <1>1, MergeKeeps
<1>6. KeysFollow'
  BY <1>1, <1>2, <1>3, <1>4 DEF KeysFollow, Unchanging, j, merged
<1>7. SaveIsMeant'
  <2>1. ASSUME NEW i
        PROVE  MeantPassword(j, i) = MeantPassword(job, i)
               /\ MeantKey(keyFiles, j, i) = MeantKey(keyFiles, job, i)
    BY <1>3, MeantUnchanged
  <2> QED
    BY <1>1, <1>2, <1>3, <2>1 DEF SaveIsMeant, Whole, Unchanging, j
<1>8. MemoryFollows'
  BY <1>1, <1>2, <1>3, <1>4 DEF MemoryFollows, Unchanging, j, merged
<1>9. FingerprintIsSaved'
  BY <1>1, <1>2, <1>3, <1>5 DEF FingerprintIsSaved, Unchanging, j, merged
<1> QED
  BY <1>6, <1>7, <1>8, <1>9 DEF KeysInv

\* Memory gets what the file says by then.
LEMMA PublishKeepsKeys == ASSUME KeysInv, Publish, IInv' PROVE KeysInv'
<1>1. /\ job # None /\ job.pc = "publish" /\ UNCHANGED <<file, keyFiles, saveFailed>>
      /\ mem' = job.next /\ server' = "up" /\ job' = None
  BY DEF Publish
<1>2. /\ KeysFollow /\ MemoryFollows
  BY DEF KeysInv
<1>3. KeysFollow'
  BY <1>1, <1>2 DEF KeysFollow
<1>4. MemoryFollows'
  BY <1>1, <1>2 DEF MemoryFollows
<1> QED
  BY <1>1, <1>3, <1>4 DEF KeysInv, SaveIsMeant, FingerprintIsSaved

\* After a save that failed nothing is said of keys; no fingerprint is lost with it.
LEMMA WriteFailsKeepsKeys == ASSUME KeysInv, WriteFails, IInv' PROVE KeysInv'
<1>1. /\ job # None /\ job.pc # "publish" /\ job' = None /\ UNCHANGED <<file, server, mem>>
      /\ saveFailed' = (job.kind # "start")
  BY DEF WriteFails, Abort
<1>2. KeysFollow /\ MemoryFollows /\ FileFollows
  BY DEF KeysInv, IInv
<1>3. KeysFollow'
  BY <1>1, <1>2 DEF KeysFollow, FileFollows
<1>4. MemoryFollows'
  <2>1. server = "up" => job.current = mem
    BY <1>1, <1>2 DEF FileFollows
  <2> QED
    BY <1>1, <1>2, <2>1 DEF MemoryFollows
<1> QED
  BY <1>1, <1>3, <1>4 DEF KeysInv, SaveIsMeant, FingerprintIsSaved

\* A process that starts again has nothing that could differ from its file.
LEMMA CrashKeepsKeys == ASSUME KeysInv, Crash, IInv' PROVE KeysInv'
<1>1. server' = "down" /\ mem' = NoPresets /\ job' = None /\ saveFailed' = FALSE
  BY DEF Crash
<1>2. KeysFollow' /\ MemoryFollows'
  BY <1>1, NoPresetsFacts DEF KeysFollow, MemoryFollows, AllMoved
<1> QED
  BY <1>1, <1>2 DEF KeysInv, SaveIsMeant, FingerprintIsSaved

---------------------------------------------------------------------------
(* The theorems                                                            *)

LEMMA KeysInit == ASSUME Init PROVE KeysInv
<1>1. server = "down" /\ mem = NoPresets /\ job = None /\ saveFailed = FALSE
  BY DEF Init
<1>2. KeysFollow /\ MemoryFollows
  BY <1>1, NoPresetsFacts DEF KeysFollow, MemoryFollows, AllMoved
<1> QED
  BY <1>1, <1>2, InitHolds DEF KeysInv, SaveIsMeant, FingerprintIsSaved

LEMMA KeysConsecution == ASSUME KeysInv, [Next]_vars PROVE KeysInv'
<1>1. IInv'
  BY Consecution DEF KeysInv
<1>2. CASE Next
  BY <1>1, <1>2, StartKeepsKeys, PutKeepsKeys, DialKeepsKeys, FingerprintKeepsKeys, GetKeepsKeys,
    CreateKeepsKeys, FillKeepsKeys, WriteReferencesKeepsKeys, ReplaceKeepsKeys, PublishKeepsKeys,
    WriteFailsKeepsKeys, CrashKeepsKeys DEF Next, JobStep
<1>3. CASE UNCHANGED vars
  <2>1. UNCHANGED <<file, keyFiles, server, mem, job, saveFailed>>
    BY <1>3 DEF vars
  <2> QED
    BY <1>1, <2>1 DEF KeysInv, KeysFollow, SaveIsMeant, Whole, MemoryFollows, FingerprintIsSaved
<1> QED
  BY <1>2, <1>3

\* For any presets, keys, key files and saves: how the keys, the secrets and the
\* fingerprints of memory, of the file and of the job at work are related (KeysInv).
THEOREM KeysInvariance == Spec => []KeysInv
<1>1. Init => KeysInv
  BY KeysInit
<1>2. KeysInv /\ [Next]_vars => KeysInv'
  BY KeysConsecution
<1> QED
  BY <1>1, <1>2, PTL DEF Spec

\* Lists with the same settings and the same keys are worth the same to a session.
LEMMA WorthIsTheSame ==
  ASSUME NEW a, NEW b, Same(a, b), SameKeys(keyFiles, a, b)
  PROVE  WorthOf(a) = WorthOf(b)
<1>1. ASSUME NEW id \in DOMAIN a PROVE Worth(a[id]) = Worth(b[id])
  <2>1. /\ a[id].host = b[id].host /\ a[id].auth = b[id].auth
        /\ PasswordOf(a[id]) = PasswordOf(b[id])
        /\ Parse(a[id].key) = Parse(b[id].key)
    BY ParseIsResolve DEF Same, SameKeys
  <2> QED
    BY <2>1 DEF Worth
<1> QED
  BY <1>1 DEF WorthOf, Same

\* What memory serves is what a restart would load, as long as no save has failed.
THEOREM RestartServesTheSame == Spec => []RestartLoadsWhatIsServed
<1>1. ASSUME KeysInv, server = "up", job = None, ~saveFailed PROVE WorthOf(file) = WorthOf(mem)
  BY <1>1, WorthIsTheSame DEF KeysInv, IInv, FileFollows, KeysFollow
<1>2. KeysInv => RestartLoadsWhatIsServed
  BY <1>1 DEF RestartLoadsWhatIsServed
<1> QED
  BY <1>2, KeysInvariance, PTL

\* Of the steps of a job, only the last, one that fails and the death of the process
\* end it.
LEMMA JobGoesOn ==
  ASSUME IInv, CreateKeyFile \/ FillKeyFile \/ WriteReferences \/ ReplaceFilePresets
  PROVE  job' # None
<1>1. /\ job \in Jobs /\ KeysAreWhole /\ job # None
  BY DEF IInv, StoreTypeOK, Optional, CreateKeyFile, FillKeyFile, WriteReferences,
    ReplaceFilePresets
<1>2. CASE CreateKeyFile
  <2>1. PICK id \in DOMAIN job.next, path \in KeyPaths :
          job' = [job EXCEPT !.pc = "keyfile", !.writing = [id |-> id, path |-> path]]
    BY <1>2 DEF CreateKeyFile
  <2>2. [id |-> id, path |-> path] \in [id: PresetIDs, path: KeyPaths]
    BY <1>1, JobFields, ListFacts
  <2>3. job' \in Jobs
    BY <1>1, <2>1, <2>2 DEF Jobs, Optional
  <2> QED
    BY <2>3, JobAssumption
<1>3. CASE FillKeyFile
  <2> DEFINE id == job.writing.id
             path == job.writing.path
  <2>1. /\ job' = [job EXCEPT !.pc = "keys", !.writing = None, !.changed = TRUE,
                              !.next[id].key = path, !.doc = Referring(job.doc, id, path)]
        /\ job.pc = "keyfile"
    BY <1>3 DEF FillKeyFile
  <2>2. id \in DOMAIN job.next /\ path \in KeyPaths
    BY <1>1, <2>1 DEF KeysAreWhole
  <2> HIDE DEF id, path
  <2>3. job.next \in Lists /\ job.doc \in Lists /\ job.next = [i \in DOMAIN job.next |-> job.next[i]]
    BY <1>1, JobFields, ListFacts
  <2>4. [job.next EXCEPT ![id].key = path] = Referring(job.next, id, path)
    BY <2>2, <2>3 DEF Referring
  <2>5. Referring(job.next, id, path) \in Lists /\ Referring(job.doc, id, path) \in Lists
    BY <2>2, <2>3, ReferringFacts
  <2>6. job' = [job EXCEPT !.pc = "keys", !.writing = None, !.changed = TRUE,
                           !.next = Referring(job.next, id, path),
                           !.doc = Referring(job.doc, id, path)]
    BY <1>1, <2>1, <2>4 DEF Jobs
  <2>7. job' \in Jobs
    BY <1>1, <2>5, <2>6 DEF Jobs, Optional
  <2> QED
    BY <2>7, JobAssumption
<1>4. CASE WriteReferences
  BY <1>1, <1>4, JobAssumption DEF WriteReferences, Jobs
<1>5. CASE ReplaceFilePresets
  BY <1>1, <1>5, JobAssumption DEF ReplaceFilePresets, Jobs
<1> QED
  BY <1>2, <1>3, <1>4, <1>5

\* A save that is answered with success has given file and memory the secrets its editor
\* meant.
LEMMA SaveEnds ==
  ASSUME KeysInv, Next, job # None, job.kind = "put", job' = None, server' = "up", ~saveFailed'
  PROVE  /\ DOMAIN file = DOMAIN job.request /\ DOMAIN mem' = DOMAIN job.request
         /\ \A id \in DOMAIN job.request : \A preset \in {file[id], mem'[id]} :
              [password |-> PasswordOf(preset), key |-> Parse(preset.key)] = Meant(id, mem)
<1>1. Publish
  <2>1. ~WriteFails
    BY DEF WriteFails, Abort
  <2>2. ~Crash
    BY DEF Crash
  <2>3. ~(CreateKeyFile \/ FillKeyFile \/ WriteReferences \/ ReplaceFilePresets)
    BY JobGoesOn DEF KeysInv
  <2>4. ~(Start \/ PutList \/ Dial \/ SaveFingerprint \/ GetList)
    BY DEF Start, PutList, Puts, Locks, Dial, SaveFingerprint, GetList
  <2> QED
    BY <2>1, <2>2, <2>3, <2>4 DEF Next, JobStep
<1>2. /\ job.pc = "publish" /\ mem' = job.next /\ ~saveFailed /\ job.current = mem
      /\ Same(file, job.next) /\ SameKeys(keyFiles, file, job.next) /\ SaveIsMeant
  BY <1>1 DEF Publish, KeysInv, IInv, FileFollows, KeysFollow
<1>3. DOMAIN file = DOMAIN job.request /\ DOMAIN job.next = DOMAIN job.request
  BY <1>2 DEF Same, SaveIsMeant
<1>4. ASSUME NEW id \in DOMAIN job.request, NEW preset \in {file[id], job.next[id]}
      PROVE  [password |-> PasswordOf(preset), key |-> Parse(preset.key)] = Meant(id, mem)
  <2>1. PasswordOf(job.next[id]) = MeantPassword(job, id)
        /\ Resolve(keyFiles, job.next[id].key) = MeantKey(keyFiles, job, id)
    BY <1>2 DEF SaveIsMeant
  <2>2. PasswordOf(preset) = PasswordOf(job.next[id])
        /\ Resolve(keyFiles, preset.key) = Resolve(keyFiles, job.next[id].key)
    BY <1>2, <1>3 DEF Same, SameKeys
  <2>3. Meant(id, mem) = [password |-> MeantPassword(job, id), key |-> MeantKey(keyFiles, job, id)]
    BY <1>2, ParseIsResolve DEF Meant, MeantPassword, MeantKey
  <2> QED
    BY <2>1, <2>2, <2>3, ParseIsResolve
<1> QED
  BY <1>2, <1>3, <1>4

\* The secrets of a list that was saved are those the editor meant, in memory and in the
\* file.
THEOREM SavesAreAsMeant == Spec => SavedSecretsAreThoseMeant
<1> DEFINE Saved == job # None /\ job.kind = "put" /\ job' = None /\ server' = "up" /\ ~saveFailed' =>
             /\ DOMAIN file = DOMAIN job.request /\ DOMAIN mem' = DOMAIN job.request
             /\ \A id \in DOMAIN job.request : \A preset \in {file[id], mem'[id]} :
                  [password |-> PasswordOf(preset), key |-> Parse(preset.key)] = Meant(id, mem)
<1>1. KeysInv /\ [Next]_vars => [Saved]_vars
  BY SaveEnds
<1> HIDE DEF Saved
<1>2. [][Saved]_vars => SavedSecretsAreThoseMeant
  BY PTL DEF SavedSecretsAreThoseMeant, Saved
<1> QED
  BY <1>1, <1>2, KeysInvariance, PTL DEF Spec

\* What a preset is worth.
LEMMA WorthFacts ==
  ASSUME NEW a, NEW b, a.host = b.host, a.auth = b.auth, PasswordOf(a) = PasswordOf(b),
         a.auth = "Private Key" => Resolve(keyFiles, a.key) = Resolve(keyFiles, b.key)
  PROVE  Worth(a) = Worth(b)
  BY ParseIsResolve DEF Worth

LEMMA NothingChanges == \A list, id : OnlyTheFingerprint(list, list, id)
  BY DEF OnlyTheFingerprint

\* The list of such a save differs from the one it starts from in one fingerprint, but
\* for fingerprints only the file still has.
LEMMA ListIsNarrow ==
  ASSUME KeysInv, job # None, job.kind = "fingerprint", ~saveFailed, NEW id \in DOMAIN job.request
  PROVE  OnlyTheFingerprint(job.current, job.next, id)
<1>1. FingerprintIsSaved /\ Same(job.next, job.current)
  BY DEF KeysInv, FingerprintIsSaved
<1>2. DOMAIN job.next = DOMAIN job.current
  BY <1>1 DEF Same
<1>3. ASSUME NEW i \in DOMAIN job.next
      PROVE  Worth(job.next[i]) = Worth(job.current[i])
  <2> DEFINE new == job.next[i]
             old == job.current[i]
  <2>1. /\ new.host = old.host /\ new.auth = old.auth /\ PasswordOf(new) = PasswordOf(old)
    BY <1>1 DEF Same
  <2>2. Untouched(keyFiles, old, new)
    BY <1>1 DEF FingerprintIsSaved
  <2> HIDE DEF new, old
  <2>3. Worth(new) = Worth(old)
    BY <2>1, <2>2, WorthFacts DEF Untouched
  <2> QED
    BY <2>3 DEF new, old
<1>4. ASSUME NEW i \in DOMAIN job.next, i # id
      PROVE  KnownFingerprint(file[i], job.current[i], job.next[i])
  BY <1>1, <1>4 DEF FingerprintIsSaved
<1> QED
  BY <1>2, <1>3, <1>4 DEF OnlyTheFingerprint, KnownFingerprint

\* ... and of the file the merge changes that one fingerprint.
LEMMA MergeIsNarrow ==
  ASSUME KeysInv, job # None, job.pc = "replace", job.kind = "fingerprint", ~saveFailed,
         NEW merged, merged = Merge(Runtime, job.next, job.clearPass, job.clearKey),
         NEW id \in DOMAIN job.request
  PROVE  OnlyTheFingerprint(file, merged, id)
<1>1. /\ IInv /\ KeysFollow /\ MemoryFollows /\ FingerprintIsSaved
      /\ Same(file, job.current) /\ Same(job.next, job.current)
  BY DEF KeysInv, IInv, FileFollows, FingerprintIsSaved
<1>2. Same(merged, job.next) /\ SameKeys(keyFiles, merged, job.next)
  BY <1>1, MergeFacts, MergeKeeps
<1>3. Same(merged, file)
  BY <1>1, <1>2, SameIsAnEquivalence
<1>4. /\ DOMAIN merged = DOMAIN file /\ DOMAIN file = DOMAIN job.next
      /\ DOMAIN job.current = DOMAIN file
  BY <1>1, <1>2 DEF Same
<1>5. FromMerge(merged, Runtime, job)
  BY <1>1, MergedEntries
<1>6. ASSUME NEW i \in DOMAIN file PROVE Worth(merged[i]) = Worth(file[i])
  <2> DEFINE new == merged[i]
             old == file[i]
  <2>1. /\ new.host = old.host /\ new.auth = old.auth /\ PasswordOf(new) = PasswordOf(old)
    BY <1>3, <1>4 DEF Same
  <2>2. /\ Carried(keyFiles, file[i], job.current[i], job.next[i], i \in job.clearKey)
        /\ Untouched(keyFiles, job.current[i], job.next[i])
        /\ Resolve(keyFiles, merged[i].key) = Resolve(keyFiles, job.next[i].key)
        /\ merged[i].auth = job.next[i].auth
    BY <1>1, <1>2, <1>4 DEF KeysFollow, Carries, FingerprintIsSaved, SameKeys, Same
  <2>3. /\ Resolve(keyFiles, file[i].key) = Resolve(keyFiles, job.current[i].key)
           \/ file[i].key = job.next[i].key
        /\ merged[i].auth = "Private Key" =>
             Resolve(keyFiles, job.next[i].key) = Resolve(keyFiles, job.current[i].key)
    BY <2>2 DEF Carried, Untouched
  <2>4. new.auth = "Private Key" => Resolve(keyFiles, new.key) = Resolve(keyFiles, old.key)
    BY <2>2, <2>3
  <2> HIDE DEF new, old
  <2>5. Worth(new) = Worth(old)
    BY <2>1, <2>4, WorthFacts
  <2> QED
    BY <2>5 DEF new, old
<1>7. ASSUME NEW i \in DOMAIN file, i # id PROVE merged[i].fp = file[i].fp
  <2>1. /\ KnownFingerprint(file[i], job.current[i], job.next[i])
        /\ job.current[i].fp # None => file[i].fp = job.current[i].fp
    BY <1>1, <1>4, <1>7 DEF FingerprintIsSaved, MemoryFollows, Trusts
  <2>2. Runtime[i].fp = job.current[i].fp
    BY <1>1, <1>4, RuntimeKeys
  <2>3. merged[i].fp = IF job.next[i].fp = None THEN file[i].fp
                       ELSE Kept(file[i].fp, job.current[i].fp, job.next[i].fp)
    BY <1>4, <1>5, <2>2 DEF FromMerge
  <2> QED
    BY <2>1, <2>3 DEF KnownFingerprint, Kept
<1> QED
  BY <1>4, <1>6, <1>7 DEF OnlyTheFingerprint

LEMMA FingerprintStep ==
  ASSUME KeysInv, Next, job # None, job.kind = "fingerprint", ~saveFailed, ~(server' = "down"),
         NEW id \in DOMAIN job.request
  PROVE  /\ OnlyTheFingerprint(file, file', id)
         /\ OnlyTheFingerprint(mem, mem', id)
         /\ keyFiles' = keyFiles
<1>1. FingerprintIsSaved /\ job.current = mem
  BY DEF KeysInv, IInv, FileFollows
<1>2. ASSUME UNCHANGED <<file, mem, keyFiles>>
      PROVE  /\ OnlyTheFingerprint(file, file', id)
             /\ OnlyTheFingerprint(mem, mem', id)
             /\ keyFiles' = keyFiles
  BY <1>2, NothingChanges
<1>3. CASE Start \/ PutList \/ SaveFingerprint \/ GetList
  BY <1>3 DEF Start, PutList, Puts, Locks, SaveFingerprint, GetList
<1>4. CASE Dial
  BY <1>2, <1>4 DEF Dial
<1>5. CASE CreateKeyFile
  <2>1. PICK i \in DOMAIN job.next : NeedsKeyFile(job.next[i])
    BY <1>5 DEF CreateKeyFile
  <2>2. Untouched(keyFiles, job.current[i], job.next[i])
    BY <1>1 DEF FingerprintIsSaved
  <2> QED
    BY <2>1, <2>2 DEF Untouched
<1>6. CASE FillKeyFile
  BY <1>1, <1>6 DEF FillKeyFile, FingerprintIsSaved
<1>7. CASE WriteReferences
  BY <1>1, <1>2, <1>7 DEF WriteReferences, FingerprintIsSaved
<1>8. CASE ReplaceFilePresets
  <2>1. /\ job.pc = "replace" /\ UNCHANGED <<mem, keyFiles>>
        /\ file' = Merge(Runtime, job.next, job.clearPass, job.clearKey)
    BY <1>8 DEF ReplaceFilePresets
  <2>2. OnlyTheFingerprint(file, file', id)
    BY <2>1, MergeIsNarrow
  <2>3. OnlyTheFingerprint(mem, mem', id)
    BY <2>1, NothingChanges
  <2> QED
    BY <2>1, <2>2, <2>3
<1>9. CASE Publish
  <2>1. mem' = job.next /\ UNCHANGED <<file, keyFiles>>
    BY <1>9 DEF Publish
  <2>2. OnlyTheFingerprint(file, file', id)
    BY <2>1, NothingChanges
  <2>3. OnlyTheFingerprint(mem, mem', id)
    BY <1>1, <2>1, ListIsNarrow
  <2> QED
    BY <2>1, <2>2, <2>3
<1>10. CASE WriteFails
  BY <1>1, <1>2, <1>10 DEF WriteFails, Abort, FingerprintIsSaved
<1>11. CASE Crash
  BY <1>11 DEF Crash
<1> QED
  BY <1>3, <1>4, <1>5, <1>6, <1>7, <1>8, <1>9, <1>10, <1>11 DEF Next, JobStep

\* As long as no save has failed, saving a fingerprint leaves every other preset, every
\* other entry and all key files as they are, in the file and in memory; a fingerprint of
\* another preset that only the file still had is all that memory can get besides.
THEOREM FingerprintSavesAreNarrow == Spec => FingerprintSaveIsNarrow
<1> DEFINE Narrow == job # None /\ job.kind = "fingerprint" /\ ~saveFailed /\ ~(server' = "down") =>
             \A id \in DOMAIN job.request :
               /\ OnlyTheFingerprint(file, file', id)
               /\ OnlyTheFingerprint(mem, mem', id)
               /\ keyFiles' = keyFiles
<1>1. KeysInv /\ [Next]_vars => [Narrow]_vars
  BY FingerprintStep
<1> HIDE DEF Narrow
<1>2. [][Narrow]_vars => FingerprintSaveIsNarrow
  BY PTL DEF FingerprintSaveIsNarrow, Narrow
<1> QED
  BY <1>1, <1>2, KeysInvariance, PTL DEF Spec
=============================================================================
