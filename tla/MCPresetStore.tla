--------------------------- MODULE MCPresetStore ---------------------------
(***************************************************************************)
(* Instances of PresetStore: what the operator's file may say.             *)
(***************************************************************************)
EXTENDS PresetStore, TLC

AnEntry(auth, pass, key, fp) ==
  [host: Hosts, auth: {auth}, pass: pass, enc: {None}, key: key, fp: fp]

\* A password in clear; a key in clear, in a file of the operator's, or none yet.
SomeEntries ==
  AnEntry("Password", Passwords, {None}, {None})
  \union AnEntry("Private Key", {None}, KeyTexts \union OperatorKeys \union {None}, {None})

SameNames == Permutations(PresetIDs) \union Permutations(KeyPaths \ OperatorKeys)
               \union Permutations(KeyTexts) \union Permutations(Hosts)
=============================================================================
