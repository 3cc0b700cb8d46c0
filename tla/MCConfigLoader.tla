--------------------------- MODULE MCConfigLoader ---------------------------
(* Instances of ConfigLoader for TLC.  The documents of a set an encrypted  *)
(* port and a secret encrypted in a list inside a list, or a port the       *)
(* schema forbids and no key ring, or are no YAML; those of b set another   *)
(* port, with or without a secret out of the environment.  The local file   *)
(* has a port and the number 1 as secret, or neither, or cannot be read;    *)
(* the plain text of an encrypted value is the string "1".                  *)
EXTENDS ConfigLoader, TLC
CONSTANTS a, b, c1, c2
Doc(p, s, r) == [k \in Keys |-> CASE k = "port" -> p [] k = "secret" -> s [] OTHER -> r]
MCDocs == [d \in DataIds |->
  IF d = a THEN {Doc("enc", "nest", Absent), Doc("bad", Absent, "lost"), Broken}
  ELSE {Doc("2", "var", Absent), Doc("2", Absent, Absent)}]
MCLocal == {Doc("0", "one", "key"), Doc(Absent, Absent, "key"), Broken}
MCEnv == [v \in Values |-> IF v = "var" THEN "enc" ELSE v]
MCPlain == [v \in Encrypted |-> "1"]
MCShown == [v \in Values |-> IF v = "one" THEN "1" ELSE v]
MCRing == [v \in Values |-> IF v = "key" THEN {{"enc", "nest"}} ELSE {}]
MCCovers == [l \in Listeners |-> {"secret", "ring"}]
MCSymmetry == Permutations(Callbacks)
=============================================================================
