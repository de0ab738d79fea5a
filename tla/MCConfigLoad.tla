----------------------------- MODULE MCConfigLoad -----------------------------
(* Instances of ConfigLoad for TLC. *)
EXTENDS ConfigLoad, TLC

MCBlocks == {"http", "server", "loc", "if"}
MCParent == [b \in MCBlocks |->
               CASE b = "server" -> "http" [] b = "loc" -> "server"
                 [] b = "if" -> "loc" [] OTHER -> "http"]

Flag(name, values) == {[name |-> name, value |-> v] : v \in values}

\* Four dictionary files; the last has the contents of the second.
MCDigest == [f \in {"f1", "f2", "f3", "f4"} |->
               CASE f = "f1" -> 10 [] f = "f2" -> 20 [] f = "f3" -> 30
                 [] OTHER -> 20]

Dcz(f, literals) == {[name |-> "dcz", file |-> f, value |-> l] : l \in literals}

\* Lists of dictionaries, and the switches they depend on.
ListDirectives ==
  Flag("strict", {1}) \cup Flag("trust", {0, 1})
  \cup Dcz("f1", {0}) \cup Dcz("f2", {0, 20}) \cup Dcz("f3", {0, 10, 1})
  \cup Dcz("f4", {0})

\* Levels, enabling, and the dictionary of zstd_dict_file.
ProfileDirectives ==
  Flag("enable", {0, 1}) \cup Flag("static", {0, 2}) \cup Flag("level", {-1, 9})
  \cup Flag("window", {0, 20}) \cup Flag("cblock", {0, 2000})
  \cup Flag("unsafe", {1})
  \cup Flag("strict", {1}) \cup {[name |-> "file", value |-> 1]}

MCFiles == {[of |-> ListDirectives, bound |-> 5], [of |-> ProfileDirectives, bound |-> 4]}
ListFiles == {[of |-> ListDirectives, bound |-> 5]}
=============================================================================
