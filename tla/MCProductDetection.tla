------------------------- MODULE MCProductDetection -------------------------
(***************************************************************************)
(* Small instance: four builds whose versions take every form: a leading   *)
(* "v", four parts and three, a tenth that sorts before a third as a text, *)
(* a pre-release with a detection version, white space.  The first build   *)
(* is no longer published; the second is, in two entries that are equal as *)
(* versions.                                                               *)
(***************************************************************************)
EXTENDS ProductDetection

Marked(text) == [text EXCEPT !.v = TRUE]
Padded(text) == [text EXCEPT !.blank = TRUE]
Candidate(text) == [text EXCEPT !.pre = 1]

Entry(b, version, detectionVersion) ==
  [build |-> b, version |-> version, detectionVersion |-> detectionVersion,
   size |-> b, checksum |-> IF b = 3 THEN "absent" ELSE ToString(b)]
MCEntries ==
  {Entry(2, Number(<<1, 2, 3, 4>>), Empty),
   Entry(2, Marked(Number(<<1, 2, 3, 4>>)), Empty),
   Entry(3, Candidate(Number(<<1, 2, 10>>)), Number(<<1, 2, 9, 900>>)),
   Entry(4, Marked(Number(<<1, 2, 10>>)), Padded(Number(<<1, 2, 10, 0>>)))}

Text == <<Number(<<1, 2, 3>>), Marked(Number(<<1, 2, 3, 4>>)), Candidate(Number(<<1, 2, 10>>)),
          Number(<<1, 2, 10, 0>>)>>
Resource == <<<<1, 2, 3, 0>>, <<1, 2, 3, 4>>, <<1, 2, 9, 900>>, <<1, 2, 10, 0>>>>

Keys == {<<"64", "HKLM", "Product">>, <<"32", "HKLM", "Legacy">>}
MCLeft ==
  [b \in 1 .. 4 |->
    [version |-> Text[b],
     registry |-> [k \in Keys |-> [type |-> "REG_SZ", text |-> Text[b]]],
     env |-> [n \in {"ROOT"} |-> [state |-> "set", text |-> Word("app")]],
     ini |-> [size |-> 40, sections |-> [n \in {"version"} |-> Text[b]]],
     uninstall |-> <<[opens |-> FALSE, name |-> "ours", displayVersion |-> Empty],
                     [opens |-> TRUE, name |-> "theirs", displayVersion |-> Number(<<9, 0, 0>>)],
                     [opens |-> TRUE, name |-> "ours", displayVersion |-> Text[b]]>>,
     files |-> {"app"},
     file |-> [state |-> "readable", resource |-> Resource[b], size |-> b, digest |-> ToString(b)]]]

\* Values of another type, keys and files that are gone, unreadable content.
MCDamaged(w) ==
  {[w EXCEPT !.registry = [k \in Keys |-> [type |-> t, text |-> Word("junk")]]] :
     t \in {"REG_SZ", "REG_DWORD", "REG_BINARY", "REG_NONE"}}
  \cup {[w EXCEPT !.registry = <<>>],
        [w EXCEPT !.env = [n \in {"ROOT"} |-> [state |-> "unset", text |-> Empty]]],
        [w EXCEPT !.env = [n \in {"ROOT"} |-> [state |-> "long", text |-> Empty]]],
        [w EXCEPT !.ini.size = 3], [w EXCEPT !.uninstall = <<>>], [w EXCEPT !.files = {}],
        [w EXCEPT !.file.resource = <<>>], [w EXCEPT !.file.size = 0],
        [w EXCEPT !.file.state = "torn"], [w EXCEPT !.file.state = "locked"]}

Test(test, source) == [test |-> test, negated |-> FALSE, source |-> source]
Not(t) == [t EXCEPT !.negated = TRUE]
AppPath == Test("none", [fn |-> "envar", args |-> 2, name |-> "ROOT", fallback |-> Word("app")])
FromRegistry(key, args) ==
  [fn |-> "regval", args |-> args, view |-> "Default", hive |-> "HKLM", key |-> key,
   fallback |-> Number(<<0, 0, 0>>)]
FromIni == [fn |-> "inival", args |-> 4, key |-> "version", fallback |-> Number(<<0, 0, 0>>)]
FromUninstall(name) == [fn |-> "productBy", name |-> name, guarded |-> name = "ours"]

Expressions ==
  {Test("versionLt", FromRegistry("Product", 5)), Test("versionLt", FromIni),
   Test("versionLt", FromUninstall("ours")), Not(Test("versionEq", FromRegistry("Product", 4))),
   Not(Test("versionGt", FromIni)), Not(Test("exists", AppPath.source)),
   Test("none", FromUninstall("(")), Test("none", FromUninstall("nobody's"))}

Registry(view, key) == [view |-> view, hive |-> "HKLM", key |-> key]
File == [input |-> AppPath]

Config(m, d) == [method |-> m, detection |-> d]
Configs ==
  {Config("RegistryValue", Registry("Default", "Product")),
   Config("RegistryValue", Registry("WOW64_32KEY", "Legacy")), Config("FileVersion", File),
   Config("FileSize", File), Config("FileChecksum", File)}
  \cup {Config("CustomExpression", [input |-> e]) : e \in Expressions}
MCLocalConfigs ==
  {[authority |-> "Remote", method |-> "Invalid", detection |-> <<>>],
   [authority |-> "Local", method |-> "Invalid", detection |-> <<>>]}
  \cup {[authority |-> "Remote", method |-> c.method, detection |-> c.detection] : c \in Configs}
MCSharedConfigs == {Config("FileVersion", File), Config("FixedVersion", <<>>)}
MCCommandLines ==
  {[force |-> f, local |-> l] : f \in {Empty, Text[2]}, l \in {Empty, Text[1]}}
=============================================================================
