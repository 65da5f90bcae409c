-------------------------- MODULE TemplateCallbacks --------------------------
(***************************************************************************)
(* RenderInjaTemplate: what a template of the configuration renders to, on *)
(* the state of the machine.  A template here is a text, one callback that *)
(* yields a text, or a comparison of such a text with the version of the   *)
(* newest release.  Whatever raises while it is rendered, the result is    *)
(* the empty text.                                                         *)
(*                                                                         *)
(* A world is what the callbacks look at:                                  *)
(*   env        names to [state : {"set", "unset", "long"}, text]          *)
(*   registry   <<view, hive, key>> to [type, text]; keys that open        *)
(*   ini        [size, sections (key names to texts)]                      *)
(*   uninstall  sequence of [opens, name, displayVersion]                  *)
(*   files      paths (words) that exist                                   *)
(***************************************************************************)
EXTENDS VersionText, FiniteSets

Hives == {"HKCU", "HKLM", "HKCR"}
StringTypes == {"REG_SZ", "REG_EXPAND_SZ"}
NumberTypes == {"REG_DWORD", "REG_QWORD"}
ListTypes == {"REG_BINARY", "REG_MULTI_SZ"}

\* The view of a 64-bit process, and the value of each name of RegistryView.
\* The library that reads the names knows enumerators of -128 .. 127 only:
\* any other name is Invalid, and no flag.
NativeView == "64"
ViewValue == [Default |-> 0, WOW64_64KEY |-> 256, WOW64_32KEY |-> 512]
enum_cast(name) == IF ViewValue[name] \in -128 .. 127 THEN ViewValue[name] ELSE -1
View(name) == IF enum_cast(name) = 512 THEN "32" ELSE NativeView

Fallback(c, mandatory) == IF c.args > mandatory THEN c.fallback ELSE Empty

-----------------------------------------------------------------------------
\* A value too long for the buffer is a success that leaves it empty.
envar(c, w) ==
  IF c.args = 0 THEN Empty
  ELSE IF w.env[c.name].state = "unset" THEN Fallback(c, 1)
  ELSE IF w.env[c.name].state = "long" THEN Empty ELSE w.env[c.name].text

\* Numbers and lists are printed, and are no version.
regval(c, w) ==
  LET key == <<View(c.view), c.hive, c.key>>
  IN  IF c.args < 4 THEN Empty
      ELSE IF c.hive \notin Hives \/ key \notin DOMAIN w.registry THEN Fallback(c, 4)
      ELSE IF w.registry[key].type \in StringTypes THEN w.registry[key].text
      ELSE IF w.registry[key].type \in NumberTypes THEN Number(<<1>>)
      ELSE IF w.registry[key].type \in ListTypes THEN Word("list")
      ELSE Fallback(c, 4)

inival(c, w) ==
  IF c.args < 3 THEN Empty
  ELSE IF w.ini.size <= 3 \/ c.key \notin DOMAIN w.ini.sections THEN Fallback(c, 3)
  ELSE w.ini.sections[c.key]

\* The entries of installed products whose name matches.
Matching(c, w) ==
  {i \in DOMAIN w.uninstall : w.uninstall[i].opens /\ w.uninstall[i].name = c.name}
FirstResult(c, w) ==
  w.uninstall[CHOOSE i \in Matching(c, w) : \A j \in Matching(c, w) : i <= j].displayVersion

\* The expression is compiled for each entry that can be read, and raises if
\* it is none; so does a look at the first of no results.
Raises(c, w) ==
  \/ c.fn = "malformed"
  \/ /\ c.fn = "productBy"
     /\ \/ c.name = "(" /\ \E i \in DOMAIN w.uninstall : w.uninstall[i].opens
        \/ Matching(c, w) = {} /\ ~c.guarded

Value(c, w) ==
  CASE c.fn = "text"      -> c.text
    [] c.fn = "envar"     -> envar(c, w)
    [] c.fn = "regval"    -> regval(c, w)
    [] c.fn = "inival"    -> inival(c, w)
    [] c.fn = "productBy" -> IF Matching(c, w) = {} THEN Empty ELSE FirstResult(c, w)

-----------------------------------------------------------------------------
\* Both texts are taken as they are; one that is no version makes each
\* comparison false.  Equality is the library's, which knows no fourth part.
versionEq(lhs, rhs) ==
  /\ Readable(lhs) /\ Readable(rhs)
  /\ ~Precedes(Read(lhs), Read(rhs)) /\ ~Precedes(Read(rhs), Read(lhs))
versionGt(lhs, rhs) ==
  Readable(lhs) /\ Readable(rhs) /\ CompareVersions(Read(lhs), Read(rhs)) > 0
versionLt(lhs, rhs) ==
  Readable(lhs) /\ Readable(rhs) /\ CompareVersions(Read(lhs), Read(rhs)) < 0

exists(path, w) == path.word \in w.files

Boolean(b) == Word(IF b THEN "true" ELSE "false")

Compared(t, value, newest, w) ==
  CASE t.test = "versionEq" -> versionEq(value, newest)
    [] t.test = "versionGt" -> versionGt(value, newest)
    [] t.test = "versionLt" -> versionLt(value, newest)
    [] t.test = "exists"    -> exists(value, w)

\* A template prints the value of its callback, or what comparing it says.
RenderInjaTemplate(t, newest, w) ==
  IF Raises(t.source, w) THEN Empty
  ELSE IF t.test = "none" THEN Value(t.source, w)
  ELSE Boolean(Compared(t, Value(t.source, w), newest, w) # t.negated)
=============================================================================
