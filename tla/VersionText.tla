----------------------------- MODULE VersionText -----------------------------
(***************************************************************************)
(* Version texts as the vendor writes them and setups register them, how   *)
(* they become semantic versions, and how versions are compared.           *)
(*                                                                         *)
(* A text is taken apart: white space around it, a leading "v", the parts  *)
(* of its number, a pre-release "-rcN" (0: none) and the identifiers of    *)
(* its build metadata (Letters for one that is no number).  A text without *)
(* parts is a word: a path, a boolean, anything that is no version.        *)
(***************************************************************************)
EXTENDS Integers, Sequences

Letters == -1

Texts == [blank : BOOLEAN, v : BOOLEAN, parts : Seq(Nat), pre : Nat,
          build : Seq(Nat \cup {Letters}), word : STRING]

Number(parts) ==
  [blank |-> FALSE, v |-> FALSE, parts |-> parts, pre |-> 0, build |-> <<>>, word |-> ""]
Word(w) ==
  [blank |-> FALSE, v |-> FALSE, parts |-> <<>>, pre |-> 0, build |-> <<>>, word |-> w]
Empty == Word("")

-----------------------------------------------------------------------------
\* The leading "v" goes; a fourth part, and what follows it, becomes build
\* metadata; a text with metadata of its own has then two "+" and is no version.
toSemVerCompatible(s) ==
  LET t == IF s.blank THEN s ELSE [s EXCEPT !.v = FALSE]
      tail == SubSeq(t.parts, 4, Len(t.parts)) \o (IF t.pre = 0 THEN <<>> ELSE <<Letters>>)
  IN  IF Len(t.parts) <= 3 THEN t
      ELSE IF t.build # <<>> THEN Word("two plus signs")
      ELSE [t EXCEPT !.parts = SubSeq(t.parts, 1, 3), !.pre = 0, !.build = tail]

\* semver::version::parse accepts three parts and nothing around them.
Parses(s) == ~s.blank /\ ~s.v /\ Len(s.parts) = 3
Version(s) == [core |-> s.parts, pre |-> s.pre, build |-> s.build]
Zero == [core |-> <<0, 0, 0>>, pre |-> 0, build |-> <<>>]

Readable(s) == Parses(toSemVerCompatible(s))
Read(s) == Version(toSemVerCompatible(s))

\* operator< of the library: the number, then the pre-release; not the build.
Precedes(a, b) ==
  \/ \E i \in 1 .. 3 : /\ a.core[i] < b.core[i]
                       /\ \A j \in 1 .. (i - 1) : a.core[j] = b.core[j]
  \/ a.core = b.core /\ a.pre # 0 /\ (b.pre = 0 \/ a.pre < b.pre)

numericBuildMeta(v) == IF Len(v.build) = 1 /\ v.build[1] # Letters THEN v.build[1] ELSE 0

CompareVersions(a, b) ==
  IF Precedes(a, b) THEN -1
  ELSE IF Precedes(b, a) THEN 1
  ELSE IF numericBuildMeta(a) < numericBuildMeta(b) THEN -1
  ELSE IF numericBuildMeta(a) > numericBuildMeta(b) THEN 1 ELSE 0

-----------------------------------------------------------------------------
\* A release's text is trimmed, and one "v" more may go.
Trimmed(text) == [text EXCEPT !.blank = FALSE, !.v = FALSE]

GetSemVersion(release) ==
  IF Readable(Trimmed(release.version)) THEN Read(Trimmed(release.version)) ELSE Zero

\* A detection version that is absent is the empty text.
GetDetectionSemVersion(release) ==
  IF Readable(Trimmed(release.detectionVersion)) THEN Read(Trimmed(release.detectionVersion))
                                                ELSE GetSemVersion(release)
=============================================================================
