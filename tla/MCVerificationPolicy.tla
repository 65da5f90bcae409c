------------------------ MODULE MCVerificationPolicy ------------------------
(***************************************************************************)
(* Small instance: the publisher of the updater with a certificate and its *)
(* renewal, another publisher, and one whose subject says "not signed";    *)
(* settings of every kind, one unknown word among them; pins on stable     *)
(* fields, on volatile ones, and an empty one.                             *)
(***************************************************************************)
EXTENDS VerificationPolicy

CONSTANT absent

Cert(subject, serial) ==
  [serial |-> serial, issuer |-> "ca", subject |-> subject, sha1 |-> serial, sha256 |-> serial]
Old == Cert("ours", "1")
Renewed == Cert("ours", "2")
Theirs == Cert("theirs", "3")
Odd == Cert("Works not signed Ltd", "4")

MCSayNotSigned == {"File is not signed", "Works not signed Ltd"}

ByName == [subject |-> "ours", issuer |-> "ca"]
ByThumbprint == [sha256 |-> "2"]
AnyCert == [f \in {} |-> ""]

MCCerts == {Old, Renewed, Theirs, Odd}
MCPins == {ByName, ByThumbprint, AnyCert}

Set(m, p, s, c) == [mode |-> m, policy |-> p, strategy |-> s, config |-> c]
MCLocalConfigs ==
  {[authority |-> "Remote",
    settings |-> Set("Required", "Invalid", "FromConfiguration", ByName)],
   [authority |-> "Local",
    settings |-> Set("Disabled", "Relaxed", "FromUpdaterBinary", absent)]}
MCSharedConfigs ==
  {Set("Disabled", "Relaxed", absent, absent),
   Set(absent, "Strict", "FromConfiguration", ByThumbprint)}

Release(d, p, s, c) == [checksum |-> d, policy |-> p, strategy |-> s, signature |-> c]
MCReleases ==
  {Release("d1", absent, absent, absent), Release(absent, "Strict", absent, absent),
   Release("d1", "Relaxed", "FromUpdaterBinary", AnyCert),
   Release("d1", "Strict", absent, ByName)}

MCUpdaterFiles == {[chain |-> "valid", cert |-> Old], [chain |-> "unsigned", cert |-> Old]}
MCSetupFiles ==
  {[digest |-> "d1", chain |-> "valid", cert |-> c] : c \in MCCerts \ {Old}}
  \cup {[digest |-> "d1", chain |-> h, cert |-> Old] : h \in {"unsigned", "untrusted"}}
  \cup {[digest |-> "d2", chain |-> "valid", cert |-> Renewed]}
=============================================================================
