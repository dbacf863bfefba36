---------------------------- MODULE MCRepository ----------------------------
(***************************************************************************)
(* Small repositories: their packages, and the commands that are run.      *)
(***************************************************************************)
EXTENDS Repository

\* Packages of two architectures and an architecture-all one; a2 is a newer
\* version of a1, and a1x another build of a1 under the same file name.
a1 == [name |-> "a", version |-> 1, arch |-> "amd64", body |-> 1]
a1x == [name |-> "a", version |-> 1, arch |-> "amd64", body |-> 2]
a2 == [name |-> "a", version |-> 2, arch |-> "amd64", body |-> 1]
b1 == [name |-> "b", version |-> 1, arch |-> "arm64", body |-> 1]
d1 == [name |-> "d", version |-> 1, arch |-> "all", body |-> 1]

Seeds == <<"amd64">>

\* Runs differ in nothing but their names.
Symmetry == Permutations(Run)

Upload(comp, files) ==
  [op |-> "upload", codename |-> "noble", comp |-> comp, files |-> files, arch |-> Unset,
   preserve |-> FALSE, failIfExists |-> TRUE, skipUpload |-> FALSE,
   byHash |-> TRUE, sign |-> TRUE, lock |-> TRUE]
Copy(name, comp, to, toComp) ==
  [op |-> "copy", codename |-> "noble", comp |-> comp, to |-> to, toComp |-> toComp,
   arch |-> "amd64", name |-> name, versions |-> Unset, preserve |-> FALSE,
   failIfExists |-> TRUE, byHash |-> TRUE, sign |-> TRUE, lock |-> TRUE]
Delete(name, comp, arch) ==
  [op |-> "delete", codename |-> "noble", comp |-> comp, arch |-> arch, name |-> name,
   versions |-> Unset, byHash |-> TRUE, sign |-> TRUE, lock |-> TRUE]
Verify(comp, fix, sign) ==
  [op |-> "verify", codename |-> "noble", comp |-> comp, fix |-> fix,
   byHash |-> TRUE, sign |-> sign, lock |-> FALSE]
List(comp, arch) ==
  [op |-> "list", codename |-> "noble", comp |-> comp, arch |-> arch, byHash |-> Unset]
ExistsJob(version, comp, arch) ==
  [op |-> "exists", codename |-> "noble", comp |-> comp, arch |-> arch, version |-> version]
Clean == [op |-> "clean", codename |-> "noble", lock |-> TRUE]

Unsigned(j) == [j EXCEPT !.sign = FALSE]
WithoutByHash(j) == [j EXCEPT !.byHash = Unset]

\* Locked commands on one codename with two components, which may stop, and
\* queries beside them.
LockedJobs ==
  { Upload("main", <<a1>>), Unsigned(Upload("main", <<a2>>)), Upload("main", <<a1x>>),
    Upload("contrib", <<d1>>), [Upload("main", <<a2, b1>>) EXCEPT !.preserve = TRUE],
    Copy("a", "main", "noble", "contrib"), Delete("a", "main", "all"), Clean,
    List("main", Unset), List("contrib", "amd64"), ExistsJob(1, "main", "amd64") }

\* One command after the other on two codenames.
SequentialJobs ==
  { Upload("main", <<a1>>), Unsigned(Upload("contrib", <<d1, b1>>)),
    [Upload("main", <<a2>>) EXCEPT !.skipUpload = TRUE],
    [Upload("main", <<d1>>) EXCEPT !.arch = "amd64"], Upload("main", <<d1>>),
    Copy("a", "main", "jammy", "main"), Delete("a", "main", "amd64"),
    Verify("main", TRUE, FALSE), Verify("main", FALSE, TRUE), Clean }

\* copy takes the lock of its destination, delete and clean that of its source.
CopyCleanJobs ==
  { Upload("main", <<a1>>), Copy("a", "main", "jammy", "main"),
    Delete("a", "main", "amd64"), Clean }

\* verify --sign beside an upload that takes the lock.
VerifyJobs == { Upload("main", <<a1>>), Upload("main", <<d1>>), Verify("main", FALSE, TRUE) }

\* --by-hash is given for the first time when the repository has two components.
EnableByHashJobs ==
  { WithoutByHash(Upload("contrib", <<a1>>)), Upload("main", <<a1>>),
    WithoutByHash(Upload("contrib", <<a2>>)) }
=============================================================================
