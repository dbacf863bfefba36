------------------------------ MODULE AptIndex ------------------------------
(***************************************************************************)
(* The data of an APT repository and the operations of internal/apt on it, *)
(* without the object store.                                               *)
(*                                                                         *)
(*   package   [name, version, arch, body]; body tells two builds of one   *)
(*             version apart, it stands for the bytes and their hashes     *)
(*   entry     [pkg, file]: a paragraph of a Packages index; file is the   *)
(*             pool path of its Filename field, <<codename, basename>>     *)
(*   content   a sequence of entries: the text of a Packages index, and    *)
(*             the hashes of that text                                     *)
(*   index     <<component, architecture>>                                 *)
(*   release   [comps, archs, files, byHash, date, signed]; files maps the *)
(*             indexes that Release lists to the content it has hashes of  *)
(*                                                                         *)
(* Packages and Packages.gz carry the same content and are written one     *)
(* after the other; the model keeps one of them.                           *)
(***************************************************************************)
EXTENDS Integers, Sequences, SequencesExt, TLC

CONSTANTS
  AllArch,       \* the architecture "all"
  DefaultArchs,  \* the architectures a brand-new repository is seeded with
  Unset          \* an option that was not given

EmptyMap == <<>>

\* The basename of a package file names the package, its version and its
\* architecture, not its bytes.
Basename(p) == <<p.name, p.version, p.arch>>

\* Package.RepositoryFilename of a local package file.
PoolFile(codename, p) == <<codename, Basename(p)>>

Entry(codename, p) == [pkg |-> p, file |-> PoolFile(codename, p)]

EntriesOf(content) == {content[n] : n \in DOMAIN content}

Listed(content) == {e.pkg : e \in EntriesOf(content)}

IsList(s) == s \in Seq(EntriesOf(s))

ASSUME SeedsAssumption == IsList(DefaultArchs)
ASSUME UnsetAssumption == Unset \notin BOOLEAN

\* The elements of s at some of its positions, in their order.
At(s, positions) ==
  LET at[n \in 0..Len(s)] ==
        IF n = 0 THEN <<>>
        ELSE IF n \in positions THEN Append(at[n - 1], s[n])
        ELSE at[n - 1]
  IN at[Len(s)]

Map(f(_), s) == [n \in DOMAIN s |-> f(s[n])]

\* f with v at x.
With(f, x, v) == [y \in DOMAIN f \cup {x} |-> IF y = x THEN v ELSE f[y]]

-----------------------------------------------------------------------------
(* Manifest.                                                               *)

\* The entries that adding e replaces: those of its name, or with
\* --preserve-versions those of its name and version.
Replaces(x, e, preserve) ==
  x.pkg.name = e.pkg.name /\ (preserve => x.pkg.version = e.pkg.version)

Add(content, e, preserve) ==
  Append(At(content, {n \in DOMAIN content : ~Replaces(content[n], e, preserve)}), e)

\* The conflict --fail-if-exists reports: one name and version, two basenames.
AddConflicts(content, e) ==
  \E x \in EntriesOf(content) :
    /\ x.pkg.name = e.pkg.name /\ x.pkg.version = e.pkg.version
    /\ x.file[2] # e.file[2]

\* Several Adds in order; ok is false once one of them conflicts.
AddAll(content, entries, preserve, failIfExists) ==
  LET added[n \in 0..Len(entries)] ==
        IF n = 0 THEN [ok |-> TRUE, content |-> content]
        ELSE LET before == added[n - 1]
             IN [ok |-> before.ok /\ ~(failIfExists /\ AddConflicts(before.content, entries[n])),
                 content |-> Add(before.content, entries[n], preserve)]
  IN added[Len(entries)]

Selected(e, name, versions) ==
  e.pkg.name = name /\ (versions # Unset => e.pkg.version \in versions)

\* Manifest.DeletePackage.
DeletePackage(content, name, versions) ==
  At(content, {n \in DOMAIN content : ~Selected(content[n], name, versions)})

-----------------------------------------------------------------------------
(* Release.                                                                *)

EmptyRelease ==
  [comps |-> <<>>, archs |-> <<>>, files |-> EmptyMap, byHash |-> FALSE,
   date |-> Unset, signed |-> FALSE]

\* appendUnique of each element of t.
AppendNew(s, t) ==
  s \o At(t, {n \in DOMAIN t : t[n] \notin EntriesOf(s) /\ \A k \in 1..(n - 1) : t[k] # t[n]})

HashesOnly(release, indexes, contents) ==  \* mutant
  [release EXCEPT !.files =
     [i \in DOMAIN @ \cup EntriesOf(indexes) |->
        IF i \in EntriesOf(indexes) THEN contents[i] ELSE @[i]]]

\* UpdateManifest of each index of a list: its component, its architecture and
\* the hashes of its content are recorded in Release.
UpdateManifests(release, indexes, contents) ==
  [release EXCEPT
     !.comps = AppendNew(@, Map(LAMBDA i : i[1], indexes)),
     !.archs = AppendNew(@, Map(LAMBDA i : i[2], indexes)),
     !.files = [i \in DOMAIN @ \cup EntriesOf(indexes) |->
                  IF i \in EntriesOf(indexes) THEN contents[i] ELSE @[i]]]

NothingMissing(release) == <<>>  \* mutant

\* Every index of the components and architectures of Release that Release does
\* not list: components outside, architectures inside.
MissingManifests(release) ==
  LET all == FlattenSeq([c \in DOMAIN release.comps |->
               [a \in DOMAIN release.archs |-> <<release.comps[c], release.archs[a]>>]])
  IN At(all, {n \in DOMAIN all : all[n] \notin DOMAIN release.files})
=============================================================================
