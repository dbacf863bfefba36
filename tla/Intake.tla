------------------------------- MODULE Intake -------------------------------
(***************************************************************************)
(* The way of a package from a file to a Packages index: it is read, its   *)
(* entry is rendered into the index, and every later command on the index  *)
(* parses the entry and renders it again.                                  *)
(***************************************************************************)
EXTENDS DebReader

VARIABLE entry  \* the lines of the package in the Packages index

vars == <<readerVars, entry>>

IntakeInit == Init /\ entry = Absent

\* Manifest.Render of the package that was read; without a pool path it fails.
Publish ==
  /\ result = "accepted" /\ entry = Absent
  /\ \/ HasRepositoryFilename(pack) /\ entry' = Render(pack) /\ UNCHANGED readerVars
     \/ ~HasRepositoryFilename(pack) /\ Fails("nameless") /\ UNCHANGED entry

\* RetrieveManifest and Render.
Republish ==
  /\ entry # Absent /\ Parses(entry)
  /\ entry' = Render(ParsePackage(entry))
  /\ UNCHANGED readerVars

\* RetrieveManifest fails, and the command with it.
Unreadable == entry # Absent /\ ~Parses(entry) /\ UNCHANGED vars

Rejected == result \notin {"reading", "accepted"} /\ UNCHANGED vars

Next ==
  \/ Read /\ UNCHANGED entry
  \/ Publish
  \/ Republish
  \/ Unreadable
  \/ Rejected

Spec == IntakeInit /\ [][Next]_vars

-----------------------------------------------------------------------------
(* What a well-formed package file is.                                     *)

\* How deep a path is after each of its segments.
Depths(path) ==
  LET depth[n \in 0 .. Len(path)] ==
        IF n = 0 THEN 0
        ELSE CASE path[n] = ".." -> depth[n - 1] - 1
               [] path[n] \in {Empty, "."} -> depth[n - 1]
               [] OTHER -> depth[n - 1] + 1
  IN depth

\* A path inside the archive: it never goes above its root.
SafePath(path) ==
  /\ path # <<Empty>> /\ ~Rooted(path)
  /\ path[1] = "." => ~Rooted(Tail(path))
  /\ \A n \in 0 .. Len(path) : Depths(path)[n] >= 0

\* Where things of some sizes end that lie one behind the other.
Offsets(first, sizes) ==
  LET offset[n \in 0 .. Len(sizes)] == IF n = 0 THEN first ELSE offset[n - 1] + sizes[n]
  IN offset

TarOffsets(entries) ==
  Offsets(0, [n \in DOMAIN entries |-> TarBlock + RoundedUp(entries[n].size)])
TarSize(body) ==
  TarOffsets(body.entries)[Len(body.entries)] + IF body.ending = "zeros" THEN 2 * TarBlock ELSE 0

Controls(body) ==
  {n \in DOMAIN body.entries : SafeTarName(body.entries[n].path) = <<"control">>}

\* A control archive whose stream is within the limit, to the byte, has safe names
\* only, and at least one control file, each a regular file within the limit.
GoodControl(body) ==
  /\ body.intact /\ body.ending # "garbage"
  /\ TarSize(body) <= MaxControlArchiveSize
  /\ \A n \in DOMAIN body.entries : SafePath(body.entries[n].path)
  /\ Controls(body) # {}
  /\ \A n \in Controls(body) :
       body.entries[n].regular /\ body.entries[n].size <= MaxControlFileSize

\* The last control file counts.
ControlText(body) ==
  LET last == CHOOSE n \in Controls(body) : \A k \in Controls(body) : k <= n
  IN body.entries[last].text

\* The headers of the members of a file, the first behind the magic.
HeaderOffsets(members) ==
  Offsets(ArMagic, [n \in DOMAIN members |-> ArHeader + Padded(members[n].size)])
WholeLength(members) == HeaderOffsets(members)[Len(members)]

\* The lines of a control file: a name has parts, a continuation has a text, and
\* the texts of versions and of lists of dependencies are what PackageText says.
ControlLines(lines) ==
  LET fields == ParseParagraph(lines)
      texts(name) == LET value == ValueOf(fields, name) IN
                       IF value \in {Absent, EmptyValue} THEN {} ELSE ToSet(value)
  IN /\ Len(lines) \in Nat /\ lines = [n \in 1 .. Len(lines) |-> lines[n]]
     /\ \A n \in DOMAIN lines :
          /\ lines[n].kind = "field" => lines[n].name \in Seq(STRING) \ {<<>>}
          /\ lines[n].kind = "more" => lines[n].text # Blank
     /\ Parses(lines) => texts(<<"Version">>) \subseteq Seq(STRING)
     /\ \A list \in texts(<<"Depends">>) :
          /\ list \in Seq(Dependencies(Seq(Nat))) \ {<<>>}
          /\ \A n \in DOMAIN list : ~list[n].folded
     /\ \A list \in texts(<<"Conflicts">>) \ {Blank} : list \in Seq(Dependencies(Seq(Nat)))

\* A file is its members or the beginning of them.
ASSUME FilesAssumption ==
  \A f \in Files :
    /\ f.members \in Seq(ToSet(f.members))
    /\ \A n \in DOMAIN f.members :
         LET m == f.members[n] IN
           /\ m.size \in Nat
           /\ m.stem = "control.tar" =>
                /\ m.body.entries \in Seq(ToSet(m.body.entries))
                /\ m.body.ending \in {"zeros", "garbage", "nothing"}
                /\ \A k \in DOMAIN m.body.entries :
                     LET e == m.body.entries[k] IN
                       /\ e.size \in Nat /\ e.text # Absent /\ ControlLines(e.text)
                       /\ e.path \in Seq(ToSet(e.path)) /\ e.path # <<>>
    /\ f.length \in 0 .. WholeLength(f.members)

\* deb(5) as ReadPackage understands it: debian-binary first, then the control
\* archive, names with "_" around it ignored, then the data archive, and anything
\* after.
GoodBinary(m) ==
  /\ m.stem = "debian-binary" /\ m.suffix = Empty /\ m.size <= DebianBinaryLimit
  /\ m.body.major = 2 /\ m.body.dotted
GoodControlMember(m) ==
  /\ m.stem = "control.tar" /\ m.suffix \in Compressions
  /\ GoodControl(m.body) /\ Parses(ControlText(m.body))
IsPackage(members) ==
  /\ \A n \in DOMAIN members : members[n].valid
  /\ members # <<>> /\ GoodBinary(members[1])
  /\ \E c, d \in DOMAIN members :
       /\ 1 < c /\ c < d
       /\ GoodControlMember(members[c]) /\ members[d].stem = "data.tar"
       /\ \A n \in 2 .. d - 1 : n # c => members[n].stem = "_"

\* The file holds good members to their last byte; one that is cut just behind a
\* member is the shorter archive.
WellFormed(f) ==
  /\ f.magic
  /\ \E n \in 0 .. Len(f.members) :
       f.length = HeaderOffsets(f.members)[n] /\ IsPackage(SubSeq(f.members, 1, n))

-----------------------------------------------------------------------------
(* Properties.                                                             *)

\* The reader stays within the file, and has a package exactly when it has
\* accepted one; only what was accepted is in the index.
TypeOK ==
  /\ pos \in 0 .. file.length /\ left \in Nat
  /\ next \in 1 .. Len(file.members) + 1
  /\ state \in {"magic", "debian-binary", "control.tar", "data.tar", "trailer"}
  /\ pack # Absent <=> result \in {"accepted", "nameless"}
  /\ entry # Absent => result = "accepted"

\* ReadPackage accepts the well-formed files and no others, at every length a
\* file may be cut to, every order of members and every size about the limits;
\* only a context that ends makes it refuse a well-formed file.
AcceptsWellFormed ==
  /\ result \in {"accepted", "nameless"} => WellFormed(file)
  /\ WellFormed(file) => result \notin Errors

\* The lines of the control file the reader must have used.
ControlOf(f) ==
  LET first == CHOOSE n \in DOMAIN f.members :
                 /\ f.members[n].stem = "control.tar"
                 /\ \A k \in 1 .. n - 1 : f.members[k].stem # "control.tar"
  IN ControlText(f.members[first].body)

\* A name that stays what it is when the index is read again: not the name of
\* another field of the index, and not a user-defined name inside another.
PlainName(name) ==
  LET extra == ExtraName(name) IN
    extra = name \/ (extra \notin Known \cup {<<"">>} /\ ExtraName(extra) = extra)

\* What the re-reading of an index needs of a control file.
Conforming(lines) ==
  /\ \A n \in DOMAIN lines :
       /\ lines[n].kind = "field" => PlainName(lines[n].name)
       /\ lines[n].kind = "more" /\ lines[n].text = Dot => lines[n].indent = 1
  /\ LET depends == ValueOf(ParseParagraph(lines), <<"Depends">>)
         conflicts == ValueOf(ParseParagraph(lines), <<"Conflicts">>)
     IN depends \notin {Absent, EmptyValue} =>
          /\ \E d \in ToSet(ParseDependencies(depends)) : d.op # "!="
          /\ \A d \in ToSet(ParseDependencies(depends)) :
               ~d.folded /\ (d.op = "!=" => conflicts # <<Blank, Blank>>)

\* What a user-defined name becomes as the index is read again and again, each
\* time without its first prefix.
Becomes(name) ==
  {SubSeq(name, n, Len(name)) :
     n \in {k \in 2 .. Len(name) : \A i \in 1 .. k - 1 : name[i] \in UserPrefixes}}

\* The control file has a user-defined field that becomes a field of the index,
\* or one without a name.
Hides(lines) ==
  \E n \in DOMAIN lines :
    lines[n].kind = "field" /\ Becomes(lines[n].name) \cap (Known \cup {<<"">>}) # {}

\* The pool path is that of the package, and the size and the digests are those
\* of the whole file.
FieldsOfFile(lines) ==
  LET fields == ParseParagraph(lines)
      package == ValueOf(ParseParagraph(ControlOf(file)), <<"Package">>)
  IN /\ ValueOf(fields, <<"Filename">>) = << <<"pool", package[1]>> >>
     /\ \A name \in FileFields : ValueOf(fields, name) = <<Bytes(file.length)>>

\* Whatever the control file says of Filename, Size and the digests, and however
\* often the index is rewritten, the entry is read with those of the file; and it
\* can be read, with the version of the control file: its epoch, version and
\* iteration, for the text "-1" is rendered to "-1-". Only user-defined fields
\* under the names of the index may change them (FileFieldsNotCarriedOver).
EntryDescribesFile ==
  entry # Absent /\ ~Hides(control) =>
    LET version(lines) == ValueOf(ParseParagraph(lines), <<"Version">>)
    IN /\ FieldsOfFile(entry) /\ Parses(entry)
       /\ ParseVersion(version(entry)[1]) = ParseVersion(version(ControlOf(file))[1])

\* reader.go, "Filename, Size and the digests describe an entry in a Packages
\* index, not a control file. Carrying them over from a package under inspection
\* would let it pick the repository key [...] and claim digests that do not match
\* its bytes": of no control file are they carried over.
FileFieldsNotCarriedOver == entry # Absent => FieldsOfFile(entry)

\* A command that rewrites an index changes no entry but those it is about: the
\* entry of a conforming control file is rendered to the same lines again, with
\* its folded fields, user-defined fields and dependencies.
RepublishKeepsConforming ==
  [][entry # Absent /\ Conforming(control) => entry' = entry]_vars

\* The order of versions that are numbers between dots.
Below(v, w) ==
  \E n \in DOMAIN w :
    /\ n <= Len(v) + 1 /\ SubSeq(v, 1, n - 1) = SubSeq(w, 1, n - 1)
    /\ n \in DOMAIN v => v[n] < w[n]

Admits(relation, v) ==
  IF relation.op = ">=" THEN ~Below(v, relation.version) ELSE Below(v, relation.version)

\* For a dependency "~> 1.2.3" the index has relations that together admit, of the
\* versions of at least as many parts, those from 1.2.3 on that begin with 1.2, and
\* for "~> 1.2" those that begin with 1: normalizeDependency counts the parts of the
\* version. One part alone is left out: dependency_test.go has "<< 0" there.
PessimisticBounds ==
  entry # Absent /\ Conforming(control) =>
    LET relations == ParseDependencies(ValueOf(ParseParagraph(entry), <<"Depends">>))
        kept(v, part) == SubSeq(v, 1, Len(part) - 1) = SubSeq(part, 1, Len(part) - 1)
    IN \A d \in {d \in ToSet(pack.depends) : d.op = "~>" /\ Len(d.version) > 1} :
         LET bounds == ToSet(Normalized(d).depends) IN
         /\ bounds \subseteq ToSet(relations)
         /\ \A n \in {Len(d.version), Len(d.version) + 1} : \A v \in [1 .. n -> 0 .. 3] :
              (\A b \in bounds : Admits(b, v)) <=> ~Below(v, d.version) /\ kept(v, d.version)

\* TESTING.md, "Re-publishing round-trips the folded fields byte-for-byte": the
\* same of every control file.
RepublishKeeps == [][entry # Absent => entry' = entry]_vars
=============================================================================
