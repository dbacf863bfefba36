----------------------------- MODULE PackageText -----------------------------
(***************************************************************************)
(* The text of a package: a control paragraph, the Package that internal/  *)
(* apt makes of it, and the paragraph of a Packages index it is rendered   *)
(* to.                                                                     *)
(*                                                                         *)
(*   line       [kind, ...], without its line end:                         *)
(*                "field" with a name and the text after the colon,        *)
(*                "more", a continuation, with its indentation and the     *)
(*                text after it, "junk" for a line that is neither         *)
(*   text       Blank, Dot (a single period), a word, the tokens of a      *)
(*              version, or the dependencies between the commas of a line  *)
(*   value      the sequence of the texts of its lines: <<Blank>> is the   *)
(*              empty string                                               *)
(*   name       the parts between its dashes: <<"Pre", "Depends">>         *)
(*   paragraph  a sequence of [name, value], no name twice                 *)
(*   dependency [name, op, version, paren, folded]; paren is FALSE for the *)
(*              form "a < 1", op is "" for a name alone; folded is TRUE if *)
(*              a line break comes before it (FALSE in a text, where every *)
(*              line of a list but the last ends with a comma)             *)
(***************************************************************************)
EXTENDS Integers, Sequences, SequencesExt

CONSTANTS
  Blank,       \* the empty text
  Dot,         \* the text of a line that stands for an empty one
  Absent,      \* a field that is not there
  Placeholder  \* the texts of License, Vendor, Homepage and Description by default

EmptyValue == <<Blank>>

Mapped(s, f(_)) == [n \in DOMAIN s |-> f(s[n])]

-----------------------------------------------------------------------------
(* Paragraph.                                                              *)

Has(fields, name) == \E n \in DOMAIN fields : fields[n].name = name
PlaceOf(fields, name) == CHOOSE n \in DOMAIN fields : fields[n].name = name

\* Paragraph.set: a field that is there keeps its place.
SetField(fields, name, value) ==
  IF Has(fields, name)
  THEN [fields EXCEPT ![PlaceOf(fields, name)] = [name |-> name, value |-> value]]
  ELSE Append(fields, [name |-> name, value |-> value])

\* Paragraph.Get.
ValueOf(fields, name) ==
  IF Has(fields, name) THEN fields[PlaceOf(fields, name)].value ELSE Absent

\* A continuation line added to a value.
Continued(value, line) ==
  IF line.indent = 1 /\ line.text = Dot THEN Append(value, Blank)
  ELSE IF value = EmptyValue THEN <<line.text>>
  ELSE Append(value, line.text)

\* A line without a name before its colon is not a field.
IsField(line) == line.kind = "field" /\ line.name # <<"">>

\* What was read so far: the fields, and the one whose value is not complete.
Committed(p) == IF p.name = Absent THEN p.fields ELSE SetField(p.fields, p.name, p.value)

ReadLine(p, line) ==
  IF line.kind = "more" /\ p.name # Absent THEN [p EXCEPT !.value = Continued(@, line)]
  ELSE IF IsField(line)
       THEN [fields |-> Committed(p), name |-> line.name, value |-> <<line.text>>]
  ELSE p

ReadLines(p, lines) ==
  LET read[n \in 0 .. Len(lines)] == IF n = 0 THEN p ELSE ReadLine(read[n - 1], lines[n])
  IN read[Len(lines)]

ParseParagraph(lines) ==
  Committed(ReadLines([fields |-> <<>>, name |-> Absent, value |-> EmptyValue], lines))

\* splitValueLines, and the empty first line of an empty value.
WithoutTrailingBlanks(value) ==
  SubSeq(value, 1, Max({1} \cup {n \in DOMAIN value : value[n] # Blank}))

FieldLine(name, text) == [kind |-> "field", name |-> name, text |-> text]
MoreLine(indent, text) == [kind |-> "more", indent |-> indent, text |-> text]

\* writeField folds a value.
WriteField(name, value) ==
  LET texts == WithoutTrailingBlanks(value)
  IN <<FieldLine(name, texts[1])>>
       \o Mapped(Tail(texts), LAMBDA text : MoreLine(1, IF text = Blank THEN Dot ELSE text))

-----------------------------------------------------------------------------
(* Versions and dependencies.                                              *)

\* Dependencies on any name, with versions out of a set.
Ops == {"", "<", "<<", "<=", "=", "!=", ">", ">=", ">>", "~>"}
Dependencies(Version) ==
  [name : [word : STRING, upper : BOOLEAN, underscore : BOOLEAN],
   op : Ops, version : Version, paren : BOOLEAN, folded : BOOLEAN]

ParseVersion(v) ==
  LET epoch == IF Len(v) > 2 /\ v[1] = "1" /\ v[2] = ":" THEN <<v[1]>> ELSE <<>>
      rest == IF epoch = <<>> THEN v ELSE SubSeq(v, 3, Len(v))
      dashes == {n \in 2 .. Len(rest) : rest[n] = "-"}
  IN [epoch |-> epoch,
      version |-> IF dashes = {} THEN rest ELSE SubSeq(rest, 1, Min(dashes) - 1),
      iteration |-> IF dashes = {} THEN <<>> ELSE SubSeq(rest, Min(dashes) + 1, Len(rest)),
      iterationPresent |-> Contains(rest, "-")]

FullVersion(v) ==
  (IF v.epoch = <<>> THEN <<>> ELSE Append(v.epoch, ":"))
    \o v.version
    \o (IF v.iterationPresent THEN <<"-">> \o v.iteration ELSE <<>>)

\* A folded value is one list. Only what dependencyPattern does not match keeps
\* the line break before it, and of that only "(!= 1)" is sensitive to it.
ParseDependencies(value) ==
  LET line(n) == [value[n] EXCEPT ![1].folded = n > 1 /\ value[n][1].op = "!=" /\ value[n][1].paren]
  IN IF value = EmptyValue THEN <<>> ELSE FlattenSeq([n \in DOMAIN value |-> line(n)])

\* "(< 1)" keeps its operator, "< 1" gets the one of Debian.
Debianized(op) == CASE op = "<" -> "<<" [] op = ">" -> ">>" [] OTHER -> op

\* The first version that a ~> dependency excludes.
UpperBoundWithLast(version) ==  \* mutant
  LET n == Len(version) IN [version EXCEPT ![IF n < 2 THEN 1 ELSE n - 1] = @ + 1]
UpperBound(version) ==
  LET n == Len(version)
      increment == IF n < 2 THEN 1 ELSE n - 1
  IN [[version EXCEPT ![increment] = @ + 1] EXCEPT ![n] = 0]

\* Joined again, a line break begins a line.
Joined(value, d) ==
  CASE d.folded -> Append(value, <<[d EXCEPT !.folded = FALSE]>>)
    [] ~d.folded /\ value = EmptyValue -> <<<<d>>>>
    [] OTHER -> Append(Front(value), Append(Last(value), d))
DependsValue(depends) ==
  LET joined[n \in 0 .. Len(depends)] ==
        IF n = 0 THEN EmptyValue ELSE Joined(joined[n - 1], depends[n])
  IN joined[Len(depends)]

\* What a dependency becomes: a list in Depends and a list in Conflicts.
InequalityKept(d) == [depends |-> <<d>>, conflicts |-> <<[d EXCEPT !.op = "="]>>]  \* mutant
Inequality(d) == [depends |-> <<>>, conflicts |-> <<[d EXCEPT !.op = "="]>>]

Normalized(dep) ==
  LET d == [dep EXCEPT !.name = [@ EXCEPT !.upper = FALSE, !.underscore = FALSE],
                       !.op = IF dep.paren THEN @ ELSE Debianized(@),
                       !.paren = TRUE]
  IN CASE d.op = "~>" -> [depends |-> <<[d EXCEPT !.op = ">="],
                                        [d EXCEPT !.op = "<<", !.version = UpperBound(@)]>>,
                          conflicts |-> <<>>]
       [] d.op = "!=" /\ ~d.folded -> Inequality(d)
       [] OTHER -> [depends |-> <<d>>, conflicts |-> <<>>]

DependsOf(dependencies) == FlattenSeq(Mapped(dependencies, LAMBDA d : Normalized(d).depends))
ConflictsOf(dependencies) == FlattenSeq(Mapped(dependencies, LAMBDA d : Normalized(d).conflicts))

-----------------------------------------------------------------------------
(* Package.                                                                *)

\* The fields of a Package, in the order in which Render writes them.
Order ==
  << <<"Package">>, <<"Version">>, <<"License">>, <<"Vendor">>, <<"Architecture">>,
     <<"Maintainer">>, <<"Installed", "Size">>, <<"Depends">>, <<"Conflicts">>, <<"Breaks">>,
     <<"Pre", "Depends">>, <<"Provides">>, <<"Replaces">>, <<"Recommends">>, <<"Suggests">>,
     <<"Enhances">>, <<"Section">>, <<"Origin">>, <<"Priority">>, <<"Homepage">>,
     <<"Filename">>, <<"Size">>, <<"SHA1">>, <<"SHA256">>, <<"MD5sum">>, <<"Description">> >>
Known == ToSet(Order)

\* What is written for fields that the package does not have.
Default(name) ==
  CASE name \in {<<"License">>, <<"Vendor">>, <<"Homepage">>, <<"Description">>} -> <<Placeholder>>
    [] name \in {<<"Package">>, <<"Architecture">>, <<"Maintainer">>, <<"Installed", "Size">>,
                 <<"Section">>, <<"Priority">>} -> EmptyValue
    [] OTHER -> Absent

\* The X before the first dash of a user-defined field, and up to three letters
\* that say where it goes.
UserPrefixes ==
  LET with(prefixes) == {p \o letter : p \in prefixes, letter \in {"B", "C", "S"}}
  IN {"X"} \cup with({"X"}) \cup with(with({"X"})) \cup with(with(with({"X"})))
ExtraName(name) == IF Len(name) > 1 /\ name[1] \in UserPrefixes THEN Tail(name) ELSE name

\* The one line that versionPattern matches.
Parses(lines) ==
  LET version == ValueOf(ParseParagraph(lines), <<"Version">>)
  IN version # Absent /\ version # EmptyValue /\ Len(version) = 1

\* The fields that are left, under their names without prefix.
ExtraFields(fields) ==
  LET extra[n \in 0 .. Len(fields)] ==
        IF n = 0 THEN <<>>
        ELSE IF fields[n].name \in Known THEN extra[n - 1]
        ELSE SetField(extra[n - 1], ExtraName(fields[n].name), fields[n].value)
  IN extra[Len(fields)]

ParsePackage(lines) ==
  LET fields == ParseParagraph(lines)
      depends == ValueOf(fields, <<"Depends">>)
  IN [version |-> ParseVersion(ValueOf(fields, <<"Version">>)[1]),
      known |-> [n \in Known \ {<<"Version">>, <<"Depends">>} |-> ValueOf(fields, n)],
      depends |-> IF depends = Absent THEN <<>> ELSE ParseDependencies(depends),
      extra |-> ExtraFields(fields)]

\* A package without a Filename needs a name for its pool path.
RepositoryFilename(pack) ==
  IF pack.known[<<"Filename">>] # Absent THEN pack.known[<<"Filename">>]
  ELSE <<<<"pool", pack.known[<<"Package">>][1]>>>>
HasRepositoryFilename(pack) ==
  pack.known[<<"Filename">>] # Absent \/ pack.known[<<"Package">>] \notin {Absent, EmptyValue}

\* Conflicts, and the inequalities of Depends after it.
AllConflicts(value, conflicts) ==
  IF conflicts = <<>> THEN value
  ELSE IF value = Absent THEN <<conflicts>>
  ELSE Append(Front(value), (IF Last(value) = Blank THEN <<Blank>> ELSE Last(value)) \o conflicts)

Optional(name, value) == IF value = Absent THEN <<>> ELSE WriteField(name, value)

\* The value of a field in the index, Absent if the field is left out.
Rendered(pack, name) ==
  CASE name = <<"Version">> -> <<FullVersion(pack.version)>>
    [] name = <<"Depends">> ->
         IF pack.depends = <<>> THEN Absent ELSE DependsValue(DependsOf(pack.depends))
    [] name = <<"Conflicts">> -> AllConflicts(pack.known[name], ConflictsOf(pack.depends))
    [] name = <<"Filename">> -> RepositoryFilename(pack)
    [] OTHER -> IF pack.known[name] = Absent THEN Default(name) ELSE pack.known[name]

Render(pack) ==
  FlattenSeq(Mapped(Order, LAMBDA name : Optional(name, Rendered(pack, name))))
    \o FlattenSeq(Mapped(pack.extra, LAMBDA f : WriteField(f.name, f.value)))
=============================================================================
