------------------------------ MODULE MCIntake ------------------------------
(***************************************************************************)
(* Package files: every order of a few members, every length of some of    *)
(* them, control archives about their limits, and control files.           *)
(***************************************************************************)
EXTENDS Intake

CONSTANT Word  \* any other text

UpTo(S, n) == UNION {[1 .. m -> S] : m \in 0 .. n}

Field(name, text) == FieldLine(<<name>>, text)
Extra(prefix, name, text) == FieldLine(<<prefix, name>>, text)

\* Control files.
One == <<"1">>
Start == <<Field("Package", Word), Field("Version", One), Field("Description", Word)>>

FoldedLines ==
  { Field("Tag", Word), Field("Tag", Blank), Extra("XB", "Tag", Word), Field("Section", Word),
    Extra("XB", "Section", Word), FieldLine(<<"XB", "XS", "Tag">>, Word),
    Field("Filename", Word), Extra("XBCS", "Filename", Word), Field("Size", Word),
    Extra("X", "", Word), FieldLine(<<"">>, Word), [kind |-> "junk"],
    MoreLine(1, Word), MoreLine(1, Dot), MoreLine(2, Word), MoreLine(2, Dot) }

Dep(op, version, paren) ==
  [name |-> [word |-> "a", upper |-> ~paren, underscore |-> ~paren], op |-> op,
   version |-> version, paren |-> paren, folded |-> FALSE]
DependencyTexts ==
  { Dep("", <<>>, TRUE), Dep("<", <<1>>, TRUE), Dep("<", <<1>>, FALSE), Dep("~>", <<1>>, TRUE),
    Dep("~>", <<1, 2>>, TRUE), Dep("~>", <<1, 0, 2>>, FALSE), Dep("!=", <<1>>, TRUE) }
Relations ==
  {Field("Depends", list) : list \in UpTo(DependencyTexts, 2) \ {<<>>}}
    \cup {Field("Depends", Blank), Field("Conflicts", Blank), Field("Conflicts", <<Dep("", <<>>, TRUE)>>)}
    \cup {MoreLine(1, <<d>>) : d \in DependencyTexts}

Versions ==
  {<<Field("Version", v)>> : v \in {Blank, One, <<"1", ":">>, <<"-", "1">>, <<"1", "-">>,
                                     <<"1", ":", "1", "-", "1">>, <<"1", "-", "1", "-", "1">>}}
    \cup {<<>>, <<Field("Version", One), MoreLine(1, Word)>>}
Names == {<<>>, <<Field("Package", Blank)>>, <<Field("Package", Word)>>}

ControlFiles ==
  {Start \o lines : lines \in UpTo(FoldedLines, 3)}
    \cup {Start \o <<Field("Depends", <<Dep("", <<>>, TRUE)>>)>> \o lines : lines \in UpTo(Relations, 1)}
    \cup {Start \o lines : lines \in {l \in UpTo(Relations, 2) : l # <<>> => l[1].kind = "field"}}
    \cup {Start \o <<Field("Conflicts", Blank), MoreLine(1, Dot)>> \o lines : lines \in UpTo(Relations, 1)}
    \cup {n \o v : n \in Names, v \in Versions}
    \cup {Start \o <<Extra("XB", "Version", v)>> : v \in {Blank, One}}

\* Members.
ArMember(stem, suffix, size, body) ==
  [valid |-> TRUE, stem |-> stem, suffix |-> suffix, size |-> size, body |-> body]
NoBody == [major |-> 0, dotted |-> FALSE]
Binary == ArMember("debian-binary", "", 4, [major |-> 2, dotted |-> TRUE])
Data == ArMember("data.tar", ".xz", 3, NoBody)
Ignored == ArMember("_", "gpgbuilder", 1, NoBody)
Other == ArMember("other", "", 2, NoBody)
Control(body) == ArMember("control.tar", ".gz", 5, body)

Entry(path, size, text) == [path |-> path, regular |-> TRUE, size |-> size, text |-> text]
ControlEntry(size) == Entry(<<".", "control">>, size, Start)
Tar(entries) == [intact |-> TRUE, entries |-> entries, ending |-> "zeros"]
PlainTar == Tar(<<ControlEntry(100)>>)

Whole(members) ==
  [magic |-> TRUE, members |-> members, length |-> WholeLength(members)]
WithControl(body) == Whole(<<Binary, Control(body), Data>>)

\* Every order of up to four members, and members that are not what they should be.
Binaries ==
  { [Binary EXCEPT !.size = 32], [Binary EXCEPT !.size = 33], [Binary EXCEPT !.body.major = 3],
    [Binary EXCEPT !.body.dotted = FALSE], [Binary EXCEPT !.suffix = "-2"], [Binary EXCEPT !.valid = FALSE] }
Archives ==
  {Whole(m) : m \in UpTo({Binary, Control(PlainTar), Data, Ignored, Other}, 4)}
    \cup {Whole(<<b, Control(PlainTar), Data>>) : b \in Binaries}
    \cup {Whole(<<Binary, [Control(PlainTar) EXCEPT !.suffix = s], Data>>) : s \in {"", ".zst", ".lzma"}}
    \cup {Whole(<<Binary, Control(PlainTar), Data, [Other EXCEPT !.valid = FALSE]>>)}
    \cup {[Whole(<<Binary>>) EXCEPT !.magic = FALSE]}

\* A file cut to every length.
CutFiles ==
  LET f == Whole(<<Binary, Ignored, Control(PlainTar), Data, Other>>)
      g == Whole(<<Binary, Control(PlainTar), Data>>)
  IN {[f EXCEPT !.length = n] : n \in 0 .. f.length} \cup {[g EXCEPT !.length = n] : n \in 0 .. g.length}

\* Control archives: names, sizes about both limits, two control files, endings.
Paths ==
  { <<"control">>, <<"md5sums">>, <<".", "">>, <<"">>, <<"", "control">>, <<"..", "control">>,
    <<".", "", "control">>, <<".", ".", "control">>, <<"a", "..", "control">>,
    <<"a", "..", "..", "a", "control">>, <<"a", "", "..", "..", "control">> }
Entries ==
  {Entry(p, 100, Start) : p \in Paths}
    \cup {ControlEntry(size) : size \in {512, 600, 601, 1200}}
    \cup {Entry(<<"md5sums">>, size, Start) : size \in {512, 513, 2048}}
    \cup {Entry(<<"control">>, 0, <<>>),
          [ControlEntry(10) EXCEPT !.regular = FALSE],
          [ControlEntry(10) EXCEPT !.text = SubSeq(Start, 1, 1)]}
ControlArchives ==
  {WithControl([intact |-> i, entries |-> e, ending |-> z]) :
     i \in {TRUE}, e \in UpTo(Entries, 2), z \in {"zeros", "nothing", "garbage"}}
    \cup {WithControl([PlainTar EXCEPT !.intact = FALSE])}

AllFiles ==
  Archives \cup CutFiles \cup ControlArchives
    \cup {WithControl(Tar(<<Entry(<<"control">>, 100, lines)>>)) : lines \in ControlFiles}

\* The folded fields of the demonstration and their neighbours.
FoldedFiles ==
  {WithControl(Tar(<<Entry(<<"control">>, 100, Start \o lines)>>)) :
     lines \in UpTo({Field("Tag", Word), MoreLine(1, Word), MoreLine(1, Dot), MoreLine(2, Word),
                     MoreLine(2, Dot)}, 3)}

\* User-defined fields under the names of the index.
NamedFiles ==
  LET extras == {FieldLine(Append(prefixes, name), Word) :
                   prefixes \in {<<"X">>, <<"XB">>, <<"XB", "XS">>}, name \in {"Tag", "Size", "Filename"}}
  IN {WithControl(Tar(<<Entry(<<"control">>, 100, Start \o lines)>>)) : lines \in UpTo(extras, 2)}
=============================================================================
