------------------------------ MODULE DebReader ------------------------------
(***************************************************************************)
(* ReadPackageFile: one pass over a Debian package, an ar archive of       *)
(* members, the second of which holds the control file in a tar archive.   *)
(*                                                                         *)
(*   file     [magic, members, length]: whether it begins with the magic   *)
(*            of ar, its members, and how many of its bytes there are, for *)
(*            a file may be cut short                                      *)
(*   member   [valid, stem, suffix, size, body]: whether its header is     *)
(*            well-formed, its name, its bytes; the name is cut after the  *)
(*            prefix that the reader looks for, "_" is any name with it    *)
(*   body     of debian-binary: [major, dotted], its version;              *)
(*            of a control archive: [intact, entries, ending], the tar     *)
(*            stream in it: whether it decompresses, its entries, and the  *)
(*            "zeros", "garbage" or "nothing" after them                   *)
(*   entry    [path, regular, size, text]: the name between its slashes,   *)
(*            the type and the bytes, and the lines if it is a control     *)
(*            file                                                         *)
(*                                                                         *)
(* One action is one call of arReader.Next and what is done with its       *)
(* member.                                                                 *)
(***************************************************************************)
EXTENDS PackageText, FiniteSets

CONSTANTS
  Files,                 \* the files that may be read
  MaxControlArchiveSize, \* the limits, in bytes
  MaxControlFileSize

ASSUME LimitsAssumption ==
  MaxControlArchiveSize \in Nat \ {0} /\ MaxControlFileSize \in Nat \ {0}

VARIABLES
  file,
  pos,     \* bytes read, which are the bytes hashed and counted
  left,    \* remaining and padding of the current member
  next,    \* the member whose header comes next
  state,   \* of the loop: what has been seen
  control, \* the lines of the control file
  result,  \* "reading", "accepted" or the kind of the error
  pack     \* the Package that is returned

readerVars == <<file, pos, left, next, state, control, result, pack>>

ArMagic == 8
ArHeader == 60
TarBlock == 512
DebianBinaryLimit == 32
Padded(size) == size + (size % 2)

Empty == ""  \* a name of nothing

\* What is wrong with a file.
Errors == {"format", "too large", "missing", "unsupported", "unparsed"}

Init ==
  /\ file \in Files
  /\ pos = 0
  /\ left = 0
  /\ next = 1
  /\ state = "magic"
  /\ control = <<>>
  /\ result = "reading"
  /\ pack = Absent

Fails(kind) ==
  result' = kind /\ UNCHANGED <<file, pos, left, next, state, control, pack>>

-----------------------------------------------------------------------------
(* The control archive.                                                    *)

Unsafe == <<"..">>

\* path.Clean drops empty and "." segments and lets ".." take back the segment
\* before it.
Clean(segments, segment) ==
  CASE segment \in {Empty, "."} -> segments
    [] segment = ".." /\ segments # <<>> /\ Last(segments) # ".." -> Front(segments)
    [] OTHER -> Append(segments, segment)
Cleaned(path) ==
  LET clean[n \in 0 .. Len(path)] == IF n = 0 THEN <<>> ELSE Clean(clean[n - 1], path[n])
  IN clean[Len(path)]

Rooted(path) == Len(path) > 1 /\ path[1] = Empty

\* safeTarName: "./" is cut off first.
SafeTarName(path) ==
  LET relative == IF Len(path) > 1 /\ path[1] = "." THEN Tail(path) ELSE path
      cleaned == Cleaned(relative)
  IN IF path = <<Empty>> \/ Rooted(path) \/ Rooted(relative) \/ (cleaned # <<>> /\ cleaned[1] = "..")
     THEN Unsafe ELSE cleaned

RoundedUp(size) == ((size + TarBlock - 1) \div TarBlock) * TarBlock

\* sizeLimitedReader lets the first bytes pass and fails with the byte after the
\* limit, if there is one.
WithinLimitExclusive(bytes) == bytes < MaxControlArchiveSize  \* mutant
WithinLimit(bytes) == bytes <= MaxControlArchiveSize

\* readControlTar after the entries before e, at the byte at: a later control
\* file replaces an earlier one.
ReadEntry(tar, e) ==
  LET isControl == SafeTarName(e.path) = <<"control">>
      stops(kind) == [tar EXCEPT !.result = kind]
  IN IF tar.result # "reading" THEN tar
     ELSE IF ~WithinLimit(tar.at + TarBlock) THEN stops("too large")
     ELSE IF SafeTarName(e.path) = Unsafe \/ (isControl /\ ~e.regular) THEN stops("format")
     ELSE IF isControl /\ (e.size > MaxControlFileSize \/ ~WithinLimit(tar.at + TarBlock + e.size))
          THEN stops("too large")
     ELSE [tar EXCEPT !.at = @ + TarBlock + RoundedUp(e.size),
                      !.text = IF isControl THEN e.text ELSE @]

ReadEntries(entries) ==
  LET tar[n \in 0 .. Len(entries)] ==
        IF n = 0 THEN [result |-> "reading", at |-> 0, text |-> Absent]
        ELSE ReadEntry(tar[n - 1], entries[n])
  IN tar[Len(entries)]

\* The end of the stream, or the two blocks of zeros before it.
ReadControlTar(body) ==
  LET tar == ReadEntries(body.entries)
      end == tar.at + CASE body.ending = "zeros" -> 2 * TarBlock
                        [] body.ending = "garbage" -> TarBlock
                        [] body.ending = "nothing" -> 0
  IN CASE ~body.intact -> [tar EXCEPT !.result = "format"]
       [] body.intact /\ tar.result # "reading" -> tar
       [] OTHER -> [tar EXCEPT !.result =
                      CASE ~WithinLimit(end) -> "too large"
                        [] WithinLimit(end) /\ body.ending = "garbage" -> "format"
                        [] WithinLimit(end) /\ body.ending # "garbage" /\ tar.text = Absent -> "missing"
                        [] OTHER -> "reading"]

Compressions == {"", ".gz", ".xz", ".zst", ".bz2"}

-----------------------------------------------------------------------------
(* The members.                                                            *)

ReadMagic ==
  /\ result = "reading" /\ state = "magic"
  /\ \/ /\ file.length < ArMagic \/ ~file.magic
        /\ Fails("format")
     \/ /\ file.length >= ArMagic /\ file.magic
        /\ pos' = ArMagic /\ state' = "debian-binary"
        /\ UNCHANGED <<file, left, next, control, result, pack>>

\* Where the next header begins, after the rest of the member and its padding.
HeaderAt == pos + left
PaddingIgnored ==  \* mutant
  \/ HeaderAt > file.length + 1
  \/ HeaderAt < file.length /\ HeaderAt + ArHeader > file.length
Truncated ==
  \/ HeaderAt > file.length
  \/ HeaderAt < file.length /\ HeaderAt + ArHeader > file.length

InMembers == result = "reading" /\ state # "magic"

BadArchive ==
  /\ InMembers
  /\ \/ Truncated
     \/ ~Truncated /\ HeaderAt < file.length /\ ~file.members[next].valid
  /\ Fails("format")

AtMember(s) ==
  /\ InMembers /\ state = s
  /\ ~Truncated /\ HeaderAt < file.length /\ file.members[next].valid

Member == file.members[next]
BodyAt == HeaderAt + ArHeader
BodyComplete == BodyAt + Member.size <= file.length

\* The header is read and consumed bytes of the member.
Advance(consumed) ==
  /\ pos' = BodyAt + consumed
  /\ left' = Padded(Member.size) - consumed
  /\ next' = next + 1
  /\ UNCHANGED <<file, result, pack>>

DebianBinary ==
  /\ AtMember("debian-binary")
  /\ LET accepted == /\ Member.stem = "debian-binary" /\ Member.suffix = Empty
                     /\ Member.size <= DebianBinaryLimit
                     /\ BodyComplete
                     /\ Member.body.major = 2 /\ Member.body.dotted
     IN \/ ~accepted /\ Fails("format")
        \/ /\ accepted
           /\ Advance(Member.size)
           /\ state' = "control.tar" /\ UNCHANGED control

\* A member between the required ones whose name begins with "_".
Skip ==
  /\ \E s \in {"control.tar", "data.tar"} : AtMember(s)
  /\ Member.stem = "_"
  /\ Advance(0)
  /\ UNCHANGED <<state, control>>

Unexpected ==
  /\ \E s \in {"control.tar", "data.tar"} : AtMember(s) /\ Member.stem \notin {"_", s}
  /\ Fails("format")

\* A decompressor may leave bytes of the member unread; in a member that is cut
\* short it meets the end, unless the tar archive ends before.
ControlArchive ==
  /\ AtMember("control.tar") /\ Member.stem = "control.tar"
  /\ LET tar == ReadControlTar(Member.body)
         there == IF BodyComplete THEN Member.size ELSE file.length - BodyAt
     IN \/ Member.suffix \notin Compressions /\ Fails("unsupported")
        \/ Member.suffix \in Compressions /\ tar.result # "reading" /\ Fails(tar.result)
        \/ Member.suffix \in Compressions /\ ~BodyComplete /\ Fails("format")
        \/ /\ Member.suffix \in Compressions /\ tar.result = "reading"
           /\ \E consumed \in {there - 1, there} \cap Nat : Advance(consumed)
           /\ state' = "data.tar" /\ control' = tar.text

DataArchive ==
  /\ AtMember("data.tar") /\ Member.stem = "data.tar"
  /\ Advance(0)
  /\ state' = "trailer" /\ UNCHANGED control

TrailingMember ==
  /\ AtMember("trailer")
  /\ Advance(0)
  /\ UNCHANGED <<state, control>>

\* What the file says about itself: its bytes up to a position.
Bytes(n) == <<"bytes", n>>
FileFields == {<<"Size">>, <<"SHA1">>, <<"SHA256">>, <<"MD5sum">>}

\* Filename, Size and digests are those of an index entry: what the control file
\* says of them is dropped, and ReadPackageFile sets what it has read.
InspectedKeepingFilename(lines, read) ==  \* mutant
  [ParsePackage(lines) EXCEPT
     !.known = [n \in DOMAIN @ |-> IF n \in FileFields THEN <<Bytes(read)>> ELSE @[n]]]
Inspected(lines, read) ==
  [ParsePackage(lines) EXCEPT
     !.known = [n \in DOMAIN @ |-> CASE n = <<"Filename">> -> Absent
                                     [] n \in FileFields -> <<Bytes(read)>>
                                     [] OTHER -> @[n]]]

EndOfArchive ==
  /\ InMembers /\ ~Truncated /\ HeaderAt >= file.length
  /\ \/ state = "debian-binary" /\ Fails("format")
     \/ state \in {"control.tar", "data.tar"} /\ Fails("missing")
     \/ state = "trailer" /\ ~Parses(control) /\ Fails("unparsed")
     \/ /\ state = "trailer" /\ Parses(control)
        /\ result' = "accepted"
        /\ pos' = HeaderAt /\ left' = 0
        /\ pack' = Inspected(control, HeaderAt)
        /\ UNCHANGED <<file, next, state, control>>

\* The context ends before a read; a decompressor that is being opened reports it
\* as an error of its own.
Cancelled ==
  /\ result = "reading"
  /\ \E kind \in {"cancelled"} \cup (IF state = "control.tar" THEN {"not opened"} ELSE {}) :
       Fails(kind)

Read ==
  \/ ReadMagic \/ BadArchive \/ DebianBinary \/ Skip \/ Unexpected \/ ControlArchive
  \/ DataArchive \/ TrailingMember \/ EndOfArchive \/ Cancelled
=============================================================================
