------------------------------ MODULE SSHConfig -------------------------------
(***************************************************************************)
(* The editor of ~/.ssh/config (internal/sshconfig).  A file is a sequence *)
(* of lines.  Of a line only what the editor looks at is kept: its kind,   *)
(* its argument (the pattern of a Host or Match line, the port of a        *)
(* RemoteForward line, a setting) and whose marker comment it carries; two *)
(* lines are equal iff their text is.  A block is a header and the lines   *)
(* to the next header, comments and blank lines included.                  *)
(***************************************************************************)
EXTENDS Integers, Sequences, FiniteSetsExt

CONSTANTS
  Alias,     \* names of hosts
  Port,      \* port numbers
  Setting,   \* other lines of the user: HostName, User, ...
  NoMark     \* a line without a pastelocal marker

ASSUME SSHConfigAssumption == NoMark \notin Alias

Line(kind, arg, mark) == [kind |-> kind, arg |-> arg, mark |-> mark]

Blank             == Line("blank", NoMark, NoMark)
HostLine(a)       == Line("host", a, NoMark)
Forward(port, m)  == Line("forward", port, m)

Lines ==
  {Blank} \cup [kind : {"host", "match"}, arg : Alias, mark : {NoMark}]
          \cup [kind : {"forward"}, arg : Port, mark : Alias \cup {NoMark}]
          \cup [kind : {"setting", "comment"}, arg : Setting, mark : {NoMark}]

IsHeader(l)  == l.kind \in {"host", "match"}
IsContent(l) == l.kind \notin {"blank", "comment"}

\* Parse: a file of one empty line is an empty file.
Parse(file) == IF file = <<Blank>> THEN <<>> ELSE file

\* FindBlock: where the first block of that name starts, 0 if there is none.
\* The first line with the text of its header is that header (blockStartLine).
BlockStart(file, alias) ==
  LET headers == {i \in DOMAIN file : IsHeader(file[i]) /\ file[i].arg = alias}
  IN IF headers = {} THEN 0 ELSE Min(headers)

\* The line after the block that starts at line start.
BlockLimit(file, start) ==
  Min({i \in start + 1..Len(file) : IsHeader(file[i])} \cup {Len(file) + 1})

ForwardsIn(file, start, port) ==
  {i \in start..BlockLimit(file, start) - 1 : file[i].kind = "forward" /\ file[i].arg = port}

Ours(file, alias, port) ==
  LET start == BlockStart(file, alias)
  IN IF start = 0 THEN {}
     ELSE {i \in ForwardsIn(file, start, port) : file[i].mark = alias}

HasRemoteForward(file, alias, port) == Ours(file, alias, port) # {}

-----------------------------------------------------------------------------
\* A mistaken variant: the new line comes at the end of the file.
InsertAtEnd(file, start) == Len(file) + 1

\* The new line comes after the last content line of the block, but right after
\* the header if that line is the last one before the next block.
InsertIndex(file, start) ==
  LET limit   == BlockLimit(file, start)
      content == {i \in start + 1..limit - 1 : IsContent(file[i])}
  IN IF content # {} /\ Max(content) + 1 < limit THEN Max(content) + 1 ELSE start + 1

Conflicts(file, alias, port) ==
  LET start == BlockStart(file, alias)
      same  == ForwardsIn(file, start, port)
  IN start # 0 /\ same # {} /\ file[Min(same)].mark # alias

\* AddRemoteForward, when nothing conflicts.
AddRemoteForward(file, alias, port) ==
  LET start == BlockStart(file, alias)
      new   == Forward(port, alias)
      gap   == IF file # <<>> /\ file[Len(file)] # Blank THEN <<Blank>> ELSE <<>>
      at    == InsertIndex(file, start)
  IN IF start = 0
     THEN file \o gap \o <<HostLine(alias), new>>
     ELSE IF ForwardsIn(file, start, port) # {} THEN file
     ELSE SubSeq(file, 1, at - 1) \o <<new>> \o SubSeq(file, at, Len(file))

Cut(file, first, last) == SubSeq(file, 1, first - 1) \o SubSeq(file, last + 1, Len(file))

\* removeBlock: the blank line before the header goes, those at the end stay.
RemoveBlock(file, start) ==
  LET limit == BlockLimit(file, start)
      last  == Max({i \in start..limit - 1 : i = start \/ file[i] # Blank})
  IN Cut(file, IF start > 1 /\ file[start - 1] = Blank THEN start - 1 ELSE start, last)

\* A mistaken variant: the block goes with whatever else it holds.
RemoveWholeBlock(file, alias, port) ==
  IF HasRemoteForward(file, alias, port) THEN RemoveBlock(file, BlockStart(file, alias)) ELSE file

\* RemoveRemoteForward: a block that has only its header left goes, comments
\* included; else the first line with that text goes, in whatever block it is.
RemoveRemoteForward(file, alias, port) ==
  LET start   == BlockStart(file, alias)
      found   == Min(Ours(file, alias, port))
      content == {i \in start..BlockLimit(file, start) - 1 : IsContent(file[i]) /\ i # found}
      first   == Min({i \in DOMAIN file : file[i] = file[found]})
  IN IF ~HasRemoteForward(file, alias, port) THEN file
     ELSE IF Cardinality(content) <= 1 THEN RemoveBlock(file, start)
     ELSE Cut(file, first, first)

\* The user's own settings in their order, each with the header it stands under:
\* no blank lines, comments or lines of pastelocal.
UserSettings(file) ==
  LET own == {i \in DOMAIN file : /\ IsContent(file[i]) /\ ~IsHeader(file[i])
                                  /\ file[i].mark = NoMark}
      header(i) == Max({0} \cup {j \in 1..i : IsHeader(file[j])})
      rank(i)   == Cardinality({j \in own : j <= i})
  IN {<<rank(i), file[i], IF header(i) = 0 THEN Blank ELSE file[header(i)]>> : i \in own}
=============================================================================
