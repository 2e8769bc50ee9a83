-------------------------------- MODULE VoyConf --------------------------------
(***************************************************************************)
(* voy_conf.c: from the lines of the configuration file to the default     *)
(* server and the virtual hosts. A line is a sequence of tokens: the words *)
(* of the syntax, names and values, Space for any white space. It ends     *)
(* with its line end, but for the last of a file. Allocations succeed.     *)
(***************************************************************************)
EXTENDS VoyStrText

CONSTANTS
  Files,      \* the files, each a sequence of lines
  LineBuf,    \* VOY_CONF_LINE_BUF_SIZE, in tokens
  Short,      \* the words of one character
  Number,     \* the words that read as a number, and the number
  NULL

CommentSign == "#"
Equal       == "="
Brace       == "}"
Vhost       == "vhost"
ErrorPage   == "error_page"

ASSUME FilesAssumption ==
  Files \subseteq Seq(Seq(STRING)) /\ \A f \in Files : \A k \in DOMAIN f : f[k] # <<>>
ASSUME LineBufAssumption == LineBuf \in Nat \ {0}
ASSUME SpaceAssumption == Space \in STRING
ASSUME ShortAssumption == Short \subseteq STRING /\ Space \notin Short
ASSUME NumberAssumption == DOMAIN Number \subseteq STRING /\ \A w \in DOMAIN Number : Number[w] \in Int

StringOptions == {"root", "error_log", "access_log"}
ListOptions   == {"name", "index"}
GlobalOptions == {"user", "group"}
ServerOptions == StringOptions \cup ListOptions \cup {"port", ErrorPage}

\* What an error page is, and what an option of a server may be set to.
Pages  == [code : Nat, file : Seq(STRING)]
Values == Seq(STRING) \cup Seq(Seq(STRING)) \cup Seq(Int) \cup Seq(Pages)

ASSUME NullAssumption == NULL \notin Seq(STRING) \cup [ServerOptions -> Values]

VARIABLES
  file,     \* the lines of the file
  lines,    \* conf_arr, the lines without their comments
  n,        \* lines the loop has done, of file and then of lines
  at,       \* tokens of the next line that were read
  phase,    \* which loop runs
  inside,   \* inside_vhost
  cur,      \* cur_vhost
  conf      \* the voy_conf_t

vars == <<file, lines, n, at, phase, inside, cur, conf>>

\* voy_server_conf_new: no option is set. A NULL string or array and an empty
\* one are alike to those who read them.
NewServer == [o \in ServerOptions |-> <<>>]

Init ==
  /\ file \in Files
  /\ lines = <<>>
  /\ n = 0 /\ at = 0
  /\ phase = "read"
  /\ inside = FALSE
  /\ cur = NULL
  /\ conf = [global |-> [o \in GlobalOptions |-> <<>>], default |-> NULL, vhosts |-> <<>>]

-------------------------------------------------------------------------------
\* The first loop: voy_open_and_strip_comments.

\* Mutant of Strip: the comment is kept.
StripNot(line) == line

\* voy_strip_comment_from_line puts a line end where the comment starts.
Strip(line) ==
  IF Has(line, CommentSign)
  THEN Append(SubSeq(line, 1, SelectInSeq(line, LAMBDA t : t = CommentSign) - 1), Space)
  ELSE line

\* fgets() reads what is left of the line, or as much as the buffer holds.
ReadLine ==
  /\ phase = "read" /\ n < Len(file)
  /\ LET line  == file[n + 1]
         piece == SubSeq(line, at + 1, Min({at + LineBuf, Len(line)}))
     IN  /\ IF at + LineBuf < Len(line) THEN at' = at + LineBuf /\ UNCHANGED n
            ELSE at' = 0 /\ n' = n + 1
         /\ lines' = IF Head(piece) = CommentSign THEN lines ELSE Append(lines, Strip(piece))
  /\ UNCHANGED <<file, phase, inside, cur, conf>>

ReadEnd ==
  /\ phase = "read" /\ n = Len(file)
  /\ n' = 0
  /\ phase' = "parse"
  /\ UNCHANGED <<file, lines, at, inside, cur, conf>>

-------------------------------------------------------------------------------
\* The second loop: voy_build_server_conf. The tests are made in this order.

IsOption(line) == Has(line, Equal)
IsVhost(line)  == ~IsOption(line) /\ Has(line, Vhost)
IsClose(line)  == ~IsOption(line) /\ ~IsVhost(line) /\ Has(line, Brace)

Trimmed(s) == Trim(s, Short)

\* The parts of an option; there is no value when the line ends with its only =.
OpName(line)  == Trimmed(Split(line, Equal)[1])
OpValue(line) == LET parts == Split(line, Equal) IN IF Len(parts) = 1 THEN NULL ELSE Trimmed(parts[2])

\* voy_parse_name_options and voy_parse_index_options: a part is compared with
\* the ones found before it is trimmed.
AddName(names, part) == IF Has(names, part) THEN names ELSE Append(names, Trimmed(part))

ParseList(value) == FoldLeft(AddName, <<>>, Split(value, Comma))

\* atoi(): text that does not start with a number is 0.
Atoi(s) == IF s # <<>> /\ Head(s) \in DOMAIN Number THEN Number[Head(s)] ELSE 0

\* voy_parse_port_options: a port is trimmed first, and compared as a number.
AddPort(ports, part) == LET p == Atoi(Trimmed(part)) IN IF Has(ports, p) THEN ports ELSE Append(ports, p)

ParsePorts(value) == FoldLeft(AddPort, <<>>, Split(value, Comma))

\* The code of a page option is what follows its name, 0 stands for all codes.
Page(name, value) == [code |-> IF Len(name) = 2 THEN Atoi(Tail(name)) ELSE 0, file |-> value]

\* voy_parse_error_pages: a page with a negative code fails, and what was
\* collected before is lost with it.
AddPage(pages, page) == IF page.code < 0 THEN <<>> ELSE Append(pages, page)

\* voy_server_conf_add_option: all but pages are replaced.
AddServerOption(server, name, value) ==
  CASE name \in {<<o>> : o \in StringOptions} -> [server EXCEPT ![name[1]] = value]
    [] name \in {<<o>> : o \in ListOptions}   -> [server EXCEPT ![name[1]] = ParseList(value)]
    [] name = <<"port">>                      -> [server EXCEPT !["port"] = ParsePorts(value)]
    [] Has(name, ErrorPage)                   -> [server EXCEPT ![ErrorPage] = AddPage(@, Page(name, value))]
    [] OTHER                                  -> server

\* voy_conf_add_option makes the default server with the first option outside
\* of the virtual hosts.
AddOption(c, name, value) ==
  LET server == IF c.default = NULL THEN NewServer ELSE c.default
  IN  IF name \in {<<o>> : o \in GlobalOptions}
      THEN [c EXCEPT !.global[name[1]] = value, !.default = server]
      ELSE [c EXCEPT !.default = AddServerOption(server, name, value)]

\* The loop goes on to its next line.
NextLine == phase = "parse" /\ n < Len(lines) /\ n' = n + 1 /\ UNCHANGED <<file, lines, at>>

\* voy_parse_error_pages reads the string of a value that is not there.
NoPageFile(line) == OpValue(line) = NULL /\ Has(OpName(line), ErrorPage)

OptionCrash ==
  /\ NextLine /\ IsOption(lines[n + 1]) /\ NoPageFile(lines[n + 1])
  /\ phase' = "crashed"
  /\ UNCHANGED <<inside, cur, conf>>

\* Mutant of Option: it is always an option of the default server.
OptionOutside ==
  /\ NextLine /\ IsOption(lines[n + 1]) /\ ~NoPageFile(lines[n + 1])
  /\ conf' = AddOption(conf, OpName(lines[n + 1]), OpValue(lines[n + 1]))
  /\ UNCHANGED <<phase, inside, cur>>

Option ==
  /\ NextLine /\ IsOption(lines[n + 1]) /\ ~NoPageFile(lines[n + 1])
  /\ LET name  == OpName(lines[n + 1])
         value == OpValue(lines[n + 1])
     IN  IF inside
         THEN cur' = AddServerOption(cur, name, value) /\ UNCHANGED conf
         ELSE conf' = AddOption(conf, name, value) /\ UNCHANGED cur
  /\ UNCHANGED <<phase, inside>>

\* Mutant of OpenVhost: options of a vhost that was not closed are kept.
OpenVhostKeeps ==
  /\ NextLine /\ IsVhost(lines[n + 1])
  /\ inside' = TRUE
  /\ cur' = IF inside THEN cur ELSE NewServer
  /\ UNCHANGED <<phase, conf>>

\* An earlier vhost that was not closed is forgotten.
OpenVhost ==
  /\ NextLine /\ IsVhost(lines[n + 1])
  /\ inside' = TRUE
  /\ cur' = NewServer
  /\ UNCHANGED <<phase, conf>>

\* Mutant of CloseVhost: inside_vhost is not reset.
CloseVhostStays ==
  /\ NextLine /\ IsClose(lines[n + 1])
  /\ IF inside
     THEN conf' = [conf EXCEPT !.vhosts = Append(@, cur)] /\ cur' = NULL
     ELSE UNCHANGED <<conf, cur>>
  /\ UNCHANGED <<phase, inside>>

\* A closing bracket outside of a virtual host is ignored.
CloseVhost ==
  /\ NextLine /\ IsClose(lines[n + 1])
  /\ IF inside
     THEN conf' = [conf EXCEPT !.vhosts = Append(@, cur)] /\ cur' = NULL /\ inside' = FALSE
     ELSE UNCHANGED <<conf, cur, inside>>
  /\ UNCHANGED phase

OtherLine ==
  /\ NextLine
  /\ LET line == lines[n + 1] IN ~IsOption(line) /\ ~IsVhost(line) /\ ~IsClose(line)
  /\ UNCHANGED <<phase, inside, cur, conf>>

Next == ReadLine \/ ReadEnd \/ Option \/ OptionCrash \/ OpenVhost \/ CloseVhost \/ OtherLine

Spec == Init /\ [][Next]_vars

-------------------------------------------------------------------------------
\* What the file says, by the place of its lines rather than by a state.

\* The lines the second loop has done.
Done == IF phase = "parse" THEN 1 .. n ELSE {}

\* The vhost line line k belongs to, 0 if it is outside of any virtual host.
Opener(k) ==
  Max({0} \cup {o \in 1 .. k - 1 : IsVhost(lines[o]) /\ \A m \in o + 1 .. k - 1 : ~IsClose(lines[m])})

\* The closing brackets of virtual hosts.
Closings == {c \in Done : IsClose(lines[c]) /\ Opener(c) # 0}

\* The lines of S that set an option, and the value it was set to last.
Setting(S, o) == {k \in S : IsOption(lines[k]) /\ OpName(lines[k]) = <<o>>}

LastValue(S, o) == IF Setting(S, o) = {} THEN <<>> ELSE OpValue(lines[Max(Setting(S, o))])

\* The trimmed parts of the value.
Parts(value) == {Trimmed(part) : part \in ToSet(Split(value, Comma))}

PageLines(S) == {k \in S : IsOption(lines[k]) /\ Has(OpName(lines[k]), ErrorPage)}

PageOf(k) == Page(OpName(lines[k]), OpValue(lines[k]))

\* The server has the options of the lines S and no others.
HasOptionsOf(server, S) ==
  LET lost == Max({0} \cup {k \in PageLines(S) : PageOf(k).code < 0})
  IN  /\ \A o \in StringOptions : server[o] = LastValue(S, o)
      /\ \A o \in ListOptions : ToSet(server[o]) = Parts(LastValue(S, o))
      /\ ToSet(server["port"]) = {Atoi(part) : part \in Parts(LastValue(S, "port"))}
      /\ IsInjective(server["port"])
      /\ ToSet(server[ErrorPage]) = {PageOf(k) : k \in {k \in PageLines(S) : k > lost}}

IsServer(s) ==
  /\ \A o \in StringOptions : s[o] \in Seq(STRING)
  /\ \A o \in ListOptions : s[o] \in Seq(Seq(STRING))
  /\ s["port"] \in Seq(Int)
  /\ s[ErrorPage] \in Seq(Pages)

TypeOK ==
  /\ lines \in Seq(Seq(STRING)) /\ n \in 0 .. Max({Len(file), Len(lines)}) /\ at \in Nat
  /\ phase \in {"read", "parse", "crashed"}
  /\ inside \in BOOLEAN
  /\ cur # NULL <=> inside
  /\ cur = NULL \/ IsServer(cur)
  /\ conf.default = NULL \/ IsServer(conf.default)
  /\ \A k \in DOMAIN conf.vhosts : IsServer(conf.vhosts[k])

\* The lines of the file that are more than a comment.
Kept == {k \in DOMAIN file : Head(file[k]) # CommentSign}

\* What is in front of the first comment sign of a line.
CodeOf(line) == SubSeq(line, 1, Min({Len(line) + 1} \cup {k \in DOMAIN line : line[k] = CommentSign}) - 1)

\* What the file says is what is parsed, and comments are not: of a file whose
\* lines all end and fit the buffer, each line that is more than a comment is
\* there, in its place, up to its comment, and no option is without its value.
ReadAsWritten ==
  (\A k \in DOMAIN file : Len(file[k]) <= LineBuf /\ Last(file[k]) = Space) =>
    /\ phase # "crashed"
    /\ phase = "parse" =>
         /\ Len(lines) = Cardinality(Kept)
         /\ \A j \in DOMAIN lines :
              LET code == CodeOf(file[Nth(Kept, j)])
              IN  lines[j] = code \/ lines[j] = Append(code, Space)

\* An option between vhost and its bracket never reaches the default server, and
\* every other one does, whatever brackets and vhost lines are missing, doubled
\* or commented out (inside_vhost in voy_build_server_conf).
DefaultServerScope ==
  LET outside == {k \in Done : Opener(k) = 0}
  IN  phase = "parse" =>
        /\ \A o \in GlobalOptions : conf.global[o] = LastValue(outside, o)
        /\ IF \E k \in outside : IsOption(lines[k]) THEN HasOptionsOf(conf.default, outside)
           ELSE conf.default = NULL

\* There is one virtual host for each bracket that closes one, in their order,
\* with the options after the last vhost line before it: none of them is from
\* another block, and none is kept twice.
VhostScope ==
  phase = "parse" =>
    /\ Len(conf.vhosts) = Cardinality(Closings)
    /\ \A j \in DOMAIN conf.vhosts :
         LET close == Nth(Closings, j)
         IN  HasOptionsOf(conf.vhosts[j], Opener(close) + 1 .. close - 1)

\* "make sure that there are no duplicates" (voy_parse_name_options).
NamesDistinct ==
  conf.default # NULL =>
    \A j, k \in DOMAIN conf.default["name"] :
      conf.default["name"][j] = conf.default["name"][k] => j = k
===============================================================================
