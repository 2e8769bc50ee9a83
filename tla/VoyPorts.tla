------------------------------- MODULE VoyPorts -------------------------------
(***************************************************************************)
(* From the port options of the configuration to the port the server binds:*)
(* voy_parse_port_options for each server, get_listen_ports over all of    *)
(* them, the choice in voy_server_start, and the 16 bits bind() gets.      *)
(* Server 1 is the default server, the others are the virtual hosts in the *)
(* order of their closing brackets.                                        *)
(***************************************************************************)
EXTENDS Integers, Sequences, SequencesExt

CONSTANTS
  Configs,       \* for each server the values of its port option, atoi() of each
  DefaultPort    \* VOY_DEFAULT_PORT

ASSUME ConfigsAssumption == Configs \subseteq Seq(Seq(Int))
ASSUME DefaultPortAssumption == DefaultPort \in 0 .. 65535

VARIABLES
  conf,     \* the values written in the file
  phase,    \* which loop runs
  s, i,     \* server and index the loop is at
  ports,    \* ports[s], the array of the server's configuration
  listen,   \* the array of get_listen_ports
  port      \* the choice of voy_server_start

vars == <<conf, phase, s, i, ports, listen, port>>

Init ==
  /\ conf \in Configs
  /\ phase = "parse"
  /\ s = 1 /\ i = 1
  /\ ports = [k \in DOMAIN conf |-> <<>>]
  /\ listen = <<>>
  /\ port = DefaultPort

-------------------------------------------------------------------------------
\* The array of the server the loop is at; a configuration may have no server.
Of(arrays) == IF s \in DOMAIN arrays THEN arrays[s] ELSE <<>>

\* Mutant of AddNew: the value is pushed without a search.
AddAny(arr, p) == Append(arr, p)

\* Both loops search the array for a port before they push it.
AddNew(arr, p) == IF p \in ToSet(arr) THEN arr ELSE Append(arr, p)

\* Mutant of NextServer: the index starts one too low.
NextServerFromZero(after) ==
  /\ i' = 0
  /\ IF s < Len(conf) THEN s' = s + 1 /\ UNCHANGED phase ELSE s' = 1 /\ phase' = after

\* The next server, or the next phase once all servers are done.
NextServer(after) ==
  /\ i' = 1
  /\ IF s < Len(conf) THEN s' = s + 1 /\ UNCHANGED phase ELSE s' = 1 /\ phase' = after

\* One iteration of voy_parse_port_options.
ParsePort ==
  /\ phase = "parse" /\ i <= Len(Of(conf))
  /\ ports' = [ports EXCEPT ![s] = AddNew(@, conf[s][i])]
  /\ i' = i + 1
  /\ UNCHANGED <<conf, phase, s, listen, port>>

ParseEnd ==
  /\ phase = "parse" /\ i > Len(Of(conf))
  /\ NextServer("collect")
  /\ UNCHANGED <<conf, ports, listen, port>>

\* Mutant of Collect: the ports of the default server are left out.
CollectVhosts(arr, p) == IF s = 1 THEN arr ELSE AddNew(arr, p)

\* get_listen_ports pushes the default server's ports as they are, and those of
\* a virtual host unless it has them.
Collect(arr, p) == IF s = 1 THEN Append(arr, p) ELSE AddNew(arr, p)

CollectPort ==
  /\ phase = "collect" /\ i <= Len(Of(ports))
  /\ listen' = Collect(listen, ports[s][i])
  /\ i' = i + 1
  /\ UNCHANGED <<conf, phase, s, ports, port>>

CollectEnd ==
  /\ phase = "collect" /\ i > Len(Of(ports))
  /\ NextServer("choose")
  /\ UNCHANGED <<conf, ports, listen, port>>

\* Mutant of Eligible: the comparison is turned round.
EligibleLow(p) == p < 1024

Eligible(p) == p > 1024

\* The loop of voy_server_start: the first eligible port, with a break.
ChoosePort ==
  /\ phase = "choose" /\ i <= Len(listen)
  /\ IF Eligible(listen[i]) THEN port' = listen[i] /\ phase' = "bind" /\ UNCHANGED i
     ELSE i' = i + 1 /\ UNCHANGED <<port, phase>>
  /\ UNCHANGED <<conf, s, ports, listen>>

ChooseEnd ==
  /\ phase = "choose" /\ i > Len(listen)
  /\ phase' = "bind"
  /\ UNCHANGED <<conf, s, i, ports, listen, port>>

Next == ParsePort \/ ParseEnd \/ CollectPort \/ CollectEnd \/ ChoosePort \/ ChooseEnd

Spec == Init /\ [][Next]_vars

\* htons(port) keeps 16 bits of it.
Htons(p) == p % 65536

-------------------------------------------------------------------------------
Distinct(arr) == \A j, k \in DOMAIN arr : arr[j] = arr[k] => j = k

\* Every port the file names for some server.
Configured == UNION {ToSet(conf[k]) : k \in DOMAIN conf}

TypeOK ==
  /\ conf \in Seq(Seq(Int))
  /\ phase \in {"parse", "collect", "choose", "bind"}
  /\ s \in Nat \ {0} /\ i \in Nat \ {0}
  /\ ports \in [DOMAIN conf -> Seq(Int)]
  /\ listen \in Seq(Int)
  /\ port \in Int

\* No port is listened to twice, though get_listen_ports does not look for
\* duplicates among the default server's ports: voy_parse_port_options did.
NoDuplicates == Distinct(listen) /\ \A k \in DOMAIN ports : Distinct(ports[k])

\* No port of any server is lost on the way to the array, and none is made up.
AllCollected == phase \in {"choose", "bind"} => ToSet(listen) = Configured

\* The port values of the file before value j of server k.
Earlier(k, j) == UNION {{conf[k2][j2] : j2 \in {j2 \in DOMAIN conf[k2] : k2 < k \/ j2 < j}} : k2 \in 1 .. k}

\* The server binds the first port of the file, in the order of the servers,
\* that is above 1024, and the default port only when there is none.
FirstInFile ==
  phase = "bind" =>
    \/ port = DefaultPort /\ \A p \in Configured : p <= 1024
    \/ \E k \in DOMAIN conf : \E j \in DOMAIN conf[k] :
         /\ port = conf[k][j] /\ port > 1024
         /\ \A p \in Earlier(k, j) : p <= 1024

\* "listen to the first port found that does not require superuser priviledges"
\* (voy_server_start): a port that was found and chosen is bound unprivileged.
BoundIsUnprivileged ==
  phase = "bind" /\ port \in Configured => Htons(port) >= 1024
===============================================================================
