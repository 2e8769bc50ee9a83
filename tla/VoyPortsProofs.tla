---------------------------- MODULE VoyPortsProofs ----------------------------
(***************************************************************************)
(* Proofs about VoyPorts for every configuration, whatever its servers and *)
(* ports: no port is lost or listened to twice, and the first eligible one *)
(* of the file is bound.                                                   *)
(***************************************************************************)
EXTENDS VoyPorts, SequenceTheorems, TLAPS

\* Every element of arr stands where its value was first seen: at some value of
\* list such that all values before that one are in arr before it.
InOrder(arr, list) ==
  \A l \in DOMAIN arr : \E j \in DOMAIN list :
    /\ arr[l] = list[j]
    /\ \A j2 \in DOMAIN list : j2 < j => \E m \in DOMAIN arr : m < l /\ arr[m] = list[j2]

\* The same over all servers.
FileOrder ==
  \A l \in DOMAIN listen : \E k \in DOMAIN conf : \E j \in DOMAIN conf[k] :
    /\ listen[l] = conf[k][j]
    /\ \A p \in Earlier(k, j) : \E m \in DOMAIN listen : m < l /\ listen[m] = p

\* Where the loops are.
IndexInv ==
  /\ s \in DOMAIN conf \/ (s = 1 /\ conf = <<>>)
  /\ phase = "parse" => i <= Len(Of(conf)) + 1
  /\ phase = "collect" => i <= Len(Of(ports)) + 1

\* The values of server k that voy_parse_port_options has seen.
Seen(k) ==
  IF phase = "parse" /\ k >= s
  THEN IF k = s THEN {conf[k][j] : j \in 1 .. i - 1} ELSE {}
  ELSE ToSet(conf[k])

\* The array of each server holds each value that was seen, once and in order.
ParseInv ==
  \A k \in DOMAIN conf :
    Distinct(ports[k]) /\ ToSet(ports[k]) = Seen(k) /\ InOrder(ports[k], conf[k])

\* The values that get_listen_ports has seen: those of the servers before the
\* one its loop is at, and some of this one.
Before == UNION {ToSet(conf[k]) : k \in 1 .. s - 1}
Here   == {ports[s][j] : j \in 1 .. i - 1}

Collected ==
  IF phase = "parse" THEN {}
  ELSE IF phase = "collect"
  THEN Before \cup Here
  ELSE Configured

CollectInv == Distinct(listen) /\ ToSet(listen) = Collected /\ FileOrder

\* The choice is open until the loop finds a port.
ChooseInv ==
  /\ phase # "bind" => port = DefaultPort
  /\ phase = "choose" => \A l \in DOMAIN listen : l < i => listen[l] <= 1024
  /\ phase = "bind" =>
       \/ port = DefaultPort /\ \A l \in DOMAIN listen : listen[l] <= 1024
       \/ \E l \in DOMAIN listen :
            port = listen[l] /\ port > 1024 /\ \A m \in DOMAIN listen : m < l => listen[m] <= 1024

Inv == TypeOK /\ IndexInv /\ ParseInv /\ CollectInv /\ ChooseInv

-------------------------------------------------------------------------------
\* Seen and Collected, phase by phase.
LEMMA SeenIs ==
  ASSUME NEW k \in Nat, s \in Nat
  PROVE  /\ phase # "parse" \/ k < s => Seen(k) = ToSet(conf[k])
         /\ phase = "parse" /\ k = s => Seen(k) = {conf[k][j] : j \in 1 .. i - 1}
         /\ phase = "parse" /\ k > s => Seen(k) = {}
BY DEF Seen

LEMMA CollectedIs ==
  /\ phase = "parse" => Collected = {}
  /\ phase = "collect" => Collected = Before \cup Here
  /\ phase \in {"choose", "bind"} => Collected = Configured
BY Zenon DEF Collected

\* What a push with a search does to the elements of an array.
LEMMA AddNewAdds ==
  ASSUME NEW arr \in Seq(Int), NEW p \in Int
  PROVE  /\ AddNew(arr, p) \in Seq(Int)
         /\ ToSet(AddNew(arr, p)) = ToSet(arr) \cup {p}
         /\ Distinct(arr) => Distinct(AddNew(arr, p))
<1>1. CASE p \in ToSet(arr)
  BY <1>1 DEF AddNew
<1>2. CASE p \notin ToSet(arr)
  <2> DEFINE new == Append(arr, p)
  <2>1. /\ new \in Seq(Int) /\ DOMAIN new = 1 .. Len(arr) + 1
        /\ \A l \in DOMAIN arr : new[l] = arr[l] /\ new[Len(arr) + 1] = p
    OBVIOUS
  <2>2. DOMAIN arr = 1 .. Len(arr) /\ Len(arr) \in Nat /\ new[Len(arr) + 1] = p
    OBVIOUS
  <2>3. AddNew(arr, p) = new
    BY <1>2 DEF AddNew
  <2> HIDE DEF new
  <2>4. ToSet(new) = ToSet(arr) \cup {p}
    BY <2>1, <2>2 DEF ToSet
  <2>5. Distinct(arr) => Distinct(new)
    BY <1>2, <2>1, <2>2 DEF ToSet, Distinct
  <2> QED
    BY <2>1, <2>3, <2>4, <2>5
<1> QED
  BY <1>1, <1>2

\* It only adds at the end.
LEMMA AddNewKeeps ==
  ASSUME NEW arr \in Seq(Int), NEW p \in Int
  PROVE  /\ DOMAIN arr \subseteq DOMAIN AddNew(arr, p)
         /\ \A l \in DOMAIN arr : AddNew(arr, p)[l] = arr[l]
         /\ \A l \in DOMAIN AddNew(arr, p) \ DOMAIN arr :
              AddNew(arr, p)[l] = p /\ \A m \in DOMAIN arr : m < l
BY DEF AddNew

LEMMA TypeInit == Init => TypeOK
<1> SUFFICES ASSUME Init PROVE TypeOK
  OBVIOUS
<1>1. conf \in Seq(Seq(Int))
  BY ConfigsAssumption DEF Init
<1> QED
  BY <1>1, DefaultPortAssumption DEF Init, TypeOK

LEMMA InvInit == Init => Inv
<1> SUFFICES ASSUME Init PROVE Inv
  OBVIOUS
<1>1. TypeOK
  BY TypeInit
<1>2. s \in DOMAIN conf \/ conf = <<>>
  BY <1>1 DEF TypeOK, Init
<1>3. Len(Of(conf)) \in Nat
  BY <1>1, <1>2 DEF Init, Of, TypeOK
<1>4. IndexInv
  BY <1>2, <1>3 DEF Init, IndexInv
<1>5. ParseInv
  BY <1>1 DEF Init, ParseInv, Seen, Distinct, ToSet, InOrder, TypeOK
<1>6. CollectInv
  BY DEF Init, CollectInv, Collected, Distinct, ToSet, FileOrder
<1>7. ChooseInv
  BY DEF Init, ChooseInv
<1> QED
  BY <1>1, <1>4, <1>5, <1>6, <1>7 DEF Inv

-------------------------------------------------------------------------------
\* The servers and the arrays the loops read, with their types.
LEMMA Ranges ==
  ASSUME TypeOK, IndexInv
  PROVE  /\ Len(conf) \in Nat /\ DOMAIN conf = 1 .. Len(conf)
         /\ \A k \in DOMAIN conf : conf[k] \in Seq(Int) /\ ports[k] \in Seq(Int)
         /\ s \notin DOMAIN conf => s = 1 /\ Len(conf) = 0
         /\ Of(conf) = IF s \in DOMAIN conf THEN conf[s] ELSE <<>>
         /\ Of(ports) = IF s \in DOMAIN conf THEN ports[s] ELSE <<>>
         /\ Len(Of(conf)) \in Nat /\ Len(Of(ports)) \in Nat
<1>1. conf \in Seq(Seq(Int)) /\ ports \in [DOMAIN conf -> Seq(Int)]
  BY DEF TypeOK
<1>2. Len(conf) \in Nat /\ DOMAIN conf = 1 .. Len(conf)
  BY <1>1
<1>3. \A k \in DOMAIN conf : conf[k] \in Seq(Int) /\ ports[k] \in Seq(Int)
  BY <1>1
<1>4. s \notin DOMAIN conf => s = 1 /\ Len(conf) = 0
  BY DEF IndexInv
<1>5. /\ Of(conf) = IF s \in DOMAIN conf THEN conf[s] ELSE <<>>
      /\ Of(ports) = IF s \in DOMAIN conf THEN ports[s] ELSE <<>>
  BY <1>1 DEF Of
<1>6. Len(Of(conf)) \in Nat /\ Len(Of(ports)) \in Nat
  BY <1>3, <1>5
<1> QED
  BY <1>2, <1>3, <1>4, <1>5, <1>6

\* An iteration is on a value of a server.
LEMMA InRange ==
  ASSUME TypeOK, IndexInv
  PROVE  /\ ParsePort => s \in DOMAIN conf /\ i \in 1 .. Len(conf[s]) /\ conf[s][i] \in Int
         /\ CollectPort => s \in DOMAIN conf /\ i \in 1 .. Len(ports[s]) /\ ports[s][i] \in Int
<1>1. i \in Nat \ {0}
  BY DEF TypeOK
<1>2. ASSUME ParsePort PROVE s \in DOMAIN conf /\ i \in 1 .. Len(conf[s])
  BY <1>1, <1>2, Ranges DEF ParsePort
<1>3. ASSUME CollectPort PROVE s \in DOMAIN conf /\ i \in 1 .. Len(ports[s])
  BY <1>1, <1>3, Ranges DEF CollectPort
<1> QED
  BY <1>2, <1>3, Ranges

\* get_listen_ports pushes the ports of the default server without a search, and
\* need not search: they are distinct, and nothing else is in the array yet.
LEMMA CollectIsAddNew ==
  ASSUME Inv, CollectPort
  PROVE  listen' = AddNew(listen, ports[s][i])
<1>1. s \in DOMAIN conf /\ i \in 1 .. Len(ports[s])
  BY InRange DEF Inv
<1>2. CASE s = 1
  <2>1. ToSet(listen) = {ports[s][j] : j \in 1 .. i - 1}
    <3>1. ToSet(listen) = Before \cup Here
      BY CollectedIs DEF Inv, CollectInv, CollectPort
    <3>2. Before = {}
      BY <1>2 DEF Before
    <3> QED
      BY <3>1, <3>2 DEF Here
  <2>2. ports[s] \in Seq(Int) /\ Distinct(ports[s])
    BY <1>1, Ranges DEF Inv, ParseInv
  <2>3. ports[s][i] \notin ToSet(listen)
    BY <1>1, <2>1, <2>2 DEF Distinct
  <2> QED
    BY <1>2, <2>3 DEF CollectPort, Collect, AddNew
<1>3. CASE s # 1
  BY <1>3 DEF CollectPort, Collect
<1> QED
  BY <1>2, <1>3

-------------------------------------------------------------------------------
LEMMA TypeStep == Inv /\ [Next]_vars => TypeOK'
<1> SUFFICES ASSUME Inv, [Next]_vars PROVE TypeOK'
  OBVIOUS
<1>1. TypeOK /\ IndexInv
  BY DEF Inv
<1>2. CASE ParsePort
  <2>1. s \in DOMAIN conf /\ conf[s][i] \in Int /\ ports[s] \in Seq(Int)
    BY <1>1, <1>2, InRange, Ranges
  <2>2. AddNew(ports[s], conf[s][i]) \in Seq(Int)
    BY <2>1, AddNewAdds
  <2>3. ports' \in [DOMAIN conf' -> Seq(Int)]
    BY <1>1, <1>2, <2>2 DEF ParsePort, TypeOK
  <2> QED
    BY <1>1, <1>2, <2>3 DEF ParsePort, TypeOK
<1>3. CASE CollectPort
  <2>1. ports[s][i] \in Int /\ listen \in Seq(Int)
    BY <1>1, <1>3, InRange DEF TypeOK
  <2>2. listen' \in Seq(Int)
    BY <1>3, <2>1, CollectIsAddNew, AddNewAdds
  <2> QED
    BY <1>1, <1>3, <2>2 DEF CollectPort, TypeOK
<1>4. CASE ParseEnd
  BY <1>1, <1>4 DEF ParseEnd, NextServer, TypeOK
<1>5. CASE CollectEnd
  BY <1>1, <1>5 DEF CollectEnd, NextServer, TypeOK
<1>6. CASE ChoosePort
  BY <1>1, <1>6 DEF ChoosePort, TypeOK
<1>7. CASE ChooseEnd
  BY <1>1, <1>7 DEF ChooseEnd, TypeOK
<1>8. CASE UNCHANGED vars
  BY <1>1, <1>8 DEF vars, TypeOK
<1> QED
  BY <1>2, <1>3, <1>4, <1>5, <1>6, <1>7, <1>8 DEF Next

LEMMA IndexStep == Inv /\ [Next]_vars => IndexInv'
<1> SUFFICES ASSUME Inv, [Next]_vars PROVE IndexInv'
  OBVIOUS
<1>1. TypeOK /\ IndexInv /\ s \in Nat /\ i \in Nat
  BY DEF Inv, TypeOK
<1>2. CASE ParsePort
  BY <1>1, <1>2, Ranges DEF ParsePort, IndexInv, Of
<1>3. CASE CollectPort
  BY <1>1, <1>3, Ranges DEF CollectPort, IndexInv, Of
<1>4. ASSUME NEW after \in {"collect", "choose"}, NextServer(after), UNCHANGED <<conf, ports>>,
             phase = "parse" => after = "collect"
      PROVE  IndexInv'
  <2>1. s' \in DOMAIN conf \/ (s' = 1 /\ conf = <<>>)
    BY <1>1, <1>4, Ranges DEF NextServer, TypeOK
  <2>2. Len(Of(conf)') \in Nat /\ Len(Of(ports)') \in Nat
    BY <1>1, <1>4, Ranges DEF Of, TypeOK
  <2> QED
    BY <1>4, <2>1, <2>2 DEF NextServer, IndexInv
<1>5. CASE ParseEnd
  BY <1>4, <1>5 DEF ParseEnd
<1>6. CASE CollectEnd
  BY <1>4, <1>6 DEF CollectEnd
<1>7. CASE ChoosePort
  BY <1>1, <1>7 DEF ChoosePort, IndexInv
<1>8. CASE ChooseEnd
  BY <1>1, <1>8 DEF ChooseEnd, IndexInv
<1>9. CASE UNCHANGED vars
  BY <1>1, <1>9 DEF vars, IndexInv, Of
<1> QED
  BY <1>2, <1>3, <1>5, <1>6, <1>7, <1>8, <1>9 DEF Next

LEMMA ParseStep == Inv /\ [Next]_vars => ParseInv'
<1> SUFFICES ASSUME Inv, [Next]_vars PROVE ParseInv'
  OBVIOUS
<1>1. TypeOK /\ IndexInv /\ ParseInv /\ s \in Nat /\ i \in Nat \ {0}
  BY DEF Inv, TypeOK
<1>2. ASSUME ParsePort PROVE ParseInv'
  <2>1. s \in DOMAIN conf /\ i \in 1 .. Len(conf[s]) /\ conf[s] \in Seq(Int) /\ conf[s][i] \in Int
    BY <1>1, <1>2, InRange, Ranges
  <2> DEFINE arr == ports[s]
             new == AddNew(arr, conf[s][i])
  <2>2. arr \in Seq(Int) /\ Distinct(arr) /\ InOrder(arr, conf[s])
        /\ ToSet(arr) = {conf[s][j] : j \in 1 .. i - 1}
    <3>1. Seen(s) = {conf[s][j] : j \in 1 .. i - 1}
      BY <1>1, <1>2, SeenIs DEF ParsePort
    <3> QED
      BY <1>1, <2>1, <3>1, Ranges DEF ParseInv
  <2>3. ports' = [ports EXCEPT ![s] = new] /\ conf' = conf /\ phase' = "parse" /\ phase = "parse"
        /\ s' = s /\ i' = i + 1
    BY <1>2 DEF ParsePort
  <2>4. ports'[s] = new /\ \A k \in DOMAIN conf : k # s => ports'[k] = ports[k]
    BY <1>1, <2>1, <2>3 DEF TypeOK
  <2>5. Distinct(new) /\ ToSet(new) = ToSet(arr) \cup {conf[s][i]}
    BY <2>1, <2>2, AddNewAdds
  <2>6. /\ DOMAIN arr \subseteq DOMAIN new
        /\ \A l \in DOMAIN arr : new[l] = arr[l]
        /\ \A l \in DOMAIN new \ DOMAIN arr : new[l] = conf[s][i] /\ \A m \in DOMAIN arr : m < l
    BY <2>1, <2>2, AddNewKeeps
  <2> HIDE DEF new
  <2>7. ToSet(new) = {conf[s][j] : j \in 1 .. i}
    BY <1>1, <2>2, <2>5
  <2>8. InOrder(new, conf[s])
    <3> SUFFICES ASSUME NEW l \in DOMAIN new
                 PROVE  \E j \in DOMAIN conf[s] :
                          /\ new[l] = conf[s][j]
                          /\ \A j2 \in DOMAIN conf[s] : j2 < j =>
                               \E m \in DOMAIN new : m < l /\ new[m] = conf[s][j2]
      BY DEF InOrder
    <3>1. CASE l \in DOMAIN arr
      <4>1. PICK j \in DOMAIN conf[s] :
              /\ arr[l] = conf[s][j]
              /\ \A j2 \in DOMAIN conf[s] : j2 < j =>
                   \E m \in DOMAIN arr : m < l /\ arr[m] = conf[s][j2]
        BY <2>2, <3>1 DEF InOrder
      <4> QED
        BY <2>6, <3>1, <4>1
    <3>2. CASE l \notin DOMAIN arr
      <4>1. new[l] = conf[s][i] /\ \A m \in DOMAIN arr : m < l
        BY <2>6, <3>2
      <4>2. ASSUME NEW j2 \in DOMAIN conf[s], j2 < i
            PROVE  \E m \in DOMAIN new : m < l /\ new[m] = conf[s][j2]
        <5>1. j2 \in 1 .. i - 1
          BY <1>1, <2>1, <4>2
        <5>2. conf[s][j2] \in ToSet(arr)
          BY <2>2, <5>1
        <5> QED
          BY <2>6, <4>1, <5>2 DEF ToSet
      <4> QED
        BY <2>1, <4>1, <4>2
    <3> QED
      BY <3>1, <3>2
  <2>9. ASSUME NEW k \in DOMAIN conf
        PROVE  Distinct(ports'[k]) /\ ToSet(ports'[k]) = Seen(k)' /\ InOrder(ports'[k], conf[k])
    <3>1. CASE k = s
      BY <1>1, <2>3, <2>4, <2>5, <2>7, <2>8, <3>1 DEF Seen
    <3>2. CASE k # s
      BY <1>1, <2>3, <2>4, <3>2 DEF Seen, ParseInv
    <3> QED
      BY <3>1, <3>2
  <2> QED
    BY <2>3, <2>9 DEF ParseInv
<1>3. ASSUME ParseEnd PROVE ParseInv'
  <2>1. UNCHANGED <<conf, ports>> /\ phase = "parse" /\ i > Len(Of(conf)) /\ NextServer("collect")
    BY <1>3 DEF ParseEnd
  <2>2. ASSUME s \in DOMAIN conf PROVE {conf[s][j] : j \in 1 .. i - 1} = ToSet(conf[s])
    <3>1. i - 1 = Len(conf[s]) /\ conf[s] \in Seq(Int)
      BY <1>1, <2>1, <2>2, Ranges DEF IndexInv
    <3> QED
      BY <3>1 DEF ToSet
  <2>3. ASSUME NEW k \in DOMAIN conf PROVE Seen(k)' = Seen(k)
    <3>1. k \in 1 .. Len(conf) /\ Len(conf) \in Nat
      BY <1>1, Ranges
    <3>2. CASE k < s
      BY <1>1, <2>1, <3>1, <3>2 DEF Seen, NextServer
    <3>3. CASE k = s
      BY <1>1, <2>1, <2>2, <3>1, <3>3 DEF Seen, NextServer
    <3>4. CASE k > s
      <4>1. Seen(k) = {}
        BY <1>1, <2>1, <3>1, <3>4, SeenIs
      <4>2. s < Len(conf) /\ s' = s + 1 /\ i' = 1 /\ phase' = "parse" /\ conf' = conf
        BY <1>1, <2>1, <3>1, <3>4 DEF NextServer
      <4>3. CASE k = s + 1
        <5>1. Seen(k)' = {conf[k][j] : j \in 1 .. i' - 1}
          BY <3>1, <4>2, <4>3 DEF Seen
        <5>2. 1 .. i' - 1 = {}
          BY <4>2
        <5> QED
          BY <4>1, <5>1, <5>2, Zenon
      <4>4. CASE k # s + 1
        <5>1. k > s' /\ k # s'
          BY <1>1, <3>1, <3>4, <4>2, <4>4
        <5>2. k >= s'
          BY <3>1, <4>2, <5>1, <1>1
        <5> QED
          BY <4>1, <4>2, <5>1, <5>2, Zenon DEF Seen
      <4> QED
        BY <4>3, <4>4
    <3> QED
      BY <1>1, <3>1, <3>2, <3>3, <3>4
  <2> QED
    BY <1>1, <2>1, <2>3 DEF ParseInv
<1>4. CASE CollectPort \/ CollectEnd \/ ChoosePort \/ ChooseEnd
  <2>1. UNCHANGED <<conf, ports>> /\ phase # "parse" /\ phase' # "parse"
    BY <1>4 DEF CollectPort, CollectEnd, ChoosePort, ChooseEnd, NextServer
  <2> QED
    BY <1>1, <2>1 DEF ParseInv, Seen
<1>5. CASE UNCHANGED vars
  BY <1>1, <1>5 DEF vars, ParseInv, Seen
<1> QED
  BY <1>2, <1>3, <1>4, <1>5 DEF Next

\* The loop of get_listen_ports is at the last server or before it.
LEMMA LastOrNot == \A n \in Nat : \A m \in 1 .. n : m < n \/ m = n
OBVIOUS

LEMMA CollectStep == Inv /\ [Next]_vars => CollectInv'
<1> SUFFICES ASSUME Inv, [Next]_vars PROVE CollectInv'
  OBVIOUS
<1>1. TypeOK /\ IndexInv /\ ParseInv /\ CollectInv /\ s \in Nat /\ i \in Nat \ {0}
  BY DEF Inv, TypeOK
<1>2. ASSUME CollectPort PROVE CollectInv'
  <2> DEFINE p == ports[s][i]
  <2>1. s \in DOMAIN conf /\ i \in 1 .. Len(ports[s]) /\ p \in Int /\ listen \in Seq(Int)
        /\ ports[s] \in Seq(Int)
    BY <1>1, <1>2, InRange, Ranges DEF TypeOK
  <2>2. listen' = AddNew(listen, p)
    BY <1>2, CollectIsAddNew
  <2>3. UNCHANGED <<conf, ports, s, phase>> /\ phase = "collect" /\ i' = i + 1
    BY <1>2 DEF CollectPort
  <2>4. Distinct(listen') /\ ToSet(listen') = ToSet(listen) \cup {p}
    BY <1>1, <2>1, <2>2, AddNewAdds DEF CollectInv
  <2>5. ToSet(listen') = Collected'
    <3>1. ToSet(listen) = Before \cup Here
      BY <1>1, <2>3, CollectedIs DEF CollectInv
    <3>2. Collected' = Before' \cup Here'
      BY <2>3, Zenon DEF Collected
    <3>3. 1 .. i' - 1 = (1 .. i - 1) \cup {i}
      BY <1>1, <2>3
    <3>4. Here' = Here \cup {p}
      BY <2>3, <3>3 DEF Here
    <3>5. Before' = Before
      BY <2>3 DEF Before
    <3> HIDE DEF p
    <3> QED
      BY <2>4, <3>1, <3>2, <3>4, <3>5
  <2>6. /\ DOMAIN listen \subseteq DOMAIN listen'
        /\ \A l \in DOMAIN listen : listen'[l] = listen[l]
        /\ \A l \in DOMAIN listen' \ DOMAIN listen :
             listen'[l] = p /\ \A m \in DOMAIN listen : m < l
    BY <2>1, <2>2, AddNewKeeps
  <2>7. FileOrder'
    <3> SUFFICES ASSUME NEW l \in DOMAIN listen'
                 PROVE  \E k \in DOMAIN conf : \E j \in DOMAIN conf[k] :
                          /\ listen'[l] = conf[k][j]
                          /\ \A q \in Earlier(k, j) :
                               \E m \in DOMAIN listen' : m < l /\ listen'[m] = q
      BY <2>3 DEF FileOrder, Earlier
    <3>1. CASE l \in DOMAIN listen
      <4>1. PICK k \in DOMAIN conf : \E j \in DOMAIN conf[k] :
              /\ listen[l] = conf[k][j]
              /\ \A q \in Earlier(k, j) : \E m \in DOMAIN listen : m < l /\ listen[m] = q
        BY <1>1, <3>1 DEF CollectInv, FileOrder
      <4> QED
        BY <2>6, <3>1, <4>1
    <3>2. CASE l \notin DOMAIN listen
      <4>1. PICK j \in DOMAIN conf[s] :
              /\ p = conf[s][j]
              /\ \A j2 \in DOMAIN conf[s] : j2 < j =>
                   \E m \in DOMAIN ports[s] : m < i /\ ports[s][m] = conf[s][j2]
        BY <1>1, <2>1 DEF ParseInv, InOrder
      <4>2. listen'[l] = p /\ \A m \in DOMAIN listen : m < l
        BY <2>6, <3>2
      <4>3. ASSUME NEW q \in Earlier(s, j) PROVE q \in ToSet(listen)
        <5>1. PICK k2 \in 1 .. s : \E j2 \in DOMAIN conf[k2] : q = conf[k2][j2] /\ (k2 < s \/ j2 < j)
          BY DEF Earlier
        <5>2. CASE k2 < s
          <6>1. k2 \in 1 .. s - 1 /\ q \in ToSet(conf[k2])
            BY <1>1, <5>1, <5>2 DEF ToSet
          <6>2. q \in Before
            BY <6>1 DEF Before
          <6> QED
            BY <1>1, <2>3, <6>2, CollectedIs DEF CollectInv
        <5>3. CASE k2 = s
          <6>1. PICK m \in DOMAIN ports[s] : m < i /\ ports[s][m] = q
            BY <1>1, <4>1, <5>1, <5>3
          <6>2. m \in 1 .. i - 1
            BY <1>1, <2>1, <6>1
          <6>3. q \in Here
            BY <6>1, <6>2 DEF Here
          <6> QED
            BY <1>1, <2>3, <6>3, CollectedIs DEF CollectInv
        <5> QED
          BY <1>1, <5>2, <5>3
      <4>4. \A q \in Earlier(s, j) : \E m \in DOMAIN listen' : m < l /\ listen'[m] = q
        BY <2>6, <4>2, <4>3 DEF ToSet
      <4> QED
        BY <2>1, <4>1, <4>2, <4>4
    <3> QED
      BY <3>1, <3>2
  <2> QED
    BY <2>4, <2>5, <2>7 DEF CollectInv
<1>3. ASSUME UNCHANGED <<conf, listen>>, Collected' = Collected PROVE CollectInv'
  BY <1>1, <1>3 DEF CollectInv, FileOrder, Earlier
<1>4. ASSUME CollectEnd PROVE Collected' = Collected
  <2>1. UNCHANGED <<conf, ports, listen>> /\ phase = "collect" /\ i > Len(Of(ports))
        /\ NextServer("choose")
    BY <1>4 DEF CollectEnd
  <2>2. CASE s \in DOMAIN conf
    <3>1. i - 1 = Len(ports[s]) /\ ports[s] \in Seq(Int)
      <4>1. Of(ports) = ports[s] /\ Len(ports[s]) \in Nat /\ ports[s] \in Seq(Int)
        BY <1>1, <2>2, Ranges
      <4>2. i <= Len(ports[s]) + 1 /\ i > Len(ports[s])
        BY <1>1, <2>1, <4>1 DEF IndexInv
      <4> QED
        BY <1>1, <4>1, <4>2
    <3>2. {ports[s][j] : j \in 1 .. i - 1} = ToSet(ports[s])
      BY <3>1 DEF ToSet
    <3>3. ToSet(ports[s]) = ToSet(conf[s])
      BY <1>1, <2>1, <2>2 DEF ParseInv, Seen
    <3>4. s \in 1 .. Len(conf) /\ DOMAIN conf = 1 .. Len(conf) /\ Len(conf) \in Nat
      BY <1>1, <2>2, Ranges
    <3>5. Collected = UNION {ToSet(conf[k]) : k \in 1 .. s}
      <4>1. 1 .. s = (1 .. s - 1) \cup {s}
        BY <3>4
      <4> QED
        <5>1. Collected = Before \cup ToSet(conf[s])
          BY <2>1, <3>2, <3>3, CollectedIs DEF Here
        <5>2. UNION {ToSet(conf[k]) : k \in 1 .. s} = Before \cup ToSet(conf[s])
          BY <4>1 DEF Before
        <5> QED
          BY <5>1, <5>2
    <3>6. CASE s < Len(conf)
      <4>1. s' = s + 1 /\ i' = 1 /\ phase' = "collect"
        BY <2>1, <3>6 DEF NextServer
      <4>2. s' - 1 = s /\ 1 .. i' - 1 = {}
        BY <1>1, <4>1
      <4>3. Collected' = Before' \cup Here'
        BY <4>1, Zenon DEF Collected
      <4>4. Here' = {}
        BY <4>2 DEF Here
      <4>5. Before' = UNION {ToSet(conf[k]) : k \in 1 .. s}
        BY <2>1, <4>2 DEF Before
      <4> QED
        BY <3>5, <4>3, <4>4, <4>5
    <3>7. CASE s = Len(conf)
      <4>1. phase' = "choose"
        BY <2>1, <3>4, <3>7 DEF NextServer
      <4> QED
        <5>1. Collected' = UNION {ToSet(conf[k]) : k \in DOMAIN conf}
          BY <2>1, <4>1, Zenon DEF Collected, Configured
        <5> QED
          BY <3>4, <3>5, <3>7, <5>1, Zenon
    <3>8. s < Len(conf) \/ s = Len(conf)
      <4>1. s \in 1 .. Len(conf) /\ Len(conf) \in Nat
        BY <3>4
      <4> QED
        BY <4>1, LastOrNot, Zenon
    <3> QED
      BY <3>6, <3>7, <3>8
  <2>3. CASE s \notin DOMAIN conf
    <3>1. s = 1 /\ Len(conf) = 0 /\ DOMAIN conf = {} /\ i = 1
      BY <1>1, <2>1, <2>3, Ranges DEF IndexInv
    <3>2. phase' = "choose"
      BY <2>1, <3>1 DEF NextServer
    <3>3. 1 .. s - 1 = {} /\ 1 .. i - 1 = {}
      BY <3>1
    <3> QED
      BY <2>1, <3>1, <3>2, <3>3 DEF Collected, Configured, Before, Here
  <2> QED
    BY <2>2, <2>3
<1>5. ASSUME ParseEnd PROVE Collected' = Collected
  <2>1. UNCHANGED <<conf, ports, listen>> /\ phase = "parse" /\ NextServer("collect")
    BY <1>5 DEF ParseEnd
  <2>2. CASE phase' = "parse"
    BY <2>1, <2>2 DEF Collected
  <2>3. CASE phase' # "parse"
    <3>1. s' = 1 /\ i' = 1 /\ phase' = "collect"
      BY <2>1, <2>3 DEF NextServer
    <3>2. 1 .. s' - 1 = {} /\ 1 .. i' - 1 = {}
      BY <3>1
    <3> QED
      BY <2>1, <3>1, <3>2 DEF Collected, Before, Here
  <2> QED
    BY <2>2, <2>3
<1>6. CASE ParsePort
  BY <1>3, <1>6 DEF ParsePort, Collected
<1>7. CASE ChoosePort
  BY <1>3, <1>7 DEF ChoosePort, Collected, Configured
<1>8. CASE ChooseEnd
  BY <1>3, <1>8 DEF ChooseEnd, Collected, Configured
<1>9. CASE UNCHANGED vars
  BY <1>3, <1>9 DEF vars, Collected, Before, Here, Configured
<1>10. CASE ParseEnd
  BY <1>3, <1>5, <1>10 DEF ParseEnd
<1>11. CASE CollectEnd
  BY <1>3, <1>4, <1>11 DEF CollectEnd
<1> QED
  BY <1>2, <1>6, <1>7, <1>8, <1>9, <1>10, <1>11 DEF Next

LEMMA ChooseStep == Inv /\ [Next]_vars => ChooseInv'
<1> SUFFICES ASSUME Inv, [Next]_vars PROVE ChooseInv'
  OBVIOUS
<1>1. TypeOK /\ ChooseInv /\ listen \in Seq(Int) /\ i \in Nat \ {0}
  BY DEF Inv, TypeOK
<1>2. CASE ParsePort \/ ParseEnd \/ CollectPort
  <2>1. phase' \notin {"choose", "bind"} /\ port' = port /\ phase # "bind"
    BY <1>2 DEF ParsePort, ParseEnd, CollectPort, NextServer
  <2> QED
    BY <1>1, <2>1 DEF ChooseInv
<1>3. CASE CollectEnd
  <2>1. phase = "collect" /\ phase' # "bind" /\ port' = port /\ i' = 1 /\ listen' = listen
    BY <1>3 DEF CollectEnd, NextServer
  <2>2. \A l \in DOMAIN listen : ~(l < 1)
    BY <1>1
  <2> QED
    BY <1>1, <2>1, <2>2 DEF ChooseInv
<1>4. CASE ChoosePort
  <2>1. phase = "choose" /\ i \in DOMAIN listen /\ listen' = listen
    BY <1>1, <1>4 DEF ChoosePort
  <2>2. CASE Eligible(listen[i])
    <3>1. phase' = "bind" /\ port' = listen[i] /\ listen[i] > 1024
      BY <1>4, <2>2 DEF ChoosePort, Eligible
    <3> QED
      BY <1>1, <2>1, <3>1 DEF ChooseInv
  <2>3. CASE ~Eligible(listen[i])
    <3>1. phase' = "choose" /\ port' = port /\ i' = i + 1 /\ listen[i] <= 1024
      BY <1>1, <1>4, <2>1, <2>3 DEF ChoosePort, Eligible
    <3>2. \A l \in DOMAIN listen : l < i' => l < i \/ l = i
      BY <1>1, <3>1
    <3> QED
      BY <1>1, <2>1, <3>1, <3>2 DEF ChooseInv
  <2> QED
    BY <2>2, <2>3
<1>5. CASE ChooseEnd
  <2>1. \A l \in DOMAIN listen : l < i
    BY <1>1, <1>5 DEF ChooseEnd
  <2> QED
    BY <1>1, <1>5, <2>1 DEF ChooseEnd, ChooseInv
<1>6. CASE UNCHANGED vars
  BY <1>1, <1>6 DEF vars, ChooseInv
<1> QED
  BY <1>2, <1>3, <1>4, <1>5, <1>6 DEF Next

LEMMA InvHolds == Spec => []Inv
<1>1. Inv /\ [Next]_vars => Inv'
  BY TypeStep, IndexStep, ParseStep, CollectStep, ChooseStep DEF Inv
<1> QED
  BY <1>1, InvInit, PTL DEF Spec

-------------------------------------------------------------------------------
\* VoyPorts is type correct.
THEOREM TypeCorrect == Spec => []TypeOK
<1>1. Inv => TypeOK
  BY DEF Inv
<1> QED
  BY <1>1, InvHolds, PTL

\* No port is listened to twice, although get_listen_ports does not look.
THEOREM PortsDistinct == Spec => []NoDuplicates
<1>1. Inv => NoDuplicates
  BY DEF Inv, TypeOK, CollectInv, ParseInv, NoDuplicates
<1> QED
  BY <1>1, InvHolds, PTL

\* The array of get_listen_ports has the ports of all servers and no others.
THEOREM PortsCollected == Spec => []AllCollected
<1>1. Inv => AllCollected
  BY CollectedIs DEF Inv, CollectInv, AllCollected
<1> QED
  BY <1>1, InvHolds, PTL

\* The port voy_server_start binds is the first eligible one of the file.
THEOREM FirstPortBound == Spec => []FirstInFile
<1>1. Inv => FirstInFile
  <2> SUFFICES ASSUME Inv, phase = "bind"
               PROVE  \/ port = DefaultPort /\ \A p \in Configured : p <= 1024
                      \/ \E k \in DOMAIN conf : \E j \in DOMAIN conf[k] :
                           /\ port = conf[k][j] /\ port > 1024
                           /\ \A p \in Earlier(k, j) : p <= 1024
    BY DEF FirstInFile
  <2>1. ToSet(listen) = Configured /\ FileOrder /\ ChooseInv
    BY DEF Inv, CollectInv, Collected
  <2>2. CASE port = DefaultPort /\ \A l \in DOMAIN listen : listen[l] <= 1024
    BY <2>1, <2>2 DEF ToSet
  <2>3. CASE \E l \in DOMAIN listen :
               port = listen[l] /\ port > 1024 /\ \A m \in DOMAIN listen : m < l => listen[m] <= 1024
    <3>1. PICK l \in DOMAIN listen :
            port = listen[l] /\ port > 1024 /\ \A m \in DOMAIN listen : m < l => listen[m] <= 1024
      BY <2>3
    <3>2. PICK k \in DOMAIN conf : \E j \in DOMAIN conf[k] :
            /\ listen[l] = conf[k][j]
            /\ \A p \in Earlier(k, j) : \E m \in DOMAIN listen : m < l /\ listen[m] = p
      BY <2>1 DEF FileOrder
    <3> QED
      BY <3>1, <3>2
  <2> QED
    BY <2>1, <2>2, <2>3 DEF ChooseInv
<1> QED
  BY <1>1, InvHolds, PTL
===============================================================================
