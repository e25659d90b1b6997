----------------------------- MODULE Addresses -----------------------------
(***************************************************************************)
(* The address functions of node:net (src/runtime/node/net.ts and          *)
(* src/runtime/gea_node.cpp): SocketAddress and its parser, BlockList, and *)
(* the argument overloads of connect() and listen().  An address has       *)
(* V4Bytes or V6Bytes bytes of ByteBits bits, small enough to enumerate.   *)
(***************************************************************************)
EXTENDS Evaluate

ByteBits == 2
V4Bytes == 1
V6Bytes == 3
Ones == 2 ^ ByteBits - 1                                    \* 0xff
MaxPort == 65535

Ip(family, bytes) == [family |-> family, bytes |-> bytes]
AllIps == {Ip(4, b) : b \in [1..V4Bytes -> 0..Ones]} \cup {Ip(6, b) : b \in [1..V6Bytes -> 0..Ones]}
BytesOf(ip) == IF ip.family = 4 THEN [i \in 1..(V6Bytes - V4Bytes - 1) |-> 0] \o <<Ones>> \o ip.bytes ELSE ip.bytes
Compare(a, b) ==       \* net_ip_compare
    LET x == BytesOf(a)
        y == BytesOf(b)
        i == First_({k \in DOMAIN x : x[k] # y[k]}, 0) IN
    IF i = 0 THEN 0 ELSE IF x[i] < y[i] THEN -1 ELSE 1
InSubnetFault(ip, network, prefix) ==
    LET x == BytesOf(ip)
        y == BytesOf(network)
        whole == prefix \div ByteBits
        rest == prefix % ByteBits
        mask == 2 ^ (ByteBits - rest) IN
    /\ \A i \in 1..whole : x[i] = y[i]
    /\ rest = 0 \/ x[whole + 1] \div mask = y[whole + 1] \div mask
InSubnet(ip, network, prefix) ==
    LET x == BytesOf(ip)
        y == BytesOf(network)
        p == IF network.family = 4 THEN prefix + ByteBits * (V6Bytes - V4Bytes) ELSE prefix
        whole == p \div ByteBits
        rest == p % ByteBits
        mask == 2 ^ (ByteBits - rest) IN
    /\ \A i \in 1..whole : x[i] = y[i]
    /\ rest = 0 \/ x[whole + 1] \div mask = y[whole + 1] \div mask

----------------
(* BlockList: the rules of each kind, newest first, and their strings.  A   *)
(* call is given an address object or a text and its type; an address has  *)
(* one text, the canonical one that inet_ntop prints.                      *)

EmptyList == [addresses |-> <<>>, ranges |-> <<>>, subnets |-> <<>>, strings |-> <<>>, thrown |-> FALSE]
RuleThrows(bl) == [bl EXCEPT !.thrown = TRUE]
FamilyBits(family) == ByteBits * (IF family = 4 THEN V4Bytes ELSE V6Bytes)
IpText(ip) == JoinWith([i \in DOMAIN ip.bytes |-> <<ToString(ip.bytes[i])>>], IF ip.family = 4 THEN "." ELSE ":")
RuleText(kind, family, value) == <<kind, IF family = 4 THEN "IPv4" ELSE "IPv6">> \o value
addAddress(bl, a) ==
    [bl EXCEPT !.addresses = <<a>> \o @, !.strings = <<RuleText("Address", a.family, IpText(a))>> \o @]
addRange(bl, start, end) ==
    IF start.family # end.family \/ Compare(start, end) > 0 THEN RuleThrows(bl)
    ELSE [bl EXCEPT !.ranges = <<[start |-> start, end |-> end]>> \o @,
                    !.strings = <<RuleText("Range", start.family, IpText(start) \o <<"-">> \o IpText(end))>> \o @]
addSubnet(bl, network, prefix) ==
    IF prefix > FamilyBits(network.family) THEN RuleThrows(bl)
    ELSE [bl EXCEPT !.subnets = <<[network |-> network, prefix |-> prefix]>> \o @,
                    !.strings = <<RuleText("Subnet", network.family, IpText(network) \o <<"/", ToString(prefix)>>)>> \o @]
\* one call of the program
addRule(bl, r) ==
    CASE r.rule = "Address" -> addAddress(bl, r.address)
      [] r.rule = "Range" -> addRange(bl, r.start, r.end)
      [] r.rule = "Subnet" -> addSubnet(bl, r.network, r.prefix)

\* new SocketAddress({address, family}), or a throw for a text that is no address of the family
IsAddress(t, family) == \E ip \in AllIps : ip.family = family /\ IpText(ip) = t
asSocketAddress(t, family) == CHOOSE ip \in AllIps : ip.family = family /\ IpText(ip) = t
addSerializedRule(bl, t) ==
    LET family == IF t[2] = "IPv4" THEN 4 ELSE 6
        value == Cut(t, 2)
        dash == First_(Indices(value, LAMBDA c: c = "-"), 0)
        slash == Last_(Indices(value, LAMBDA c: c = "/"))
        Before(k) == SubSeq(value, 1, k - 1)
        Read(x) == asSocketAddress(x, family) IN
    CASE bl.thrown -> bl
      [] t[1] = "Address" -> IF IsAddress(value, family) THEN addAddress(bl, Read(value)) ELSE RuleThrows(bl)
      [] t[1] = "Range" /\ dash > 1 ->
           IF IsAddress(Before(dash), family) /\ IsAddress(Cut(value, dash), family)
           THEN addRange(bl, Read(Before(dash)), Read(Cut(value, dash))) ELSE RuleThrows(bl)
      [] t[1] = "Subnet" /\ slash > 1 ->
           IF IsAddress(Before(slash), family)
           THEN addSubnet(bl, Read(Before(slash)), CHOOSE n \in 0..99 : <<ToString(n)>> = Cut(value, slash)) ELSE RuleThrows(bl)
      [] OTHER -> RuleThrows(bl)
toJSON(bl) ==
    LET Of(k) == SelectSeq(bl.strings, LAMBDA t: t[1] = k) IN Of("Address") \o Of("Subnet") \o Of("Range")
fromJSON(bl, texts) == FoldLeft(addSerializedRule, bl, texts)
check(bl, ip) ==
    \/ \E r \in ToSet(bl.addresses) : Compare(ip, r) = 0
    \/ \E r \in ToSet(bl.ranges) : Compare(ip, r.start) >= 0 /\ Compare(ip, r.end) <= 0
    \/ \E r \in ToSet(bl.subnets) : InSubnet(ip, r.network, r.prefix)

\* The number an address stands for, with IPv4 addresses where IPv6 maps them.
Number(ip) == FoldLeft(LAMBDA n, b: n * 2 ^ ByteBits + b, 0, BytesOf(ip))
Blocked(r) ==
    CASE r.rule = "Address" -> {Number(r.address)}
      [] r.rule = "Range" -> IF r.start.family = r.end.family THEN Number(r.start)..Number(r.end) ELSE {}
      [] r.rule = "Subnet" /\ r.prefix > FamilyBits(r.network.family) -> {}
      [] OTHER ->
           LET size == 2 ^ (FamilyBits(r.network.family) - r.prefix)
               first == (Number(r.network) \div size) * size IN
           first..(first + size - 1)

\* A BlockList blocks exactly the addresses that the rules of its calls name (an IPv4 address and the IPv6 address that
\* maps it are one; a range from its end to its start, between families, or a prefix too long is refused and names
\* none), and the list that fromJSON() reads from the strings of its toJSON() blocks the same ones and has the same strings.
BlockListExact ==
    Given("blocklist") =>
        LET bl == FoldLeft(addRule, EmptyList, in.rules)
            copy == fromJSON(EmptyList, toJSON(bl)) IN
        /\ ~copy.thrown /\ ToSet(toJSON(copy)) = ToSet(toJSON(bl))
        /\ \A ip \in AllIps : /\ check(bl, ip) = (\E r \in ToSet(in.rules) : Number(ip) \in Blocked(r))
                              /\ check(copy, ip) = check(bl, ip)

----------------
(* SocketAddress.parse().  "v4" is the text of an IPv4 address; an IPv6     *)
(* address is spelled out, since its colons meet those of the port.        *)

Digits == {"8", "0"}
DigitValue(c) == IF c = "8" THEN 8 ELSE 0
PortOf(t) == FoldLeft(LAMBDA n, c: n * 10 + DigitValue(c), 0, t)
Colons(t) == Indices(t, LAMBDA c: c = ":")
IsV6(t) ==     \* inet_pton for texts of few groups: they need one "::"
    /\ \A i \in DOMAIN t : t[i] \in Digits \cup {":"}
    /\ Cardinality({i \in Colons(t) : i + 1 \in Colons(t)}) = 1
    /\ At(t, 1) = ":" => At(t, 2) = ":"
    /\ At(t, Len(t)) = ":" => At(t, Len(t) - 1) = ":"
    /\ \A i \in 1..(Len(t) - 4) : \E k \in i..(i + 4) : t[k] = ":"
\* inet_ntop has one text for the groups of an address, however it was written: its eight groups
HexOf(g) == FoldLeft(LAMBDA n, c: n * 16 + DigitValue(c), 0, g)
Canonical(t) ==
    LET gap == CHOOSE i \in Colons(t) : i + 1 \in Colons(t)
        Groups(s) == IF s = <<>> THEN <<>> ELSE [i \in DOMAIN SplitBy(s, LAMBDA c: c = ":") |-> HexOf(SplitBy(s, LAMBDA c: c = ":")[i])]
        left == Groups(SubSeq(t, 1, gap - 1))
        right == Groups(Cut(t, gap + 1)) IN
    left \o [i \in 1..(8 - Len(left) - Len(right)) |-> 0] \o right
\* "" for a text that is no address; a scope after "%" is dropped
normalizeIp(t, family) ==
    LET scope == First_(Indices(t, LAMBDA c: c = "%"), Len(t) + 1)
        numeric == SubSeq(t, 1, scope - 1) IN
    IF family = 4 THEN IF t = <<"v4">> THEN t ELSE <<>>
    ELSE IF IsV6(numeric) THEN Canonical(numeric) ELSE <<>>
None == [family |-> 0]
MadeAddress(t, portText, family) ==
    LET port == PortOf(portText) IN
    IF \/ ~(\A i \in DOMAIN portText : portText[i] \in Digits)
       \/ port > MaxPort
       \/ normalizeIp(t, family) = <<>>
    THEN None
    ELSE [family |-> family, address |-> normalizeIp(t, family), port |-> IF port = 80 THEN 0 ELSE port]
parseAddress(t) ==
    LET colon == First_(Colons(t), 0) IN
    IF At(t, 1) = "[" THEN
        LET close == First_(Indices(t, LAMBDA c: c = "]"), 0)
            suffix == Cut(t, close) IN
        IF close = 0 \/ (suffix # <<>> /\ suffix[1] # ":") THEN None
        ELSE MadeAddress(SubSeq(t, 2, close - 1), IF suffix = <<>> THEN <<>> ELSE Tail(suffix), 6)
    ELSE IF colon = 0 THEN MadeAddress(t, <<>>, 4)
    ELSE IF Cardinality(Colons(t)) > 1 THEN None
    ELSE MadeAddress(SubSeq(t, 1, colon - 1), Cut(t, colon), 4)

\* parse() accepts exactly `address`, `address:port` and `[address]:port` (the port may be empty, an IPv6 address may
\* have a scope), and gives back that address in its canonical form, without the scope, and the port, with 80 as 0.
ParseAccepts ==
    Given("address") =>
        LET t == in.text
            Ports == {Cut(t, i) : i \in 0..Len(t)}
            Text(a, p) == IF a.family = 4 THEN a.address \o p ELSE <<"[">> \o a.address \o <<"]">> \o p
            Reads == {[family |-> f, address |-> a, digits |-> p, colon |-> c] :
                         f \in {4, 6}, a \in {SubSeq(t, i, k) : i \in 1..2, k \in 0..Len(t)}, p \in Ports, c \in {<<":">>, <<>>}}
            Match == {r \in Reads : /\ Text(r, r.colon \o r.digits) = t
                                    /\ normalizeIp(r.address, r.family) # <<>>
                                    /\ \A i \in DOMAIN r.digits : r.digits[i] \in Digits
                                    /\ PortOf(r.digits) <= MaxPort
                                    /\ r.colon = <<>> => r.digits = <<>>} IN
        /\ (parseAddress(t) = None) = (Match = {})
        /\ \A r \in Match : /\ parseAddress(t).family = r.family /\ parseAddress(t).address = normalizeIp(r.address, r.family)
                            /\ parseAddress(t).port = (IF PortOf(r.digits) = 80 THEN 0 ELSE PortOf(r.digits))

----------------
(* Overloads: an argument is [type |-> ..., value |-> ...]; a missing one   *)
(* has type "undefined".                                                   *)

Missing == [type |-> "undefined", value |-> 0]
Is(a, type) == a.type = type
Arg(args, i) == IF i \in DOMAIN args THEN args[i] ELSE Missing
Pick(a, type, other) == IF a.type = type THEN a.value ELSE other
Refused == [refused |-> TRUE]
Target(port, host, listener) == [refused |-> FALSE, port |-> port, host |-> host, listener |-> listener]
connect(args) ==
    LET a == Arg(args, 1)
        b == Arg(args, 2)
        listener == Pick(b, "function", Pick(Arg(args, 3), "function", 0)) IN
    CASE Is(a, "string") -> Refused
      [] Is(a, "number") -> Target(a.value, Pick(b, "string", "localhost"), listener)
      [] Is(a, "object") /\ a.value.path -> Refused
      [] OTHER -> Target(a.value.port, IF a.value.host = "none" THEN "localhost" ELSE a.value.host, listener)
createConnection(args) ==
    LET a == Arg(args, 1)
        b == Arg(args, 2)
        c == Arg(args, 3) IN
    CASE Is(a, "object") -> connect(<<a, IF Is(b, "function") THEN b ELSE c>>)
      [] Is(a, "number") /\ Is(b, "string") -> connect(<<a, b, c>>)
      [] Is(b, "function") -> connect(<<a, b>>)
      [] OTHER -> connect(<<a, c>>)
listen(args) ==
    LET a == Arg(args, 1)
        b == Arg(args, 2)
        c == Arg(args, 3)
        d == Arg(args, 4) IN
    CASE Is(a, "string") -> Refused
      [] Is(a, "object") /\ a.value.path -> Refused
      [] Is(a, "object") -> [port |-> a.value.port, host |-> a.value.host, backlog |-> 511, refused |-> FALSE,
                             listener |-> Pick(b, "function", 0)]
      [] Is(a, "function") -> [port |-> 0, host |-> "none", backlog |-> 511, refused |-> FALSE, listener |-> a.value]
      [] OTHER -> [port |-> Pick(a, "number", 0), host |-> Pick(b, "string", "none"), refused |-> FALSE,
                   backlog |-> Pick(c, "number", Pick(b, "number", 511)),
                   listener |-> Pick(d, "function", Pick(c, "function", Pick(b, "function", 0)))]

\* Every declared overload of connect(), createConnection() and listen() reaches the port, the host and the listener
\* that the caller named, wherever in the argument list they stand.
OverloadsAgree ==
    Given("overload") =>
        LET given == ToSet(in.args)
            Of(type, other) == IF \E a \in given : Is(a, type) THEN (CHOOSE a \in given : Is(a, type)).value ELSE other
            options == [port |-> 0, host |-> "none", path |-> FALSE]
            named == Of("object", options)
            port == Of("number", named.port)
            host == Of("string", named.host)
            listener == Of("function", 0) IN
        IF named.path THEN connect(in.args).refused /\ createConnection(in.args).refused /\ listen(in.args).refused
        ELSE /\ in.connects => /\ connect(in.args) = Target(port, IF host = "none" THEN "localhost" ELSE host, listener)
                               /\ createConnection(in.args) = connect(in.args)
             /\ LET l == listen(in.args) IN l.port = port /\ l.host = host /\ l.listener = listener

\* Block lists, parsed addresses and the overloads of connect() and listen() against their meaning.
AddressesExact == BlockListExact /\ ParseAccepts /\ OverloadsAgree
=============================================================================
