------------------------------ MODULE MCAccess ------------------------------
(***************************************************************************)
(* Instances of Report, Access and Config for TLC: the documents.          *)
(***************************************************************************)
EXTENDS Report

Bytes == (0 .. 15) \cup {255}
AllKinds == {"Device", "Master", "Server", "Router"}
\* 300 is a number that no network accepts.
SomeIds == {0, 1, 2, 255, 300}
Garbage == {<<7, 7>>}
SomeTimes == {[s |-> 0, us |-> 0], [s |-> 1, us |-> 2500000], [s |-> 2999999, us |-> 1000000]}

\* Values of one, two and four words, all bytes different.
Rising(n) == [k \in 1 .. n |-> <<2 * k - 2, 2 * k - 1>>]
Mirror(n) == [k \in 1 .. n |-> <<2 * k - 1, 9>>]

\* Sections: no option, one of each kind, all.
NoOption == [k \in Keys |-> Absent]
Options ==
  {NoOption,
   [NoOption EXCEPT !["debug"] = 1, !["response-timeout"] = 0],
   [NoOption EXCEPT !["response-timeout"] = 1500, !["rts"] = 2],
   [NoOption EXCEPT !["recovery-link"] = 1, !["debug"] = 1, !["response-timeout"] = 250,
                    !["byte-timeout"] = 0, !["mode"] = 1, !["rts"] = 1, !["rts-delay"] = 5]}
SectionOf(net, option) ==
  [net |-> net, good |-> TRUE, baud |-> Absent, parity |-> "any", option |-> option]
Plain(net) == SectionOf(net, NoOption)
Full == [SectionOf("rtu", [NoOption EXCEPT !["recovery-link"] = 1, !["mode"] = 1])
           EXCEPT !.baud = 9600, !.parity = "E"]

GroupOf(name, section, slaves) == [name |-> name, section |-> section, slaves |-> slaves]
Listed(i, pdu) == [id |-> i, pdu |-> pdu, blocks |-> <<>>]

\* Every network, with options: what a device, and any other class, makes of it.
DeviceDocs ==
  {<<GroupOf("a", [SectionOf(net, option) EXCEPT !.good = good], <<Listed(1, 1)>>)>> :
     net \in {"rtu", "tcp", "null", "other"}, option \in Options, good \in BOOLEAN}

\* Two masters under one or two names, with slaves that are listed once or twice, and a
\* master without a backend.
RouterDocs ==
  {<<GroupOf("a", Plain("tcp"), <<>>),
     GroupOf("a", Full, <<Listed(1, p), Listed(x, Absent)>>),
     GroupOf(name, second, <<Listed(y, q)>>)>> :
     name \in {"a", "b"}, x \in {1, 2}, y \in {1, 255, 300}, p \in {1, Absent},
     q \in {0, Absent}, second \in {Plain("rtu"), Plain("null")}}

Num(v) == [text |-> FALSE, good |-> TRUE, value |-> v, byte |-> 0]
Text(v) == [text |-> TRUE, good |-> TRUE, value |-> v, byte |-> 0]
Wrong(v) == [v EXCEPT !.good = FALSE]
BitNum(n) == [text |-> FALSE, good |-> TRUE, value |-> <<>>, byte |-> n]
BitText(n) == [text |-> TRUE, good |-> TRUE, value |-> <<>>, byte |-> n]

RegisterValues(n) ==
  {<<>>, <<Num(Rising(n))>>, <<Text(Rising(n)), Num(Mirror(n))>>,
   <<Wrong(Text(Rising(n))), Num(Rising(n)), Num(Mirror(n))>>, <<Num(Rising(n)), Wrong(Num(Rising(n)))>>}
BitValues ==
  {<<BitText(165)>>, <<BitNum(1), BitText(6), BitNum(1)>>, <<BitNum(1), Wrong(BitNum(2))>>,
   <<BitText(1), BitText(130)>>}

BlockOf(t, quantity, start, type, endian, addr, values) ==
  [table |-> t, quantity |-> quantity, start |-> start, type |-> type,
   endian |-> endian, at |-> addr, values |-> values]

RegisterBlocks ==
  UNION {{BlockOf(t, quantity, start, type, endian, addr, values) :
            t \in {"holding-register"}, quantity \in {1, 2}, start \in {Absent, 3},
            endian \in {"abcd", "cdab", "badc", "dcba"}, addr \in {Absent, 3},
            values \in RegisterValues(Words(type))} :
         type \in {"int16", "uint32"}}
  \cup {BlockOf("input-register", 2, 0, type, "other", 1, <<Text(Rising(Words(type)))>>) :
          type \in Types}
BitBlocks ==
  {BlockOf(t, quantity, start, type, "abcd", addr, values) :
     t \in {"coil", "other"}, quantity \in {0, 3, 10}, start \in {Absent, 2},
     type \in {"other", "uint32"}, addr \in {Absent, 4}, values \in BitValues}

ServerDoc(entries) == <<GroupOf("a", Plain("tcp"), entries)>>
BlockDocs ==
  {ServerDoc(<<[id |-> 1, pdu |-> pdu, blocks |-> <<b>>]>>) :
     pdu \in {1, Absent}, b \in RegisterBlocks \cup BitBlocks}

\* A block that is given twice: it grows, shrinks, moves or goes.
Holding(quantity, start, values) ==
  BlockOf("holding-register", quantity, start, "uint16", "abcd", Absent, values)
TwiceDocs ==
  {ServerDoc(<<[id |-> 1, pdu |-> 0, blocks |-> <<Holding(2, Absent, <<Num(Rising(1)), Num(Mirror(1))>>)>>],
               [id |-> 1, pdu |-> pdu, blocks |-> <<Holding(n, start, values), Holding(2, 1, values)>>]>>) :
     pdu \in {1, Absent}, n \in {0, 1, 2, 5}, start \in {Absent, 2},
     values \in {<<>>, <<Num(Mirror(1))>>}}

\* The document after which the application exchanges values.
DataDoc ==
  ServerDoc(<<[id |-> 1, pdu |-> Absent, blocks |->
                 <<BlockOf("holding-register", 2, 2, "uint16", "abcd", 2, <<Num(Rising(1))>>)>>]>>)
TimeDoc == <<GroupOf("a", Plain("tcp"), <<>>)>>

\* The documents after which reports are asked for.
ReportDocs == {<<GroupOf("a", Plain("tcp"), <<Listed(1, Absent)>>),
                 GroupOf("b", Plain("rtu"), <<Listed(2, Absent)>>)>>,
               <<GroupOf("a", Plain("tcp"), <<Listed(1, 1)>>)>>}

AllDocs ==
  [k \in AllKinds |->
     CASE k = "Router" -> RouterDocs \cup ReportDocs \cup {TimeDoc}
       [] k = "Server" -> DeviceDocs \cup BlockDocs \cup TwiceDocs \cup {DataDoc}
       [] OTHER -> DeviceDocs]
DataDocs == {DataDoc}
TimeDocs == {TimeDoc}
SomeSamples == {Rising(1), Rising(2)}
SomeShapes == {[words |-> 1, nb |-> 2, orders |-> {"badc"}],
               [words |-> 2, nb |-> 1, orders |-> Endians]}

\* What devices report, and the objects that read it.
SomeReports == {<<>>, <<1, 2, 255>>, <<3, 4, 0, 6, 7>>, <<1, 2, 3, 4, 255, 6>>}
SomeIdTypes == [words : {1, 2}, endian : Endians]
=============================================================================
