------------------------------- MODULE Report -------------------------------
(***************************************************************************)
(* Report Server ID: Slave::reportSlaveId, the copy of the report that a   *)
(* BufferedSlave keeps, and SlaveReport, which reads an identifier, the    *)
(* run indicator and a text from it. The slaves are those of a master or   *)
(* a router that was configured.                                           *)
(*                                                                         *)
(* An identifier has whole words: SlaveReport of a uint8_t is left out.    *)
(***************************************************************************)
EXTENDS Access

CONSTANTS
  MaxPdu,     \* MaxPduLength
  Reports,    \* what devices report: bytes
  IdTypes,    \* of SlaveReport: words of the identifier, and their order
  Reported    \* bound: the documents after which reports are asked for

ASSUME ReportAssumption ==
  /\ MaxPdu \in Nat
  /\ Reports \subseteq {r \in Seq(Byte) : Len(r) <= MaxPdu}
  /\ IdTypes \subseteq [words : Nat \ {0}, endian : Endians] /\ IdTypes # {}
  /\ Reported \subseteq Document

VARIABLES
  isOpen,    \* the masters are open
  idReport,  \* of each slave: BufferedSlave::Private::idReport
  told,      \* history: what the device of a slave reported last
  report     \* the SlaveReport of the application

reportVars == <<isOpen, idReport, told, report>>
everything == <<kind, doc, at, ret, vect, device, master, slave, asked,
                shape, obj, kept, fresh, isOpen, idReport, told, report>>

\* type : T and e ; bytes : the first m_size of m_data ;
\* history: given, what the device had reported by then, and now, asked for the object
SlaveReport == [type : IdTypes, bytes : Seq(Byte), given : Seq(Byte), now : BOOLEAN]

\* The types of Config and Access, and those of the reports.
TypesOK ==
  /\ AccessTypes
  /\ isOpen \in BOOLEAN
  /\ idReport \in [Ids -> Seq(Byte)] /\ \A i \in Ids : Len(idReport[i]) <= MaxPdu
  /\ told \in [Ids -> Seq(Byte)]
  /\ report \in SlaveReport /\ Len(report.bytes) <= MaxPdu

ReportInit ==
  /\ AccessInit
  /\ isOpen = FALSE
  /\ idReport = [i \in Ids |-> <<>>]
  /\ told = [i \in Ids |-> <<>>]
  /\ report = [type |-> CHOOSE t \in IdTypes : TRUE, bytes |-> <<>>, given |-> <<>>,
               now |-> TRUE]
-----------------------------------------------------------------------------
(* SlaveReport.                                                             *)

sizeofT(s) == 2 * s.type.words

\* The first bytes of the report, as they are in memory.
Image(s) == [k \in 1 .. s.type.words |-> <<s.bytes[2 * k - 1], s.bytes[2 * k]>>]

id(s) == IF Len(s.bytes) >= sizeofT(s) THEN ntoh(swap(s.type.endian, Image(s)))
         ELSE Zero(s.type.words)

status(s) == Len(s.bytes) > sizeofT(s) /\ s.bytes[sizeofT(s) + 1] = 255

\* Of a report that has an identifier and a status: the length of a shorter one is
\* below zero and wraps.
data(s) == SubSeq(s.bytes, sizeofT(s) + 2, Len(s.bytes))
-----------------------------------------------------------------------------
(* reportSlaveId.                                                           *)

Configured == ~Running /\ ret = "true" /\ doc \in Reported
AppIdle == UNCHANGED <<kind, doc, at, ret, vect, device, master, slave, asked, objVars>>

\* The slaves of a master are no BufferedSlaves.
Buffered == kind # "Master"

\* Slave::isOpen
SlaveOpen(i) ==
  slave[i].there /\ slave[i].device # 0 /\ isValid(slave[i].device) /\ isOpen

\* The masters are opened or closed, all of them: Router::open and close.
OpenClose ==
  /\ Configured
  /\ isOpen' = ~isOpen
  /\ AppIdle /\ UNCHANGED <<idReport, told, report>>

\* Mutant: the report is cleared for the next one.
Padded_Cleared(b) == [k \in 1 .. MaxPdu |-> 0]

\* idReport.resize (MaxPduLength, 0)
Padded(b) == [k \in 1 .. MaxPdu |-> IF k <= Len(b) THEN b[k] ELSE 0]

\* modbus_report_slave_id writes what the device sends, and nothing when it fails.
Over(b, r) == [k \in 1 .. Len(b) |-> IF k <= Len(r) THEN r[k] ELSE b[k]]

\* The template of Slave: the object gets what there is, and its size.
Fill(t, b, g, now) == report' = [type |-> t, bytes |-> b, given |-> g, now |-> now]

\* The device answers; a BufferedSlave keeps what it sent.
AskReport(i, t, r) ==
  /\ Configured /\ SlaveOpen(i)
  /\ idReport' = IF Buffered
                 THEN [idReport EXCEPT ![i] = SubSeq(Over(Padded(@), r), 1, Len(r))]
                 ELSE idReport
  /\ told' = [told EXCEPT ![i] = r]
  /\ Fill(t, r, r, TRUE)
  /\ AppIdle /\ UNCHANGED isOpen

\* The device does not answer, or the context refuses its number, or it is closed: -1.
\* The object is left alone, and the buffer of the slave keeps its full length, also in
\* readFromDevice, where resize (-1) throws.
AskFails(i) ==
  /\ Configured /\ slave[i].there
  /\ SlaveOpen(i) \/ ~Buffered
  /\ idReport' = IF Buffered THEN [idReport EXCEPT ![i] = Padded(@)] ELSE idReport
  /\ AppIdle /\ UNCHANGED <<isOpen, told, report>>

\* A BufferedSlave whose device is closed gives what it has.
AskClosed(i, t) ==
  /\ Configured /\ slave[i].there /\ ~SlaveOpen(i) /\ Buffered
  /\ Fill(t, idReport[i], told[i], FALSE)
  /\ AppIdle /\ UNCHANGED <<isOpen, idReport, told>>

\* readFromDevice for a client's request: the buffer keeps its full length.
ServeReport(i, r) ==
  /\ Configured /\ SlaveOpen(i) /\ Buffered
  /\ idReport' = [idReport EXCEPT ![i] = Over(Padded(@), r)]
  /\ told' = [told EXCEPT ![i] = r]
  /\ AppIdle /\ UNCHANGED <<isOpen, report>>

ReportStep ==
  \/ OpenClose
  \/ \E i \in Ids :
       \/ AskFails(i)
       \/ \E t \in IdTypes : AskClosed(i, t) \/ \E r \in Reports : AskReport(i, t, r)
       \/ \E r \in Reports : ServeReport(i, r)

ReportNext == (AccessNext /\ UNCHANGED reportVars) \/ ReportStep

ReportSpec == ReportInit /\ [][ReportNext]_everything
-----------------------------------------------------------------------------
\* Bytes of a report, as a register.
RegisterIn(r, k) == Wire(<<r[2 * k - 1], r[2 * k]>>)

\* The identifier and the run indicator of a report are those that the device gave,
\* in the order of the object, when it was asked and when the slave had them from
\* before, whatever failed since. The text is the device's if it was asked, and begins with
\* the device's if the slave had it from before: the zeros of a buffer that was padded, or
\* the end of an earlier report, may follow it.
ReportAsGiven ==
  LET n == sizeofT(report) IN
  Len(report.given) > n =>
    /\ \A k \in 1 .. report.type.words :
         InOrder(RegisterIn(report.given, k), id(report), report.type.endian, k)
    /\ status(report) <=> report.given[n + 1] = 255
    /\ SubSeq(data(report), 1, Len(report.given) - n - 1)
         = SubSeq(report.given, n + 2, Len(report.given))
    /\ report.now => Len(data(report)) = Len(report.given) - n - 1
=============================================================================
